---------------------------- MODULE CardApproval ----------------------------
(***************************************************************************)
(* Approval of ONE agreement by a card sent through Outlook, next to the   *)
(* approval by a panel inside the application (WorkflowService), and the   *)
(* operations that open, save and revise the agreement meanwhile.          *)
(*                                                                         *)
(* requestApproval and recordCardAction are requests without a transaction *)
(* around them: each await is a step of its own.  A panel's operations,    *)
(* saving and revising run under the Contract row lock, one action each.   *)
(*                                                                         *)
(* A document and the contract version it was saved as are one number,     *)
(* `text': every save raises both.  Expiry of a routing, loss of a role,   *)
(* an enabled policy and a signature row only refuse operations here; they *)
(* are left out, which adds behaviour and takes none away.                 *)
(* Prerequisites of a request that saveRouting checks again are taken at   *)
(* saveRouting, and an input is chosen by the step that first uses it.     *)
(***************************************************************************)
EXTENDS Naturals

CONSTANTS
  Approvers,    \* people who hold the approve permission
  Requests,     \* concurrent calls of requestApproval
  Clicks,       \* callbacks of a card in flight
  MaxText       \* bound: no version is saved once there are this many

ASSUME CardAssumption == MaxText \in Nat \ {0}

VARIABLES
  stage, text, needsNew, archived,  \* Contract, Document, ApprovalRound
  routing, panel, decision,         \* ApprovalRouting, ApprovalStep, ApprovalDecision
  request, click,                   \* calls in flight
  chosen                            \* ghost: whom each text was routed to

contractVars == <<stage, text, needsNew, archived>>
approvalVars == <<routing, panel, decision>>
vars == <<contractVars, approvalVars, request, click, chosen>>

Stages == {"drafting", "review", "approval", "signature"}
Verdicts == {"approved", "rejected"}
Lists == SUBSET Approvers \ {{}}
(* A table holds at most one row of the contract: the set of its rows. *)
Routing == [to: Lists, text: Nat]
Decision == [by: Approvers, verdict: Verdicts, text: Nat]
Step == [by: Approvers, verdict: Verdicts \cup {"pending"}]

IdleRequest == [pc |-> "idle", previous |-> {}]
IdleClick == [pc |-> "idle", by |-> "nobody", verdict |-> "none", text |-> 0]

Init ==
  /\ stage = "drafting" /\ text = 1 /\ needsNew = FALSE /\ archived = {}
  /\ routing = {} /\ panel = {} /\ decision = {}
  /\ request = [r \in Requests |-> IdleRequest]
  /\ click = [c \in Clicks |-> IdleClick]
  /\ chosen = {}

-----------------------------------------------------------------------------
(* The agreement *)

Unrouted == routing = {} /\ decision = {}

NewText ==
  /\ Unrouted /\ text < MaxText
  /\ text' = text + 1 /\ needsNew' = FALSE
  /\ UNCHANGED <<archived, approvalVars, request, click, chosen>>

SaveDraft ==
  /\ stage # "signature"
  /\ NewText
  /\ stage' = IF stage = "review" THEN "review" ELSE "drafting"

Upload ==
  /\ NewText
  /\ UNCHANGED stage

Transition(to) ==
  /\ Unrouted
  /\ stage \in {"drafting", "review"} /\ stage # to
  /\ to = "review" => ~needsNew
  /\ stage' = to
  /\ UNCHANGED <<text, needsNew, archived, approvalVars, request, click, chosen>>

(* The round is archived under its version, which must be new there. *)
Revise ==
  /\ routing # {} /\ decision # {} /\ text \notin archived
  /\ archived' = archived \cup {text}
  /\ routing' = {} /\ panel' = {} /\ decision' = {}
  /\ stage' = "drafting" /\ needsNew' = TRUE
  /\ UNCHANGED <<text, request, click, chosen>>

-----------------------------------------------------------------------------
(* A request for approval by card *)

Routed(list) == {[to |-> list, text |-> text]}

(* loadRouting, before the routing is overwritten. *)
ReadPrevious(r) ==
  /\ request[r].pc = "idle"
  /\ request' = [request EXCEPT ![r] = [pc |-> "read", previous |-> routing]]
  /\ UNCHANGED <<contractVars, approvalVars, click, chosen>>

SaveRouting(r, list) ==
  /\ request[r].pc = "read"
  /\ stage = "review" /\ ~needsNew /\ decision = {}
  /\ routing' = Routed(list)
  /\ chosen' = chosen \cup {[by |-> a, text |-> text] : a \in list}
  /\ request' = [request EXCEPT ![r].pc = "saved"]
  /\ UNCHANGED <<contractVars, panel, decision, click>>

(* The conditions changed since they were read. *)
Refuse(r) ==
  /\ request[r].pc = "read"
  /\ request' = [request EXCEPT ![r] = IdleRequest]
  /\ UNCHANGED <<contractVars, approvalVars, click, chosen>>

(* The mail was accepted, or the process stops before it can undo anything. *)
Delivered(r) ==
  /\ request[r].pc = "saved"
  /\ request' = [request EXCEPT ![r] = IdleRequest]
  /\ UNCHANGED <<contractVars, approvalVars, click, chosen>>

(* restoreRouting writes the previous row verbatim, clearRouting deletes. *)
RestoredAsCurrent(previous) == {[p EXCEPT !.text = text] : p \in previous}
Restored(previous) == previous

Rollback(r) ==
  /\ request[r].pc = "saved"
  /\ routing' = Restored(request[r].previous)
  /\ request' = [request EXCEPT ![r] = IdleRequest]
  /\ UNCHANGED <<contractVars, panel, decision, click, chosen>>

-----------------------------------------------------------------------------
(* The panel *)

RoutePanel(list) ==
  /\ stage = "review" /\ ~needsNew
  /\ routing = {} /\ decision = {}
  /\ \A s \in panel : s.by \notin list          \* unique (contract, approver)
  /\ routing' = Routed(list)
  /\ panel' = panel \cup {[by |-> a, verdict |-> "pending"] : a \in list}
  /\ stage' = "approval"
  /\ chosen' = chosen \cup {[by |-> a, text |-> text] : a \in list}
  /\ UNCHANGED <<text, needsNew, archived, decision, request, click>>

(* What decideInApp does once its checks have passed: the round ends with the first
   objection, or with the last card. *)
ConcludeAtOnce(a, verdict, cards) ==
  /\ decision' = {[by |-> a, verdict |-> verdict, text |-> text]}
  /\ stage' = IF verdict = "approved" THEN "signature" ELSE "review"

Conclude(a, verdict, cards) ==
  IF verdict # "approved" \/ \A s \in cards : s.verdict = "approved"
  THEN /\ decision' = {[by |-> a, verdict |-> verdict, text |-> text]}
       /\ stage' = IF verdict = "approved" THEN "signature" ELSE "review"
  ELSE UNCHANGED <<decision, stage>>

Decides(a, verdict) ==
  \E r \in routing, s \in panel :
    LET cards == (panel \ {s}) \cup {[s EXCEPT !.verdict = verdict]} IN
    /\ a \in r.to /\ r.text = text
    /\ s.by = a /\ s.verdict = "pending"
    /\ decision = {}
    /\ panel' = cards
    /\ Conclude(a, verdict, cards)

Decide(a, verdict) ==
  /\ Decides(a, verdict)
  /\ UNCHANGED <<text, needsNew, archived, routing, request, click, chosen>>

-----------------------------------------------------------------------------
(* The callback of a card *)

Matches(pin) == pin = text

(* Token, routing, list and document are checked; nothing is locked. *)
Press(c, a) ==
  /\ click[c].pc = "idle"
  /\ \E r \in routing :
       /\ a \in r.to /\ Matches(r.text)
       /\ click' = [click EXCEPT ![c] = [@ EXCEPT !.pc = "checked", !.by = a, !.text = r.text]]
  /\ UNCHANGED <<contractVars, approvalVars, request, chosen>>

(* With the panel's cards on record the click becomes a call of decideInApp,
   which checks everything again: one more Decide.  GiveUp forgets the click. *)
PressedAlone(c) ==
  /\ click[c].pc = "checked" /\ panel = {}
  /\ click' = [click EXCEPT ![c].pc = "claiming"]
  /\ UNCHANGED <<contractVars, approvalVars, request, chosen>>

(* claimDecision: the insert of what was checked succeeds, or the key is taken. *)
Pinned(c, verdict) == [by |-> click[c].by, verdict |-> verdict, text |-> click[c].text]

Claim(c, verdict) ==
  /\ click[c].pc = "claiming" /\ decision = {}
  /\ decision' = {Pinned(c, verdict)}
  /\ click' = [click EXCEPT ![c] = [@ EXCEPT !.pc = "first", !.verdict = verdict]]
  /\ UNCHANGED <<contractVars, routing, panel, request, chosen>>

Taken(c, verdict) ==
  /\ click[c].pc = "claiming" /\ decision # {}
  /\ click' = [click EXCEPT ![c] = [@ EXCEPT !.pc = "taken", !.verdict = verdict]]
  /\ UNCHANGED <<contractVars, approvalVars, request, chosen>>

(* The row that won is read: this caller's own decision counts as the first, also
   when the click is a repetition or was checked against another text. *)
SameCaller(d, c) == d.by = click[c].by /\ d.verdict = click[c].verdict

ReadWinner(c) ==
  /\ click[c].pc = "taken"
  /\ \E d \in decision :
       click' = [click EXCEPT ![c] = IF SameCaller(d, c) THEN [@ EXCEPT !.pc = "first"]
                                     ELSE IdleClick]
  /\ UNCHANGED <<contractVars, approvalVars, request, chosen>>

(* The audit event is written and the click answered. *)
Audit(c) ==
  /\ click[c].pc = "first"
  /\ click' = [click EXCEPT ![c] = IdleClick]
  /\ UNCHANGED <<contractVars, approvalVars, request, chosen>>

(* The panel takes over, the row has gone, a call fails or the process stops. *)
GiveUp(c) ==
  /\ click[c].pc \in {"checked", "claiming", "taken"}
  /\ click' = [click EXCEPT ![c] = IdleClick]
  /\ UNCHANGED <<contractVars, approvalVars, request, chosen>>

-----------------------------------------------------------------------------

CardSteps(c) ==
  \/ \E a \in Approvers : Press(c, a)
  \/ PressedAlone(c)
  \/ \E v \in Verdicts : Claim(c, v) \/ Taken(c, v)
  \/ ReadWinner(c)
  \/ Audit(c) \/ GiveUp(c)

RequestSteps(r) ==
  \/ ReadPrevious(r)
  \/ \E list \in Lists : SaveRouting(r, list)
  \/ Refuse(r) \/ Delivered(r) \/ Rollback(r)

Next ==
  \/ SaveDraft \/ Upload \/ Revise
  \/ \E to \in {"drafting", "review"} : Transition(to)
  \/ \E list \in Lists : RoutePanel(list)
  \/ \E a \in Approvers, v \in Verdicts : Decide(a, v)
  \/ \E r \in Requests : RequestSteps(r)
  \/ \E c \in Clicks : CardSteps(c)

Spec == Init /\ [][Next]_vars

-----------------------------------------------------------------------------
(* Properties *)

TypeOK ==
  /\ stage \in Stages /\ text \in Nat /\ needsNew \in BOOLEAN
  /\ archived \in SUBSET Nat
  /\ routing \in SUBSET Routing /\ \A r, s \in routing : r = s
  /\ panel \in SUBSET Step
  /\ decision \in SUBSET Decision /\ \A d, e \in decision : d = e
  /\ request \in [Requests -> [pc: {"idle", "read", "saved"}, previous: SUBSET Routing]]
  /\ click \in [Clicks -> [pc: {"idle", "checked", "claiming", "first", "taken"},
                           by: Approvers \cup {"nobody"}, verdict: Verdicts \cup {"none"},
                           text: Nat]]
  /\ chosen \in SUBSET [by: Approvers, text: Nat]

(* A decision on record was made by somebody to whom a lawyer had routed
   exactly the document and version it names, however many requests overwrote
   each other's routing or put an older one back: what a rollback restores
   carries its own document. *)
DecisionWasRouted ==
  \A d \in decision : [by |-> d.by, text |-> d.text] \in chosen

(* An agreement at signature has an approval of its newest text on record, given by
   a member of its panel, and no card of the panel is unanswered or against it,
   whatever the cards in Outlook do meanwhile: a click that was checked before the
   panel was routed, a routing overwritten or put back under the panel, and a claim
   that ends the round early never take it there.  That every card was given about
   the newest text is not promised (a rollback may take the panel's routing away
   and leave its cards). *)
SignatureNeedsThePanel ==
  stage = "signature" =>
    /\ \E d \in decision : d.verdict = "approved" /\ d.text = text
    /\ \E d \in decision, s \in panel : s.by = d.by
    /\ \A s \in panel : s.verdict = "approved"

(* The first decision about a document wins: two clicks that were both told
   that they decided about it brought the same verdict. *)
FirstDecisionWins ==
  \A c, d \in Clicks :
    /\ click[c].pc = "first" /\ click[d].pc = "first"
    /\ click[c].text = click[d].text
    => click[c].verdict = click[d].verdict
=============================================================================
