------------------------- MODULE CardApprovalProofs -------------------------
(***************************************************************************)
(* The safety of card approvals for any number of approvers, requests and  *)
(* clicks.  Requests and clicks work on what they read long ago, so the    *)
(* invariant follows a routing into every place where it is kept: the row  *)
(* itself, what a request would put back, and what a click was checked     *)
(* against were all written by somebody who routed that very text.         *)
(***************************************************************************)
EXTENDS CardApproval, TLAPS

ClickType == [pc: {"idle", "checked", "claiming", "first", "taken"},
              by: Approvers \cup {"nobody"}, verdict: Verdicts \cup {"none"}, text: Nat]

WasRouted(a, t) == [by |-> a, text |-> t] \in chosen

(* The routing on record, and the one a request would put back. *)
RowInv == \A r \in routing : \A a \in r.to : WasRouted(a, r.text)

PreviousInv ==
  \A q \in Requests :
    /\ \A p \in request[q].previous : \A a \in p.to : WasRouted(a, p.text)
    /\ \A p, o \in request[q].previous : p = o

(* A click past its checks carries the person and the text it was checked for. *)
ClickInv ==
  \A c \in Clicks : click[c].pc # "idle" =>
    /\ click[c].by \in Approvers
    /\ WasRouted(click[c].by, click[c].text)

IInv == TypeOK /\ RowInv /\ PreviousInv /\ ClickInv /\ DecisionWasRouted

-----------------------------------------------------------------------------
(* The initial state *)

LEMMA InitInv == Init => IInv
<1> SUFFICES ASSUME Init PROVE IInv
  OBVIOUS
<1>1. \A q \in Requests : request[q] = IdleRequest
  BY DEF Init
<1>2. \A c \in Clicks : click[c] = IdleClick
  BY DEF Init
<1>3. TypeOK
  BY DEF Init, TypeOK, Stages, IdleRequest, IdleClick
<1> QED
  BY <1>1, <1>2, <1>3
  DEF Init, IInv, RowInv, PreviousInv, ClickInv, DecisionWasRouted,
      IdleRequest, IdleClick

-----------------------------------------------------------------------------
(* Steps that route, restore or withdraw *)

(* chosen only grows, so what was routed stays so. *)
LEMMA ChosenGrows ==
  ASSUME TypeOK, [Next]_vars
  PROVE  chosen \subseteq chosen'
<1>1. CASE \E list \in Lists : RoutePanel(list)
  BY <1>1 DEF RoutePanel
<1>2. CASE \E r \in Requests : RequestSteps(r)
  BY <1>2 DEF RequestSteps, ReadPrevious, SaveRouting, Refuse, Delivered, Rollback
<1>3. CASE \E c \in Clicks : CardSteps(c)
  BY <1>3 DEF CardSteps, Press, PressedAlone, Claim, Taken, ReadWinner, Audit, GiveUp
<1>4. CASE SaveDraft \/ Upload \/ Revise \/ UNCHANGED vars
  BY <1>4 DEF SaveDraft, Upload, NewText, Revise, vars
<1>5. CASE \E to \in {"drafting", "review"} : Transition(to)
  BY <1>5 DEF Transition
<1>6. CASE \E a \in Approvers, v \in Verdicts : Decide(a, v)
  BY <1>6 DEF Decide
<1> QED
  BY <1>1, <1>2, <1>3, <1>4, <1>5, <1>6 DEF Next

(* Saving, uploading, moving the stage and revising leave no routing of their own. *)
LEMMA AgreementStep ==
  ASSUME IInv,
         SaveDraft \/ Upload \/ Revise \/ (\E to \in {"drafting", "review"} : Transition(to))
  PROVE  IInv'
<1>1. CASE SaveDraft \/ Upload
  <2>1. /\ routing' = routing /\ panel' = panel /\ decision' = decision
        /\ request' = request /\ click' = click /\ chosen' = chosen
        /\ archived' = archived /\ text' = text + 1 /\ needsNew' = FALSE
    BY <1>1 DEF SaveDraft, Upload, NewText, approvalVars
  <2>2. stage' \in Stages
    BY <1>1 DEF SaveDraft, Upload, IInv, TypeOK, Stages
  <2>3. text \in Nat
    BY DEF IInv, TypeOK
  <2>4. text' \in Nat
    BY <2>1, <2>3
  <2>5. needsNew' \in BOOLEAN
    BY <2>1, Zenon
  <2>6. TypeOK'
    BY <2>1, <2>2, <2>4, <2>5 DEF IInv, TypeOK
  <2> QED
    BY <2>1, <2>6
    DEF IInv, RowInv, PreviousInv, ClickInv, DecisionWasRouted, WasRouted
<1>2. CASE Revise
  <2>1. TypeOK'
    BY <1>2 DEF IInv, TypeOK, Revise, Stages
  <2> QED
    BY <1>2, <2>1
    DEF IInv, Revise, RowInv, PreviousInv, ClickInv, DecisionWasRouted, WasRouted
<1>3. ASSUME NEW to \in {"drafting", "review"}, Transition(to) PROVE IInv'
  <2>1. /\ routing' = routing /\ panel' = panel /\ decision' = decision
        /\ request' = request /\ click' = click /\ chosen' = chosen
        /\ archived' = archived /\ text' = text /\ needsNew' = needsNew
        /\ stage' \in Stages
    BY <1>3 DEF Transition, approvalVars, Stages
  <2>2. TypeOK'
    BY <2>1 DEF IInv, TypeOK
  <2> QED
    BY <2>1, <2>2
    DEF IInv, RowInv, PreviousInv, ClickInv, DecisionWasRouted, WasRouted
<1> QED
  BY <1>1, <1>2, <1>3

(* A routing by a request or to a panel names exactly the text of now. *)
LEMMA RoutingStep ==
  ASSUME IInv, NEW list \in Lists, chosen \subseteq chosen',
         \/ RoutePanel(list)
         \/ \E r \in Requests : SaveRouting(r, list)
  PROVE  IInv'
<1>1. /\ routing' = Routed(list)
      /\ chosen' = chosen \cup {[by |-> a, text |-> text] : a \in list}
      /\ text' = text /\ needsNew' = needsNew /\ archived' = archived
      /\ decision' = decision /\ click' = click
      /\ stage' \in Stages
  BY DEF RoutePanel, SaveRouting, contractVars, IInv, TypeOK, Stages
<1>2. Routed(list) \in SUBSET Routing /\ \A r, s \in Routed(list) : r = s
  BY DEF Routed, Routing, IInv, TypeOK
<1>3. chosen' \in SUBSET [by: Approvers, text: Nat]
  BY <1>1 DEF IInv, TypeOK, Lists
<1>4. panel' \in SUBSET Step
  <2>1. {[by |-> a, verdict |-> "pending"] : a \in list} \subseteq Step
    BY DEF Step, Lists
  <2> QED
    BY <2>1 DEF RoutePanel, SaveRouting, IInv, TypeOK
<1>5. /\ request' \in [Requests -> [pc: {"idle", "read", "saved"}, previous: SUBSET Routing]]
      /\ \A q \in Requests : request'[q].previous = request[q].previous
  BY DEF RoutePanel, SaveRouting, IInv, TypeOK
<1>6. TypeOK'
  BY <1>1, <1>2, <1>3, <1>4, <1>5 DEF IInv, TypeOK
<1>7. RowInv'
  BY <1>1 DEF RowInv, WasRouted, Routed
<1>8. PreviousInv'
  BY <1>5 DEF IInv, PreviousInv, WasRouted
<1> QED
  BY <1>1, <1>6, <1>7, <1>8 DEF IInv, ClickInv, DecisionWasRouted, WasRouted

(* A request remembers the row it is about to overwrite, and puts that back. *)
LEMMA RequestStep ==
  ASSUME IInv, NEW r \in Requests, chosen \subseteq chosen',
         ReadPrevious(r) \/ Refuse(r) \/ Delivered(r) \/ Rollback(r)
  PROVE  IInv'
<1>1. /\ request' \in [Requests -> [pc: {"idle", "read", "saved"}, previous: SUBSET Routing]]
      /\ \A q \in Requests : request'[q].previous \in {{}, routing, request[q].previous}
  BY DEF ReadPrevious, Refuse, Delivered, Rollback, IInv, TypeOK, IdleRequest
<1>2. routing' = routing \/ routing' = request[r].previous
  BY DEF ReadPrevious, Refuse, Delivered, Rollback, Restored, approvalVars
<1>3. /\ stage' = stage /\ text' = text /\ needsNew' = needsNew /\ archived' = archived
      /\ panel' = panel /\ decision' = decision /\ click' = click /\ chosen' = chosen
  BY DEF ReadPrevious, Refuse, Delivered, Rollback, contractVars, approvalVars
<1>4. TypeOK'
  <2>1. routing' \in SUBSET Routing /\ \A p, o \in routing' : p = o
    BY <1>2 DEF IInv, TypeOK, PreviousInv
  <2> QED
    BY <1>1, <1>3, <2>1 DEF IInv, TypeOK
<1>5. RowInv'
  BY <1>2, <1>3 DEF IInv, RowInv, PreviousInv, WasRouted
<1>6. PreviousInv'
  BY <1>1, <1>3 DEF IInv, TypeOK, RowInv, PreviousInv, WasRouted
<1> QED
  BY <1>3, <1>4, <1>5, <1>6 DEF IInv, ClickInv, DecisionWasRouted, WasRouted

-----------------------------------------------------------------------------
(* Steps that decide *)

(* A member of the panel decides about the routed text of now. *)
LEMMA DecideStep ==
  ASSUME IInv, NEW a \in Approvers, NEW v \in Verdicts, Decide(a, v)
  PROVE  IInv'
<1>1. PICK r \in routing, s \in panel :
        /\ a \in r.to /\ r.text = text
        /\ panel' = (panel \ {s}) \cup {[s EXCEPT !.verdict = v]}
        /\ Conclude(a, v, (panel \ {s}) \cup {[s EXCEPT !.verdict = v]})
  BY DEF Decide, Decides
<1>2. /\ text' = text /\ needsNew' = needsNew /\ archived' = archived
      /\ routing' = routing /\ request' = request /\ click' = click /\ chosen' = chosen
  BY DEF Decide
<1>3. WasRouted(a, text)
  BY <1>1 DEF IInv, RowInv, WasRouted
<1>4. /\ \/ decision' = decision
         \/ decision' = {[by |-> a, verdict |-> v, text |-> text]}
      /\ stage' \in Stages
  BY <1>1 DEF Conclude, IInv, TypeOK, Stages
<1>5. panel' \in SUBSET Step
  <2>1. [s EXCEPT !.verdict = v] \in Step
    BY DEF IInv, TypeOK, Step
  <2> QED
    BY <1>1, <2>1 DEF IInv, TypeOK
<1>6. decision' \in SUBSET Decision /\ \A d, e \in decision' : d = e
  BY <1>4 DEF IInv, TypeOK, Decision
<1>7. TypeOK'
  BY <1>2, <1>4, <1>5, <1>6 DEF IInv, TypeOK
<1>8. DecisionWasRouted'
  <2>1. CASE decision' = decision
    BY <1>2, <2>1 DEF IInv, DecisionWasRouted
  <2>2. CASE decision' = {[by |-> a, verdict |-> v, text |-> text]}
    <3>1. \A d \in decision' : d.by = a /\ d.text = text
      BY <2>2
    <3> QED
      BY <1>2, <1>3, <3>1 DEF DecisionWasRouted, WasRouted
  <2> QED
    BY <1>4, <2>1, <2>2
<1> QED
  BY <1>2, <1>7, <1>8 DEF IInv, RowInv, PreviousInv, ClickInv, WasRouted

(* A click is checked against the row, and claims what it was checked against. *)
LEMMA CardStep ==
  ASSUME IInv, NEW c \in Clicks, CardSteps(c)
  PROVE  IInv'
<1>1. CASE \E a \in Approvers : Press(c, a)
  <2>1. PICK a \in Approvers, r \in routing :
          /\ a \in r.to
          /\ click' = [click EXCEPT ![c] = [@ EXCEPT !.pc = "checked", !.by = a,
                                                     !.text = r.text]]
    BY <1>1 DEF Press
  <2>2. WasRouted(a, r.text) /\ r.text \in Nat
    BY <2>1 DEF IInv, RowInv, TypeOK, Routing
  <2>3. UNCHANGED <<contractVars, approvalVars, request, chosen>>
    BY <1>1 DEF Press
  <2>4. TypeOK'
    <3>1. click' \in [Clicks -> ClickType]
      BY <2>1, <2>2 DEF IInv, TypeOK, ClickType
    <3> QED
      BY <2>3, <3>1 DEF IInv, TypeOK, contractVars, approvalVars, ClickType
  <2>5. ClickInv'
    BY <2>1, <2>2, <2>3 DEF IInv, TypeOK, ClickInv, WasRouted
  <2> QED
    BY <2>3, <2>4, <2>5
    DEF IInv, RowInv, PreviousInv, DecisionWasRouted, WasRouted, contractVars, approvalVars
<1>2. ASSUME NEW v \in Verdicts, Claim(c, v) PROVE IInv'
  <2>1. click[c].by \in Approvers /\ WasRouted(click[c].by, click[c].text)
        /\ click[c].text \in Nat
    BY <1>2 DEF IInv, ClickInv, TypeOK, Claim
  <2>2. decision' = {[by |-> click[c].by, verdict |-> v, text |-> click[c].text]}
    BY <1>2 DEF Claim, Pinned
  <2>3. decision' \in SUBSET Decision /\ \A d, e \in decision' : d = e
    BY <2>1, <2>2 DEF Decision
  <2>4. TypeOK'
    <3>1. click' \in [Clicks -> ClickType]
      BY <1>2 DEF IInv, TypeOK, Claim, ClickType
    <3> QED
      BY <1>2, <2>3, <3>1 DEF IInv, TypeOK, Claim, contractVars, ClickType
  <2>5. DecisionWasRouted'
    <3>1. \A d \in decision' : d.by = click[c].by /\ d.text = click[c].text
      BY <2>2
    <3>2. chosen' = chosen
      BY <1>2 DEF Claim
    <3> QED
      BY <2>1, <3>1, <3>2 DEF DecisionWasRouted, WasRouted
  <2>6. ClickInv'
    BY <1>2 DEF IInv, TypeOK, ClickInv, WasRouted, Claim
  <2> QED
    BY <1>2, <2>4, <2>5, <2>6 DEF IInv, RowInv, PreviousInv, WasRouted, Claim
<1>3. CASE PressedAlone(c) \/ (\E v \in Verdicts : Taken(c, v)) \/ ReadWinner(c)
           \/ Audit(c) \/ GiveUp(c)
  <2>1. UNCHANGED <<contractVars, approvalVars, request, chosen>>
    BY <1>3 DEF PressedAlone, Taken, ReadWinner, Audit, GiveUp
  <2> DEFINE k == click'[c]
  <2>2. /\ click' \in [Clicks -> ClickType]
        /\ \A d \in Clicks \ {c} : click'[d] = click[d]
        /\ k.pc # "idle" => click[c].pc # "idle" /\ k.by = click[c].by /\ k.text = click[c].text
    <3>1. CASE PressedAlone(c)
      BY <3>1 DEF PressedAlone, IInv, TypeOK, ClickType
    <3>2. ASSUME NEW v \in Verdicts, Taken(c, v) PROVE <2>2
      BY <3>2 DEF Taken, IInv, TypeOK, ClickType
    <3>3. CASE ReadWinner(c)
      <4>1. CASE click' = [click EXCEPT ![c] = [@ EXCEPT !.pc = "first"]]
        BY <3>3, <4>1 DEF ReadWinner, IInv, TypeOK, ClickType
      <4>2. CASE click' = [click EXCEPT ![c] = IdleClick]
        BY <4>2 DEF IdleClick, IInv, TypeOK, ClickType
      <4> QED
        BY <3>3, <4>1, <4>2 DEF ReadWinner
    <3>4. CASE Audit(c) \/ GiveUp(c)
      BY <3>4 DEF Audit, GiveUp, IdleClick, IInv, TypeOK, ClickType
    <3> QED
      BY <1>3, <3>1, <3>2, <3>3, <3>4
  <2>3. TypeOK'
    BY <2>1, <2>2 DEF IInv, TypeOK, contractVars, approvalVars, ClickType
  <2>4. ClickInv'
    BY <2>1, <2>2 DEF IInv, ClickInv, WasRouted
  <2> QED
    BY <2>1, <2>3, <2>4
    DEF IInv, RowInv, PreviousInv, DecisionWasRouted, WasRouted, contractVars, approvalVars
<1> QED
  BY <1>1, <1>2, <1>3 DEF CardSteps

-----------------------------------------------------------------------------
(* The theorems *)

LEMMA NextInv == IInv /\ [Next]_vars => IInv'
<1> SUFFICES ASSUME IInv, [Next]_vars PROVE IInv'
  OBVIOUS
<1>1. chosen \subseteq chosen'
  BY ChosenGrows DEF IInv
<1>2. CASE SaveDraft \/ Upload \/ Revise \/ \E to \in {"drafting", "review"} : Transition(to)
  BY <1>2, AgreementStep
<1>3. CASE \E list \in Lists : RoutePanel(list)
  BY <1>1, <1>3, RoutingStep
<1>4. CASE \E a \in Approvers, v \in Verdicts : Decide(a, v)
  BY <1>4, DecideStep
<1>5. ASSUME NEW r \in Requests, RequestSteps(r) PROVE IInv'
  <2>1. CASE \E list \in Lists : SaveRouting(r, list)
    BY <1>1, <2>1, RoutingStep
  <2>2. CASE ReadPrevious(r) \/ Refuse(r) \/ Delivered(r) \/ Rollback(r)
    BY <1>1, <2>2, RequestStep
  <2> QED
    BY <1>5, <2>1, <2>2 DEF RequestSteps
<1>6. ASSUME NEW c \in Clicks, CardSteps(c) PROVE IInv'
  BY <1>6, CardStep
<1>7. CASE UNCHANGED vars
  BY <1>7 DEF vars, contractVars, approvalVars, IInv, TypeOK, RowInv, PreviousInv, ClickInv,
              DecisionWasRouted, WasRouted
<1> QED
  BY <1>2, <1>3, <1>4, <1>5, <1>6, <1>7 DEF Next

LEMMA Inductive == Spec => []IInv
  BY InitInv, NextInv, PTL DEF Spec

(* Without a decision on record the agreement is not at signature, and with one only
   a revision moves its stage or its text. *)
LEMMA SignatureStep ==
  ASSUME IInv, SignatureNeedsThePanel, [Next]_vars
  PROVE  SignatureNeedsThePanel'
<1>1. decision = {} => stage # "signature"
  BY DEF SignatureNeedsThePanel
<1>2. CASE UNCHANGED <<stage, text, panel, decision>>
  BY <1>2 DEF SignatureNeedsThePanel
<1>3. CASE stage' # "signature"
  BY <1>3 DEF SignatureNeedsThePanel
<1>4. CASE SaveDraft \/ Upload \/ Revise \/ \E to \in {"drafting", "review"} : Transition(to)
  <2>1. stage' # "signature"
    BY <1>1, <1>4 DEF SaveDraft, Upload, NewText, Unrouted, Revise, Transition
  <2> QED
    BY <1>3, <2>1
<1>5. CASE \E list \in Lists : RoutePanel(list)
  BY <1>3, <1>5 DEF RoutePanel
<1>6. ASSUME NEW a \in Approvers, NEW v \in Verdicts, Decide(a, v)
      PROVE  SignatureNeedsThePanel'
  <2>1. PICK s \in panel :
          LET cards == (panel \ {s}) \cup {[s EXCEPT !.verdict = v]} IN
          /\ s.by = a /\ decision = {} /\ panel' = cards /\ Conclude(a, v, cards)
    BY <1>6 DEF Decides, Decide
  <2>2. text' = text
    BY <1>6 DEF Decide
  <2> SUFFICES ASSUME stage' = "signature" PROVE SignatureNeedsThePanel'
    BY <1>3
  <2>3. /\ v = "approved" /\ decision' = {[by |-> a, verdict |-> v, text |-> text]}
        /\ \A c \in panel' : c.verdict = "approved"
    BY <1>1, <2>1 DEF Conclude
  <2>4. PICK card \in panel' : card.by = a
    <3>1. [s EXCEPT !.verdict = v] \in panel' /\ [s EXCEPT !.verdict = v].by = a
      BY <2>1 DEF IInv, TypeOK, Step
    <3> QED
      BY <3>1
  <2>5. \E d \in decision' : d.verdict = "approved" /\ d.text = text'
    <3>1. [by |-> a, verdict |-> v, text |-> text] \in decision'
      BY <2>3
    <3>2. /\ [by |-> a, verdict |-> v, text |-> text].verdict = "approved"
          /\ [by |-> a, verdict |-> v, text |-> text].text = text'
      BY <2>2, <2>3
    <3> QED
      BY <3>1, <3>2
  <2>6. \E d \in decision', c \in panel' : c.by = d.by
    <3>1. [by |-> a, verdict |-> v, text |-> text] \in decision'
      BY <2>3
    <3>2. [by |-> a, verdict |-> v, text |-> text].by = a
      OBVIOUS
    <3> QED
      BY <2>4, <3>1, <3>2
  <2> QED
    BY <2>3, <2>5, <2>6 DEF SignatureNeedsThePanel
<1>7. ASSUME NEW r \in Requests, RequestSteps(r) PROVE SignatureNeedsThePanel'
  BY <1>2, <1>7 DEF RequestSteps, ReadPrevious, SaveRouting, Refuse, Delivered, Rollback,
                    contractVars, approvalVars
<1>8. ASSUME NEW c \in Clicks, CardSteps(c) PROVE SignatureNeedsThePanel'
  <2>1. CASE \E v \in Verdicts : Claim(c, v)
    BY <1>1, <1>3, <2>1 DEF Claim, contractVars
  <2> QED
    BY <1>2, <1>8, <2>1 DEF CardSteps, Press, PressedAlone, Taken, ReadWinner, Audit, GiveUp,
                            contractVars, approvalVars
<1>9. CASE UNCHANGED vars
  BY <1>2, <1>9 DEF vars, contractVars, approvalVars
<1> QED
  BY <1>4, <1>5, <1>6, <1>7, <1>8, <1>9 DEF Next

(* Every table, request and click of the card approval keeps its type; at most
   one routing and one decision are on record. *)
THEOREM TypeCorrect == Spec => []TypeOK
<1>1. IInv => TypeOK
  BY DEF IInv
<1> QED
  BY <1>1, Inductive, PTL

(* Whoever decides was routed the very text the decision names, for any number of
   requests that overwrite and restore each other's routing. *)
THEOREM RoutedDecision == Spec => []DecisionWasRouted
<1>1. IInv => DecisionWasRouted
  BY DEF IInv
<1> QED
  BY <1>1, Inductive, PTL

(* For any panel, and whatever requests and clicks are in flight: at signature the
   newest text is approved by a member of the panel and no card is left. *)
THEOREM SignatureIsThePanels == Spec => []SignatureNeedsThePanel
<1>1. Init => SignatureNeedsThePanel
  BY DEF Init, SignatureNeedsThePanel
<1>2. IInv /\ SignatureNeedsThePanel /\ [Next]_vars => SignatureNeedsThePanel'
  BY SignatureStep
<1> QED
  BY <1>1, <1>2, Inductive, PTL DEF Spec
=============================================================================
