---------------------- MODULE AgreementLifecycleProofs ----------------------
(***************************************************************************)
(* The safety properties of AgreementLifecycle for any number of lawyers,  *)
(* approvers and signing requests.  They follow from one inductive         *)
(* invariant, IInv: the routed version is frozen, its cards are exactly    *)
(* its approvers', a decision is what the cards say, the archived rounds   *)
(* are older versions or the one that awaits new bytes, and the revision   *)
(* token is current only for an unchanged view.                            *)
(***************************************************************************)
EXTENDS AgreementLifecycle, TLAPS

(* At most one route, about the newest document and the agreed form. *)
RouteInv ==
  /\ \A r, q \in routing : r = q
  /\ \A r \in routing :
       /\ r.doc = latest /\ r.version = version /\ latest # 0 /\ ~needsNew
       /\ r.routedBy \notin r.approvers
       /\ agreed \in {0, latest}

(* One card for every routed approver, and none without a route. *)
CardInv ==
  /\ routing = {} => steps = {} /\ decision = {}
  /\ \A s, t \in steps : s.approver = t.approver => s = t
  /\ \A r \in routing : {s.approver : s \in steps} = r.approvers

VerdictInv ==
  \A d \in decision : \E r \in routing :
    /\ d.doc = r.doc /\ d.version = r.version /\ d.by \in r.approvers
    /\ d.verdict = "approved" <=> \A s \in steps : s.decision = "approved"

(* A round of the current version is archived only while new bytes are due. *)
RoundInv ==
  /\ \A o \in rounds : o.version <= version /\ latest # 0 /\ (o.version = version => needsNew)
  /\ stage = "agreed" => latest # 0 /\ ~needsNew

TokenInv == seen.rev <= rev /\ TokenIdentifiesState

IInv == TypeOK /\ RouteInv /\ CardInv /\ VerdictInv /\ RoundInv /\ TokenInv /\ ExecutedWasApproved

-----------------------------------------------------------------------------
(* Types *)

LEMMA InitType == Init => TypeOK
<1> SUFFICES ASSUME Init PROVE TypeOK
  OBVIOUS
<1>1. needsNew \in BOOLEAN /\ expired \in BOOLEAN
  BY DEF Init
<1>2. seen.rev = 0
  BY DEF Init
<1> QED
  BY <1>1, <1>2, LifecycleAssumption
  DEF Init, TypeOK, Stages, IdlePrep

LEMMA EditType ==
  ASSUME TypeOK, SaveDraft \/ Upload \/ (\E to \in {"drafting", "review"} : Transition(to))
  PROVE  TypeOK'
<1>1. CASE SaveDraft \/ Upload
  <2>1. needsNew' \in BOOLEAN
    BY <1>1 DEF SaveDraft, Upload, RecordVersion
  <2> QED
    BY <1>1, <2>1 DEF TypeOK, SaveDraft, Upload, RecordVersion, Stages,
                      approvalVars, signingVars, flightVars
<1>2. ASSUME NEW to \in {"drafting", "review"}, Transition(to) PROVE TypeOK'
  BY <1>2 DEF TypeOK, Transition, Stages, approvalVars, signingVars, flightVars
<1> QED
  BY <1>1, <1>2

LEMMA ReviseType ==
  ASSUME TypeOK, Revise
  PROVE  TypeOK'
<1>1. rounds' \in SUBSET Round
  <2>1. CASE decision = {}
    BY <2>1 DEF TypeOK, Revise, Round
  <2>2. CASE decision # {}
    <3>1. {[doc |-> d.doc, version |-> version, verdict |-> d.verdict] : d \in decision} \subseteq Round
      BY DEF TypeOK, Round, Decision
    <3> QED
      BY <2>2, <3>1 DEF TypeOK, Revise
  <2> QED
    BY <2>1, <2>2
<1>2. needsNew' \in BOOLEAN /\ expired' \in BOOLEAN
  BY DEF Revise
<1> QED
  BY <1>1, <1>2 DEF TypeOK, Revise, Stages, signingVars, flightVars

LEMMA RouteType ==
  ASSUME TypeOK, NEW p \in Lawyers, RouteSteps(p)
  PROVE  TypeOK'
<1>1. CASE RouteRead(p) \/ RouteGround(p) \/ RouteAbort(p)
  BY <1>1 DEF TypeOK, RouteRead, RouteGround, RouteAbort, IdlePrep, contractVars,
              approvalVars, signingVars
<1>2. ASSUME NEW additional \in SUBSET Approvers, RouteCommit(p, additional)
      PROVE  TypeOK'
  <2> DEFINE chosen == additional \cup Mandatory
  <2>1. chosen \in SUBSET Approvers
    BY LifecycleAssumption
  <2>2. routing' \in SUBSET Routing
    BY <1>2, <2>1 DEF TypeOK, RouteCommit, Routing
  <2>3. steps' \in SUBSET Step
    BY <1>2, <2>1 DEF TypeOK, RouteCommit, Step
  <2>4. expired' \in BOOLEAN
    BY <1>2 DEF RouteCommit
  <2> QED
    BY <1>2, <2>2, <2>3, <2>4 DEF TypeOK, RouteCommit, IdlePrep, Stages, signingVars
<1> QED
  BY <1>1, <1>2 DEF RouteSteps

LEMMA DecideType ==
  ASSUME TypeOK, NEW a \in Approvers, NEW v \in Verdicts, Decide(a, v)
  PROVE  TypeOK'
<1>1. PICK r \in routing, s \in steps :
        /\ steps' = (steps \ {s}) \cup {[s EXCEPT !.decision = v]}
        /\ \/ /\ decision' = {[by |-> a, verdict |-> v, doc |-> r.doc, version |-> r.version]}
              /\ stage' \in {"signature", "review"}
              /\ rev' = rev + 1
           \/ UNCHANGED <<decision, stage, rev>>
        /\ UNCHANGED <<version, latest, needsNew, agreed, routing, expired, rounds,
                       signingVars, authority, seen, flightVars>>
  BY DEF Decide, StageAfter
<1>2. steps' \in SUBSET Step
  BY <1>1 DEF TypeOK, Step
<1>3. decision' \in SUBSET Decision
  BY <1>1 DEF TypeOK, Routing, Decision
<1> QED
  BY <1>1, <1>2, <1>3 DEF TypeOK, Stages, signingVars, flightVars

LEMMA SigningType ==
  ASSUME TypeOK,
         \/ \E h \in Handlers : SignSteps(h)
         \/ \E outcome \in {"completed", "closed"} : EnvelopeResolves(outcome)
         \/ FileExecuted
  PROVE  TypeOK'
<1>1. ASSUME NEW h \in Handlers, SignSteps(h) PROVE TypeOK'
  <2>1. CASE SignCheck(h)
    BY <2>1 DEF TypeOK, SignCheck, Decision, contractVars, approvalVars, signingVars
  <2>2. CASE SignPersist(h)
    BY <2>2 DEF TypeOK, SignPersist, Envelope, contractVars, approvalVars
  <2>3. CASE SignDispatch(h)
    BY <2>3 DEF TypeOK, SignDispatch, Envelope, IdlePrep, contractVars, approvalVars
  <2>4. CASE SignAbort(h)
    BY <2>4 DEF TypeOK, SignAbort, IdlePrep, contractVars, approvalVars, signingVars
  <2> QED
    BY <1>1, <2>1, <2>2, <2>3, <2>4 DEF SignSteps
<1>2. ASSUME NEW outcome \in {"completed", "closed"}, EnvelopeResolves(outcome)
      PROVE  TypeOK'
  BY <1>2 DEF TypeOK, EnvelopeResolves, Envelope, contractVars, approvalVars, flightVars
<1>3. CASE FileExecuted
  BY <1>3 DEF TypeOK, FileExecuted, Envelope, Pin, Stages, approvalVars, flightVars
<1> QED
  BY <1>1, <1>2, <1>3

LEMMA NextType == TypeOK /\ [Next]_vars => TypeOK'
<1> SUFFICES ASSUME TypeOK, [Next]_vars PROVE TypeOK'
  OBVIOUS
<1>1. CASE Open
  BY <1>1 DEF TypeOK, Open, contractVars, approvalVars, signingVars, flightVars
<1>2. CASE Expire
  BY <1>2 DEF TypeOK, Expire, contractVars, signingVars, flightVars
<1>3. ASSUME NEW a \in Approvers, SetRole(a) PROVE TypeOK'
  BY <1>3 DEF TypeOK, SetRole, contractVars, approvalVars, signingVars, flightVars
<1>4. CASE UNCHANGED vars
  BY <1>4 DEF TypeOK, vars, contractVars, approvalVars, signingVars, flightVars
<1> QED
  BY <1>1, <1>2, <1>3, <1>4, EditType, ReviseType, RouteType, DecideType, SigningType
  DEF Next

(* The state of an agreement always has the shape the code gives it. *)
THEOREM TypeCorrect == Spec => []TypeOK
BY InitType, NextType, PTL DEF Spec

-----------------------------------------------------------------------------
(* The inductive invariant, one lemma per group of actions *)

LEMMA InitInv == Init => IInv
<1> SUFFICES ASSUME Init PROVE IInv
  OBVIOUS
<1>1. seen.rev = 0 /\ seen.view = View
  BY DEF Init
<1>2. ~needsNew
  BY DEF Init
<1> QED
  BY <1>1, <1>2, InitType
  DEF Init, IInv, RouteInv, CardInv, VerdictInv, RoundInv, TokenInv,
      TokenIdentifiesState, ExecutedWasApproved

(* Steps that touch neither the approval rows nor the contract. *)
LEMMA FrameInv ==
  ASSUME IInv, TypeOK', UNCHANGED <<contractVars, approvalVars, executed>>,
         seen' = seen \/ (seen'.rev = rev /\ seen'.view = View),
         \A e \in envelopes : e.status = "completed" => e \in envelopes'
  PROVE  IInv'
<1>1. View' = View
  BY DEF View, contractVars, approvalVars
<1>2. TokenInv'
  BY <1>1 DEF IInv, TypeOK, TokenInv, TokenIdentifiesState, contractVars
<1>3. ExecutedWasApproved'
  BY DEF IInv, ExecutedWasApproved, contractVars, approvalVars
<1> QED
  BY <1>2, <1>3 DEF IInv, RouteInv, CardInv, VerdictInv, RoundInv, contractVars, approvalVars

(* Steps that write the contract carry the revision forward. *)
LEMMA TokenStep ==
  ASSUME IInv, TypeOK', rev' = rev + 1, UNCHANGED seen
  PROVE  TokenInv'
BY DEF IInv, TypeOK, TokenInv, TokenIdentifiesState

LEMMA EditInv ==
  ASSUME IInv, TypeOK',
         SaveDraft \/ Upload \/ (\E to \in {"drafting", "review"} : Transition(to))
  PROVE  IInv'
<1>1. /\ executed = {} /\ routing = {} /\ decision = {} /\ stage # "agreed"
      /\ rev' = rev + 1 /\ stage' # "agreed"
      /\ UNCHANGED <<agreed, approvalVars, executed, seen>>
  BY DEF SaveDraft, Upload, Transition, Editable, Unrouted, RecordVersion, approvalVars, signingVars
<1>2. TokenInv'
  BY <1>1, TokenStep
<1>3. RoundInv'
  <2>1. CASE SaveDraft \/ Upload
    BY <1>1, <2>1 DEF IInv, TypeOK, RoundInv, Round, SaveDraft, Upload, RecordVersion, approvalVars
  <2>2. ASSUME NEW to \in {"drafting", "review"}, Transition(to) PROVE RoundInv'
    BY <1>1, <2>2 DEF IInv, RoundInv, Transition, approvalVars
  <2> QED
    BY <2>1, <2>2
<1> QED
  BY <1>1, <1>2, <1>3
  DEF IInv, RouteInv, CardInv, VerdictInv, ExecutedWasApproved, approvalVars

LEMMA ReviseInv ==
  ASSUME IInv, TypeOK', Revise
  PROVE  IInv'
<1>1. /\ executed' = {} /\ routing' = {} /\ decision' = {} /\ steps' = {}
      /\ stage' = "drafting" /\ needsNew' /\ rev' = rev + 1
      /\ UNCHANGED <<version, latest, seen>>
  BY DEF Revise, Unsigned, signingVars
<1>2. TokenInv'
  BY <1>1, TokenStep
<1>3. latest # 0
  BY DEF IInv, Revise, RouteInv, RoundInv
<1>4. \A o \in rounds' : o \in rounds \/ o.version = version
  BY DEF Revise
<1>5. RoundInv'
  BY <1>1, <1>3, <1>4 DEF IInv, TypeOK, RoundInv, Round
<1> QED
  BY <1>1, <1>2, <1>5
  DEF IInv, RouteInv, CardInv, VerdictInv, ExecutedWasApproved

LEMMA RouteCommitInv ==
  ASSUME IInv, TypeOK', NEW p \in Lawyers, NEW additional \in SUBSET Approvers,
         RouteCommit(p, additional)
  PROVE  IInv'
<1> DEFINE chosen == additional \cup Mandatory
           route  == [approvers |-> chosen, routedBy |-> p, doc |-> latest, version |-> version]
<1>1. /\ routing = {} /\ decision = {} /\ decision' = {} /\ steps = {}
      /\ routing' = {route} /\ p \notin chosen
      /\ steps' = {[approver |-> a, decision |-> "pending"] : a \in chosen}
      /\ rev' = rev + 1 /\ stage' = "approval"
      /\ UNCHANGED <<version, latest, needsNew, agreed, rounds, executed, envelopes, seen>>
  BY DEF IInv, CardInv, RouteCommit, signingVars
<1>2. latest # 0 /\ ~needsNew /\ agreed \in {0, latest}
  BY DEF IInv, TypeOK, RoundInv, RouteCommit
<1>3. RouteInv'
  BY <1>1, <1>2 DEF RouteInv
<1>4. CardInv'
  <2> HIDE DEF chosen
  <2>1. \A a \in chosen : [approver |-> a, decision |-> "pending"] \in steps'
    BY <1>1
  <2>2. \A s \in steps' : s.approver \in chosen /\ s = [approver |-> s.approver, decision |-> "pending"]
    BY <1>1
  <2>3. {s.approver : s \in steps'} = chosen
    BY <2>1, <2>2
  <2>4. \A r \in routing' : r.approvers = chosen
    BY <1>1
  <2>5. \A s, t \in steps' : s.approver = t.approver => s = t
    BY <2>2
  <2>6. routing' # {}
    BY <1>1
  <2> HIDE DEF route
  <2> QED
    BY <2>3, <2>4, <2>5, <2>6 DEF CardInv
<1>5. TokenInv'
  BY <1>1, TokenStep
<1> QED
  BY <1>1, <1>3, <1>4, <1>5 DEF IInv, VerdictInv, RoundInv, ExecutedWasApproved

LEMMA RouteStepsInv ==
  ASSUME IInv, TypeOK', NEW p \in Lawyers, RouteSteps(p)
  PROVE  IInv'
<1>1. CASE RouteRead(p) \/ RouteGround(p) \/ RouteAbort(p)
  <2>1. UNCHANGED <<contractVars, approvalVars, envelopes, executed, seen>>
    BY <1>1 DEF RouteRead, RouteGround, RouteAbort, signingVars
  <2> QED
    BY <2>1, FrameInv
<1> QED
  BY <1>1, RouteCommitInv DEF RouteSteps

LEMMA DecideInv ==
  ASSUME IInv, TypeOK', NEW a \in Approvers, NEW v \in Verdicts, Decide(a, v)
  PROVE  IInv'
<1>1. PICK r \in routing, s \in steps :
        /\ a \in r.approvers /\ s.approver = a /\ decision = {}
        /\ steps' = (steps \ {s}) \cup {[s EXCEPT !.decision = v]}
        /\ \/ /\ v # "approved" \/ \A t \in steps' : t.decision = "approved"
              /\ decision' = {[by |-> a, verdict |-> v, doc |-> r.doc, version |-> r.version]}
              /\ stage' \in {"signature", "review"} /\ rev' = rev + 1
           \/ UNCHANGED <<decision, stage, rev>>
        /\ UNCHANGED <<version, latest, needsNew, agreed, routing, expired, rounds,
                       envelopes, executed, seen>>
  BY DEF Decide, Concludes, StageAfter, signingVars
<1>2. executed = {}
  BY <1>1 DEF IInv, ExecutedWasApproved
<1> DEFINE mark == [s EXCEPT !.decision = v]
<1>3. /\ mark \in Step /\ mark.approver = s.approver /\ mark.decision = v /\ mark \in steps'
      /\ \A t \in steps' : t = mark \/ (t \in steps /\ t # s)
      /\ \A t \in steps : t = s \/ t \in steps'
  BY <1>1 DEF IInv, TypeOK, Step
<1> HIDE DEF mark
<1>4. CardInv'
  <2>1. {t.approver : t \in steps'} = {t.approver : t \in steps}
    BY <1>3
  <2>2. \A t, u \in steps' : t.approver = u.approver => t = u
    BY <1>3 DEF IInv, CardInv
  <2>3. routing' = routing /\ routing # {}
    BY <1>1
  <2> QED
    BY <2>1, <2>2, <2>3 DEF IInv, CardInv
<1>5. VerdictInv'
  <2>1. CASE UNCHANGED decision
    BY <1>1, <2>1 DEF VerdictInv
  <2>2. CASE /\ v # "approved" \/ \A t \in steps' : t.decision = "approved"
             /\ decision' = {[by |-> a, verdict |-> v, doc |-> r.doc, version |-> r.version]}
    <3>1. v = "approved" <=> \A t \in steps' : t.decision = "approved"
      BY <1>3, <2>2
    <3>2. routing' = routing
      BY <1>1
    <3> QED
      BY <1>1, <2>2, <3>1, <3>2 DEF VerdictInv
  <2> QED
    BY <1>1, <2>1, <2>2
<1>6. TokenInv'
  <2>1. CASE rev' = rev + 1
    BY <1>1, <2>1, TokenStep
  <2>2. CASE UNCHANGED <<decision, stage, rev>>
    <3>1. View' = View
      BY <1>1, <2>2 DEF View
    <3> QED
      BY <1>1, <2>2, <3>1 DEF IInv, TokenInv, TokenIdentifiesState
  <2> QED
    BY <1>1, <2>1, <2>2
<1>7. RoundInv'
  BY <1>1 DEF IInv, RoundInv
<1> QED
  BY <1>1, <1>2, <1>4, <1>5, <1>6, <1>7 DEF IInv, RouteInv, ExecutedWasApproved

LEMMA FileExecutedInv ==
  ASSUME IInv, TypeOK', FileExecuted
  PROVE  IInv'
<1>1. PICK e \in envelopes, d \in decision :
        /\ e.status = "completed" /\ d.verdict = "approved"
        /\ d.doc = e.doc /\ d.version = e.version /\ version = e.version
        /\ executed' = {[doc |-> e.doc, version |-> e.version]}
  BY DEF FileExecuted, Backed
<1>2. /\ stage' = "active" /\ rev' = rev + 1
      /\ UNCHANGED <<version, latest, needsNew, agreed, approvalVars, envelopes, seen>>
  BY DEF FileExecuted
<1>3. PICK r \in routing : d.doc = r.doc
  BY <1>1 DEF IInv, VerdictInv
<1>4. d.doc = latest /\ agreed \in {0, latest}
  BY <1>3 DEF IInv, RouteInv
<1>5. ExecutedWasApproved'
  <2> DEFINE x == [doc |-> e.doc, version |-> e.version]
  <2>1. x.doc = latest' /\ x.version = version' /\ agreed' \in {0, x.doc}
    BY <1>1, <1>2, <1>4
  <2>2. d \in decision' /\ e \in envelopes'
    BY <1>2 DEF approvalVars
  <2>3. d.doc = x.doc /\ d.version = x.version /\ e.doc = x.doc /\ e.version = x.version
    BY <1>1
  <2>4. executed' = {x}
    BY <1>1
  <2> HIDE DEF x
  <2> QED
    BY <1>1, <2>1, <2>2, <2>3, <2>4 DEF ExecutedWasApproved
<1>6. TokenInv'
  BY <1>2, TokenStep
<1> QED
  BY <1>2, <1>5, <1>6 DEF IInv, RouteInv, CardInv, VerdictInv, RoundInv, approvalVars

LEMMA SignStepsInv ==
  ASSUME IInv, TypeOK', NEW h \in Handlers, SignSteps(h)
  PROVE  IInv'
<1>1. UNCHANGED <<contractVars, approvalVars, executed, seen>>
  BY DEF SignSteps, SignCheck, SignPersist, SignDispatch, SignAbort, signingVars
<1>2. \A e \in envelopes : e.status = "completed" => e \in envelopes'
  BY DEF SignSteps, SignCheck, SignPersist, SignDispatch, SignAbort, signingVars
<1> QED
  BY <1>1, <1>2, FrameInv

LEMMA NextInv == IInv /\ [Next]_vars => IInv'
<1> SUFFICES ASSUME IInv, [Next]_vars PROVE IInv'
  OBVIOUS
<1>1. TypeOK'
  BY NextType DEF IInv
<1>2. CASE Open
  BY <1>1, <1>2, FrameInv DEF Open, signingVars
<1>3. CASE Expire
  BY <1>1, <1>3 DEF Expire, IInv, RouteInv, CardInv, VerdictInv, RoundInv, TokenInv,
                    TokenIdentifiesState, View, ExecutedWasApproved, contractVars, signingVars
<1>4. ASSUME NEW a \in Approvers, SetRole(a) PROVE IInv'
  BY <1>1, <1>4, FrameInv DEF SetRole, signingVars
<1>5. ASSUME NEW outcome \in {"completed", "closed"}, EnvelopeResolves(outcome) PROVE IInv'
  BY <1>1, <1>5, FrameInv DEF EnvelopeResolves
<1>6. CASE UNCHANGED vars
  BY <1>1, <1>6, FrameInv DEF vars, signingVars
<1> QED
  BY <1>1, <1>2, <1>3, <1>4, <1>5, <1>6, EditInv, ReviseInv, RouteStepsInv, DecideInv,
     FileExecutedInv, SignStepsInv DEF Next

LEMMA Inductive == Spec => []IInv
BY InitInv, NextInv, PTL DEF Spec

-----------------------------------------------------------------------------
(* The properties *)

(* No edit reaches a version that is out for approval or decided. *)
THEOREM FrozenWhileRouted == Spec => []RoutedDocumentFrozen
<1>1. IInv => RoutedDocumentFrozen
  BY DEF IInv, RouteInv, RoutedDocumentFrozen
<1> QED
  BY <1>1, Inductive, PTL

(* A decision is the verdict of every routed approver on the routed document. *)
THEOREM Unanimous == Spec => []DecisionIsUnanimous
<1>1. IInv => DecisionIsUnanimous
  <2> SUFFICES ASSUME IInv, NEW d \in decision
               PROVE  \E r \in routing :
                        /\ d.doc = r.doc /\ d.version = r.version
                        /\ d.by \in r.approvers /\ r.routedBy \notin r.approvers
                        /\ {s.approver : s \in steps} = r.approvers
                        /\ \A s, t \in steps : s.approver = t.approver => s = t
                        /\ d.verdict = "approved" <=> \A s \in steps : s.decision = "approved"
    BY DEF DecisionIsUnanimous
  <2>1. PICK r \in routing :
          /\ d.doc = r.doc /\ d.version = r.version /\ d.by \in r.approvers
          /\ d.verdict = "approved" <=> \A s \in steps : s.decision = "approved"
    BY DEF IInv, VerdictInv
  <2>2. r.routedBy \notin r.approvers
    BY DEF IInv, RouteInv
  <2>3. {s.approver : s \in steps} = r.approvers
    BY DEF IInv, CardInv
  <2>4. \A s, t \in steps : s.approver = t.approver => s = t
    BY DEF IInv, CardInv
  <2> QED
    BY <2>1, <2>2, <2>3, <2>4
<1> QED
  BY <1>1, Inductive, PTL

(* What is filed as executed is the approved, agreed, newest document. *)
THEOREM ExecutedApproved == Spec => []ExecutedWasApproved
<1>1. IInv => ExecutedWasApproved
  BY DEF IInv
<1> QED
  BY <1>1, Inductive, PTL

(* Who holds the current revision has seen the stage, the newest document, the
   version, the agreed form and the executed record of now; the routing and the
   decision are no part of it. *)
THEOREM TokenSound == Spec => []TokenIdentifiesState
<1>1. IInv => TokenIdentifiesState
  BY DEF IInv, TokenInv
<1> QED
  BY <1>1, Inductive, PTL

(* Archiving a round never collides with an earlier round of the same version. *)
THEOREM SlotFree == Spec => []RoundSlotFree
<1>1. IInv => RoundSlotFree
  BY DEF IInv, RoundInv, CardInv, RouteInv, RoundSlotFree
<1> QED
  BY <1>1, Inductive, PTL

(* The executed record and the evidence under it never change again. *)
THEOREM Final == Spec => ExecutionIsFinal
<1> DEFINE Kept == executed # {} =>
             UNCHANGED <<executed, latest, version, agreed, routing, steps, decision>>
<1>1. IInv /\ [Next]_vars => [Kept]_vars
  <2> SUFFICES ASSUME IInv, Next, executed # {}
               PROVE  UNCHANGED <<executed, latest, version, agreed, routing, steps, decision>>
    OBVIOUS
  <2>1. decision # {} /\ routing # {}
    BY DEF IInv, ExecutedWasApproved, CardInv
  <2>2. ~SaveDraft /\ ~Upload /\ ~Revise /\ ~FileExecuted
    BY DEF SaveDraft, Upload, Editable, Revise, Unsigned, FileExecuted
  <2>3. \A to \in {"drafting", "review"} : ~Transition(to)
    BY DEF Transition, Editable
  <2>4. \A a \in Approvers, v \in Verdicts : ~Decide(a, v)
    BY <2>1 DEF Decide
  <2>5. \A p \in Lawyers, additional \in SUBSET Approvers : ~RouteCommit(p, additional)
    BY <2>1 DEF RouteCommit
  <2>6. CASE Open \/ Expire \/ \E a \in Approvers : SetRole(a)
    BY <2>6 DEF Open, Expire, SetRole, contractVars, approvalVars, signingVars
  <2>7. ASSUME NEW p \in Lawyers, RouteRead(p) \/ RouteGround(p) \/ RouteAbort(p)
        PROVE  UNCHANGED <<executed, latest, version, agreed, routing, steps, decision>>
    BY <2>7 DEF RouteRead, RouteGround, RouteAbort, contractVars, approvalVars, signingVars
  <2>8. ASSUME NEW h \in Handlers, SignSteps(h)
        PROVE  UNCHANGED <<executed, latest, version, agreed, routing, steps, decision>>
    BY <2>8 DEF SignSteps, SignCheck, SignPersist, SignDispatch, SignAbort, contractVars,
                approvalVars, signingVars
  <2>9. ASSUME NEW outcome \in {"completed", "closed"}, EnvelopeResolves(outcome)
        PROVE  UNCHANGED <<executed, latest, version, agreed, routing, steps, decision>>
    BY <2>9 DEF EnvelopeResolves, contractVars, approvalVars
  <2> QED
    BY <2>2, <2>3, <2>4, <2>5, <2>6, <2>7, <2>8, <2>9 DEF Next, RouteSteps
<1>2. Spec => [][Kept]_vars
  BY <1>1, Inductive, PTL DEF Spec
<1> QED
  BY <1>2 DEF ExecutionIsFinal

-----------------------------------------------------------------------------
(* Refinement: the agreement keeps the approval's ledger *)

(* Until it is decided, a round has no refusal. *)
OpenInv == decision = {} => \A s \in steps : s.decision \in {"pending", "approved"}

(* An agreed form has not been routed. *)
AgreedInv == stage = "agreed" => routing = {}

(* A request for signature still acts on a form that was approved. *)
SignInv ==
  \A h \in Handlers : sign[h].pc # "idle" =>
    [form |-> Pinned(sign[h]), verdict |-> "approved"] \in Reached

LedgerInv == IInv /\ OpenInv /\ AgreedInv /\ SignInv

(* What the ledger says of one form. *)
LEMMA ReachedOf ==
  ASSUME NEW f, NEW v
  PROVE  [form |-> f, verdict |-> v] \in Reached <=>
           \/ \E d \in decision : Pinned(d) = f /\ d.verdict = v
           \/ v # "agreed" /\ \E o \in rounds : Pinned(o) = f /\ o.verdict = v
BY DEF Reached

LEMMA ReachedForms ==
  ASSUME NEW x \in Reached
  PROVE  x = [form |-> x.form, verdict |-> x.verdict]
BY DEF Reached

(* A form that awaits its verdict has none, however old the rounds. *)
LEMMA CurrentUnjudged ==
  ASSUME IInv, decision = {}, ~needsNew
  PROVE  \A x \in Reached : x.form # Current
<1> SUFFICES ASSUME NEW o \in rounds, Pinned(o) = Current PROVE FALSE
  BY DEF Reached
<1> QED
  BY DEF IInv, RoundInv, Pinned, Current

LEMMA CurrentJudged ==
  ASSUME IInv, NEW d \in decision
  PROVE  Pinned(d) = Current /\ routing # {}
BY DEF IInv, VerdictInv, RouteInv, Pinned, Current

(* One panel at most sits, on the current form. *)
LEMMA SittingIs ==
  ASSUME IInv, NEW r \in routing
  PROVE  Sitting = {[form |-> Current, waiting |-> Waiting]}
<1>1. routing = {r} /\ Pinned(r) = Current
  BY DEF IInv, RouteInv, Pinned, Current
<1> QED
  BY <1>1 DEF Sitting

-----------------------------------------------------------------------------
(* What each step does to the ledger *)

LEMMA ReviseArchives ==
  ASSUME IInv, Revise
  PROVE  Reached' = Reached
<1>1. decision' = {}
  BY DEF Revise
<1>2. CASE decision = {}
  <2>1. rounds' = rounds \cup {[doc |-> latest, version |-> version, verdict |-> "agreed"]}
    BY <1>2 DEF Revise
  <2> QED
    BY <1>1, <1>2, <2>1 DEF Reached
<1>3. CASE decision # {}
  <2>1. rounds' = rounds \cup {[doc |-> d.doc, version |-> version, verdict |-> d.verdict] : d \in decision}
    BY <1>3 DEF Revise
  <2>2. \A d \in decision : d.version = version /\ d.verdict # "agreed"
    BY CurrentJudged DEF IInv, TypeOK, Decision, Verdicts, Pinned, Current
  <2>3. \A f, v : [form |-> f, verdict |-> v] \in Reached' <=> [form |-> f, verdict |-> v] \in Reached
    <3> SUFFICES ASSUME NEW f, NEW v
                 PROVE  [form |-> f, verdict |-> v] \in Reached' <=> [form |-> f, verdict |-> v] \in Reached
      OBVIOUS
    <3>1. [form |-> f, verdict |-> v] \in Reached' <=>
            v # "agreed" /\ \E o \in rounds' : Pinned(o) = f /\ o.verdict = v
      BY <1>1 DEF Reached, Pinned
    <3>2. (\E o \in rounds' : Pinned(o) = f /\ o.verdict = v) <=>
            \/ \E o \in rounds : Pinned(o) = f /\ o.verdict = v
            \/ \E d \in decision : Pinned(d) = f /\ d.verdict = v
      <4> DEFINE Archived(d) == [doc |-> d.doc, version |-> version, verdict |-> d.verdict]
      <4>1. \A d \in decision : Pinned(Archived(d)) = Pinned(d) /\ Archived(d).verdict = d.verdict
        BY <2>2 DEF Pinned
      <4>2. \A o : o \in rounds' <=> o \in rounds \/ \E d \in decision : o = Archived(d)
        BY <2>1
      <4> HIDE DEF Archived
      <4> QED
        BY <4>1, <4>2
    <3> QED
      BY <2>2, <3>1, <3>2, ReachedOf
  <2>4. \A x \in Reached' : x = [form |-> x.form, verdict |-> x.verdict]
    BY DEF Reached
  <2> QED
    BY <2>3, <2>4, ReachedForms
<1> QED
  BY <1>2, <1>3

mapped == <<Current, Sitting, Reached, Requested, executed>>

LEMMA EditAmends ==
  ASSUME IInv, SaveDraft \/ Upload
  PROVE  Approval!Amend
<1>1. routing = {} /\ envelopes = {} /\ executed = {} /\ RecordVersion
      /\ UNCHANGED <<approvalVars, signingVars>>
  BY DEF SaveDraft, Upload, Editable, Unrouted
<1>2. Sitting = {} /\ Requested = {} /\ Sitting' = {} /\ Requested' = {}
      /\ Reached' = Reached /\ executed' = executed
  BY <1>1 DEF Sitting, Requested, Reached, approvalVars, signingVars
<1>3. Current' = [doc |-> latest + 1, version |-> IF latest = 0 THEN version ELSE version + 1]
  BY <1>1 DEF RecordVersion, Current
<1> QED
  BY <1>1, <1>2, <1>3 DEF Approval!Amend, Current

LEMMA RouteConvenes ==
  ASSUME IInv, NEW p \in Lawyers, NEW additional \in SUBSET Approvers,
         RouteCommit(p, additional)
  PROVE  \E members \in SUBSET Approvers : Approval!Convene(members)
<1> DEFINE chosen == additional \cup Mandatory
           route  == [approvers |-> chosen, routedBy |-> p, doc |-> latest, version |-> version]
<1>1. /\ routing = {} /\ decision = {} /\ steps = {} /\ ~needsNew /\ latest # 0 /\ chosen # {}
      /\ routing' = {route}
      /\ steps' = {[approver |-> a, decision |-> "pending"] : a \in chosen}
      /\ UNCHANGED <<version, latest, decision, rounds, envelopes, executed>>
  BY DEF IInv, CardInv, RouteCommit, signingVars
<1>2. chosen \in SUBSET Approvers
  BY LifecycleAssumption
<1> HIDE DEF chosen
<1>3. Waiting' = chosen
  <2>1. \A s : s \in {t \in steps' : t.decision = "pending"} <=> s \in steps'
    BY <1>1
  <2>2. Waiting' = {s.approver : s \in steps'}
    BY <2>1 DEF Waiting
  <2>3. \A a \in chosen : \E s \in steps' : s.approver = a
    <3> TAKE a \in chosen
    <3>1. [approver |-> a, decision |-> "pending"] \in steps'
      BY <1>1
    <3> WITNESS [approver |-> a, decision |-> "pending"] \in steps'
    <3> QED
      OBVIOUS
  <2>4. \A s \in steps' : s.approver \in chosen
    BY <1>1
  <2> QED
    BY <2>2, <2>3, <2>4
<1>4. /\ Sitting = {} /\ Current' = Current /\ Requested' = Requested
      /\ Reached' = Reached /\ executed' = executed
  BY <1>1 DEF Sitting, Current, Requested, Reached
<1>5. Sitting' = {[form |-> Current, waiting |-> chosen]}
  <2>1. Pinned(route) = Current
    BY DEF Pinned, Current
  <2>2. Sitting' = {[form |-> Pinned(r), waiting |-> Waiting'] : r \in {route}}
    BY <1>1 DEF Sitting
  <2> QED
    BY <1>3, <2>1, <2>2
<1>6. ~Approval!Judged(Current) /\ Current.doc # 0
  BY <1>1, CurrentUnjudged DEF Approval!Judged, Current
<1>7. Approval!Convene(chosen)
  BY <1>1, <1>4, <1>5, <1>6 DEF Approval!Convene
<1> QED
  BY <1>2, <1>7

LEMMA DecideAnswers ==
  ASSUME IInv, OpenInv, NEW a \in Approvers, NEW v \in Verdicts, Decide(a, v)
  PROVE  Approval!Answer(a, v)
<1>1. PICK r \in routing, s \in steps :
        /\ s.approver = a /\ s.decision = "pending" /\ decision = {}
        /\ steps' = (steps \ {s}) \cup {[s EXCEPT !.decision = v]}
        /\ IF Concludes(v, steps')
           THEN decision' = {[by |-> a, verdict |-> v, doc |-> r.doc, version |-> r.version]}
           ELSE UNCHANGED decision
        /\ UNCHANGED <<version, latest, needsNew, routing, rounds, envelopes, executed>>
  BY DEF Decide, signingVars
<1> DEFINE mark == [s EXCEPT !.decision = v]
<1>2. /\ mark.approver = a /\ mark.decision = v /\ v # "pending"
      /\ \A t : t \in steps' <=> t = mark \/ (t \in steps /\ t # s)
  BY <1>1 DEF IInv, TypeOK, Step, Verdicts
<1> HIDE DEF mark
<1>3. Waiting' = Waiting \ {a} /\ a \in Waiting
  <2>1. \A t \in steps : t # s => t.approver # a
    BY <1>1 DEF IInv, CardInv
  <2>2. \A b : b \in Waiting <=> \E t \in steps : t.decision = "pending" /\ t.approver = b
    BY DEF Waiting
  <2>3. \A b : b \in Waiting' <=> \E t \in steps' : t.decision = "pending" /\ t.approver = b
    BY DEF Waiting
  <2> QED
    BY <1>1, <1>2, <2>1, <2>2, <2>3
<1>4. Current' = Current /\ Requested' = Requested /\ executed' = executed
  BY <1>1 DEF Current, Requested
<1>5. /\ Sitting = {[form |-> Current, waiting |-> Waiting]}
      /\ Sitting' = {[form |-> Current, waiting |-> Waiting \ {a}]}
      /\ Pinned(r) = Current
  <2>1. Sitting = {[form |-> Current, waiting |-> Waiting]}
    BY SittingIs
  <2>2. routing = {r} /\ Pinned(r) = Current
    BY DEF IInv, RouteInv, Pinned, Current
  <2>3. Sitting' = {[form |-> Pinned(r), waiting |-> Waiting']}
    BY <1>1, <2>2 DEF Sitting
  <2> QED
    BY <1>3, <2>1, <2>2, <2>3
<1>6. ~Approval!Judged(Current)
  BY <1>1, CurrentUnjudged DEF IInv, RouteInv, Approval!Judged
<1>7. Concludes(v, steps') <=> v # "approved" \/ Waiting = {a}
  <2>1. CASE v = "approved"
    <3>1. Waiting = {a} <=> Waiting' = {}
      BY <1>3
    <3>2. Waiting' = {} <=> \A t \in steps' : t.decision # "pending"
      BY DEF Waiting
    <3>3. \A t \in steps' : t.decision \in {"pending", "approved"}
      BY <1>1, <1>2, <2>1 DEF OpenInv
    <3> QED
      BY <2>1, <3>1, <3>2, <3>3 DEF Concludes
  <2> QED
    BY <2>1 DEF Concludes
<1>8. Reached' = IF v # "approved" \/ Waiting = {a}
                 THEN Reached \cup {[form |-> Current, verdict |-> v]}
                 ELSE Reached
  <2>1. CASE ~Concludes(v, steps')
    BY <1>1, <1>7, <2>1 DEF Reached
  <2>2. CASE Concludes(v, steps')
    <3> DEFINE d == [by |-> a, verdict |-> v, doc |-> r.doc, version |-> r.version]
    <3>1. Pinned(d) = Current /\ d.verdict = v /\ decision' = {d} /\ decision = {} /\ rounds' = rounds
      BY <1>1, <1>5, <2>2 DEF Pinned
    <3> HIDE DEF d
    <3>2. {[form |-> Pinned(e), verdict |-> e.verdict] : e \in decision'} = {[form |-> Current, verdict |-> v]}
      BY <3>1
    <3>3. Reached' = {[form |-> Current, verdict |-> v]} \cup
             {[form |-> Pinned(o), verdict |-> o.verdict] : o \in {q \in rounds : q.verdict # "agreed"}}
      BY <3>1, <3>2 DEF Reached, Pinned
    <3>4. Reached = {[form |-> Pinned(o), verdict |-> o.verdict] : o \in {q \in rounds : q.verdict # "agreed"}}
      BY <3>1 DEF Reached
    <3> QED
      BY <1>7, <2>2, <3>3, <3>4
  <2> QED
    BY <2>1, <2>2
<1> DEFINE seat == [form |-> Current, waiting |-> Waiting]
<1>9. seat \in Sitting /\ seat.form = Current /\ seat.waiting = Waiting
  BY <1>5
<1> HIDE DEF seat
<1> QED
  BY <1>3, <1>4, <1>5, <1>6, <1>8, <1>9 DEF Approval!Answer

LEMMA ReviseWithdraws ==
  ASSUME IInv, AgreedInv, Revise
  PROVE  Approval!Withdraw \/ UNCHANGED mapped
<1>1. /\ envelopes = {} /\ executed = {} /\ routing' = {}
      /\ UNCHANGED <<version, latest, envelopes, executed>>
  BY DEF Revise, Unsigned, signingVars
<1>2. /\ Reached' = Reached /\ Current' = Current /\ Requested = {} /\ Requested' = {}
      /\ Sitting' = {} /\ executed' = executed
  BY <1>1, ReviseArchives DEF Current, Requested, Sitting
<1>3. CASE stage = "agreed"
  BY <1>2, <1>3 DEF AgreedInv, Sitting, Requested, mapped
<1>4. CASE stage # "agreed"
  <2>1. PICK r \in routing, d \in decision : TRUE
    BY <1>4 DEF Revise
  <2>2. Sitting # {}
    BY <2>1 DEF Sitting
  <2>3. Approval!Judged(Current)
    <3>1. Pinned(d) = Current
      BY CurrentJudged
    <3>2. [form |-> Current, verdict |-> d.verdict] \in Reached
      BY <3>1, ReachedOf
    <3> QED
      BY <3>2 DEF Approval!Judged
  <2> QED
    BY <1>1, <1>2, <2>2, <2>3 DEF Approval!Withdraw
<1> QED
  BY <1>3, <1>4

LEMMA PersistRequests ==
  ASSUME SignInv, NEW h \in Handlers, SignPersist(h)
  PROVE  \E x \in Reached : Approval!Request(x.form)
<1> DEFINE f == Pinned(sign[h])
           x == [form |-> f, verdict |-> "approved"]
<1>1. x \in Reached /\ x.form = f /\ sign[h].pc = "approved"
  BY DEF SignInv, SignPersist
<1>2. f \notin Requested /\ Requested' = Requested \cup {f}
  <2> DEFINE draft == [doc |-> sign[h].doc, version |-> sign[h].version, status |-> "draft"]
  <2>1. Pinned(draft) = f /\ envelopes' = envelopes \cup {draft}
    BY DEF SignPersist, Pinned
  <2>2. \A e \in envelopes : Pinned(e) # f
    BY DEF SignPersist, Pinned
  <2> HIDE DEF draft, f
  <2> QED
    BY <2>1, <2>2 DEF Requested, Pinned
<1>3. UNCHANGED <<Current, Sitting, Reached, executed>>
  BY DEF SignPersist, contractVars, approvalVars, Current, Sitting, Reached, Waiting, Pinned
<1> QED
  BY <1>1, <1>2, <1>3 DEF Approval!Request, Approval!Approved

LEMMA FilingFiles ==
  ASSUME IInv, FileExecuted
  PROVE  Approval!File
<1>1. PICK e \in envelopes, d \in decision :
        /\ d.verdict = "approved" /\ d.doc = e.doc /\ d.version = e.version
        /\ executed' = {Pinned(e)}
  BY DEF FileExecuted, Backed, Pinned
<1>2. Pinned(d) = Current /\ Pinned(e) = Current /\ \E r \in routing : TRUE
  BY <1>1, CurrentJudged DEF Pinned
<1>3. \E p \in Sitting : p.form = Current
  <2>1. Sitting = {[form |-> Current, waiting |-> Waiting]}
    BY <1>2, SittingIs
  <2>2. [form |-> Current, waiting |-> Waiting] \in Sitting
    BY <2>1
  <2> WITNESS [form |-> Current, waiting |-> Waiting] \in Sitting
  <2> QED
    OBVIOUS
<1>4. Approval!Approved(Current) /\ Current \in Requested
  BY <1>1, <1>2 DEF Approval!Approved, Reached, Requested
<1>5. UNCHANGED <<Current, Sitting, Reached, Requested>> /\ executed = {}
  BY DEF FileExecuted, approvalVars, Current, Sitting, Reached, Requested, Waiting, Pinned
<1> QED
  BY <1>1, <1>2, <1>3, <1>4, <1>5 DEF Approval!File

(* Every other step leaves what the ledger shows alone. *)
LEMMA OthersStutter ==
  ASSUME IInv,
         \/ Open \/ Expire
         \/ \E to \in {"drafting", "review"} : Transition(to)
         \/ \E p \in Lawyers : RouteRead(p) \/ RouteGround(p) \/ RouteAbort(p)
         \/ \E a \in Approvers : SetRole(a)
         \/ \E h \in Handlers : SignCheck(h) \/ SignAbort(h)
         \/ UNCHANGED vars
  PROVE  UNCHANGED mapped
<1>1. UNCHANGED <<latest, version, routing, steps, decision, rounds, envelopes, executed>>
  BY DEF Open, Expire, Transition, RouteRead, RouteGround, RouteAbort, SetRole, SignCheck,
         SignAbort, vars, contractVars, approvalVars, signingVars
<1> QED
  BY <1>1 DEF mapped, Current, Sitting, Reached, Requested, Waiting, Pinned

(* An envelope keeps its form while it moves on. *)
LEMMA EnvelopesKeepForm ==
  ASSUME NEW e \in envelopes, NEW to, envelopes' = (envelopes \ {e}) \cup {[e EXCEPT !.status = to]},
         TypeOK
  PROVE  Requested' = Requested
<1> DEFINE f == [e EXCEPT !.status = to]
<1>1. Pinned(f) = Pinned(e)
  BY DEF TypeOK, Envelope, Pinned
<1>2. \A x : x \in envelopes' <=> x = f \/ (x \in envelopes /\ x # e)
  OBVIOUS
<1> HIDE DEF f
<1>3. \A g : g \in Requested <=> \E x \in envelopes : Pinned(x) = g
  BY DEF Requested
<1>4. \A g : g \in Requested' <=> \E x \in envelopes' : Pinned(x) = g
  BY DEF Requested, Pinned
<1> QED
  BY <1>1, <1>2, <1>3, <1>4

LEMMA MovesStutter ==
  ASSUME IInv,
         \/ \E h \in Handlers : SignDispatch(h)
         \/ \E outcome \in {"completed", "closed"} : EnvelopeResolves(outcome)
  PROVE  UNCHANGED mapped
<1>1. UNCHANGED <<latest, version, routing, steps, decision, rounds, executed>>
  BY DEF SignDispatch, EnvelopeResolves, contractVars, approvalVars
<1>2. \E e \in envelopes, to \in {"sent", "completed", "closed"} :
        envelopes' = (envelopes \ {e}) \cup {[e EXCEPT !.status = to]}
  BY DEF SignDispatch, EnvelopeResolves
<1>3. Requested' = Requested
  BY <1>2, EnvelopesKeepForm DEF IInv
<1> QED
  BY <1>1, <1>3 DEF mapped, Current, Sitting, Reached, Waiting, Pinned

LEMMA StepKeepsLedger ==
  ASSUME LedgerInv, [Next]_vars
  PROVE  [Approval!Next]_mapped
<1> USE DEF LedgerInv
<1>1. CASE SaveDraft \/ Upload
  BY <1>1, EditAmends DEF Approval!Next
<1>2. CASE Revise
  BY <1>2, ReviseWithdraws DEF Approval!Next
<1>3. ASSUME NEW p \in Lawyers, NEW additional \in SUBSET Approvers, RouteCommit(p, additional)
      PROVE  Approval!Next
  BY <1>3, RouteConvenes DEF Approval!Next
<1>4. ASSUME NEW a \in Approvers, NEW v \in Verdicts, Decide(a, v) PROVE Approval!Next
  BY <1>4, DecideAnswers DEF Approval!Next
<1>5. ASSUME NEW h \in Handlers, SignPersist(h) PROVE Approval!Next
  BY <1>5, PersistRequests DEF Approval!Next
<1>6. CASE FileExecuted
  BY <1>6, FilingFiles DEF Approval!Next
<1> QED
  BY <1>1, <1>2, <1>3, <1>4, <1>5, <1>6, OthersStutter, MovesStutter DEF Next, RouteSteps, SignSteps

-----------------------------------------------------------------------------
(* What the mapping relies on is kept *)

LEMMA LedgerGrows ==
  ASSUME LedgerInv, [Next]_vars
  PROVE  Reached \subseteq Reached'
<1>1. [Approval!Next]_mapped
  BY StepKeepsLedger
<1>2. CASE UNCHANGED mapped
  BY <1>2 DEF mapped
<1>3. CASE Approval!Next
  BY <1>3 DEF Approval!Next, Approval!Amend, Approval!Convene, Approval!Answer,
              Approval!Withdraw, Approval!Request, Approval!File
<1> QED
  BY <1>1, <1>2, <1>3

LEMMA StepOpen ==
  ASSUME IInv, OpenInv, [Next]_vars
  PROVE  OpenInv'
<1>1. CASE UNCHANGED <<steps, decision>>
  BY <1>1 DEF OpenInv
<1>2. CASE Revise
  BY <1>2 DEF Revise, OpenInv
<1>3. ASSUME NEW p \in Lawyers, NEW additional \in SUBSET Approvers, RouteCommit(p, additional)
      PROVE  OpenInv'
  <2>1. steps' = {[approver |-> a, decision |-> "pending"] : a \in additional \cup Mandatory}
    BY <1>3 DEF RouteCommit, IInv, CardInv
  <2> QED
    BY <2>1 DEF OpenInv
<1>4. ASSUME NEW a \in Approvers, NEW v \in Verdicts, Decide(a, v) PROVE OpenInv'
  <2>1. PICK s \in steps :
          /\ decision = {} /\ steps' = (steps \ {s}) \cup {[s EXCEPT !.decision = v]}
          /\ decision' # {} \/ v = "approved"
    BY <1>4 DEF Decide, Concludes
  <2>2. [s EXCEPT !.decision = v].decision = v
    BY DEF IInv, TypeOK, Step
  <2> QED
    BY <2>1, <2>2 DEF OpenInv
<1> QED
  BY <1>1, <1>2, <1>3, <1>4
  DEF Next, RouteSteps, SignSteps, Open, SaveDraft, Upload, Transition, Expire, SetRole, RouteRead,
      RouteGround, RouteAbort, SignCheck, SignPersist, SignDispatch, SignAbort, EnvelopeResolves,
      FileExecuted, vars, approvalVars

LEMMA StepAgreed ==
  ASSUME AgreedInv, [Next]_vars
  PROVE  AgreedInv'
<1>1. CASE Open \/ SaveDraft \/ Upload \/ Revise \/ Expire \/ FileExecuted
           \/ \E to \in {"drafting", "review"} : Transition(to)
  BY <1>1 DEF Open, SaveDraft, Upload, Transition, Revise, Expire, FileExecuted, AgreedInv,
              contractVars, approvalVars
<1>2. ASSUME NEW a \in Approvers, SetRole(a) \/ \E v \in Verdicts : Decide(a, v)
      PROVE  AgreedInv'
  BY <1>2 DEF SetRole, Decide, StageAfter, AgreedInv, contractVars, approvalVars
<1>3. ASSUME NEW p \in Lawyers, RouteSteps(p) PROVE AgreedInv'
  BY <1>3 DEF RouteSteps, RouteRead, RouteGround, RouteAbort, RouteCommit, AgreedInv,
              contractVars, approvalVars
<1>4. ASSUME NEW h \in Handlers, SignSteps(h) PROVE AgreedInv'
  BY <1>4 DEF SignSteps, SignCheck, SignPersist, SignDispatch, SignAbort, AgreedInv,
              contractVars, approvalVars
<1>5. CASE \E outcome \in {"completed", "closed"} : EnvelopeResolves(outcome)
  BY <1>5 DEF EnvelopeResolves, AgreedInv, contractVars, approvalVars
<1>6. CASE UNCHANGED vars
  BY <1>6 DEF vars, AgreedInv, contractVars, approvalVars
<1> QED
  BY <1>1, <1>2, <1>3, <1>4, <1>5, <1>6 DEF Next

LEMMA StepSign ==
  ASSUME LedgerInv, [Next]_vars
  PROVE  SignInv'
<1>1. Reached \subseteq Reached'
  BY LedgerGrows
<1>2. CASE UNCHANGED sign
  BY <1>1, <1>2 DEF LedgerInv, SignInv, Pinned
<1>3. ASSUME NEW h \in Handlers, SignSteps(h) PROVE SignInv'
  <2>1. ASSUME NEW k \in Handlers, k # h, sign'[k].pc # "idle"
        PROVE  [form |-> Pinned(sign'[k]), verdict |-> "approved"] \in Reached
    <3>1. sign'[k] = sign[k]
      BY <1>3, <2>1 DEF SignSteps, SignCheck, SignPersist, SignDispatch, SignAbort, LedgerInv, IInv, TypeOK
    <3> QED
      BY <2>1, <3>1 DEF LedgerInv, SignInv
  <2>2. ASSUME sign'[h].pc # "idle"
        PROVE  [form |-> Pinned(sign'[h]), verdict |-> "approved"] \in Reached
    <3>1. CASE SignCheck(h)
      <4>1. PICK d \in decision :
              /\ d.verdict = "approved"
              /\ sign'[h] = [pc |-> "approved", doc |-> d.doc, version |-> d.version]
        BY <3>1 DEF SignCheck, ApprovedDocument, LedgerInv, IInv, TypeOK
      <4>2. Pinned(sign'[h]) = Pinned(d)
        BY <4>1 DEF Pinned
      <4> QED
        BY <4>1, <4>2, ReachedOf
    <3>2. CASE SignPersist(h)
      <4>1. sign[h].pc # "idle" /\ Pinned(sign'[h]) = Pinned(sign[h])
        BY <3>2 DEF SignPersist, LedgerInv, IInv, TypeOK, Pinned
      <4> QED
        BY <4>1 DEF LedgerInv, SignInv
    <3>3. CASE SignDispatch(h) \/ SignAbort(h)
      BY <2>2, <3>3 DEF SignDispatch, SignAbort, IdlePrep, LedgerInv, IInv, TypeOK
    <3> QED
      BY <1>3, <3>1, <3>2, <3>3 DEF SignSteps
  <2> QED
    BY <1>1, <2>1, <2>2 DEF SignInv, Pinned
<1> QED
  BY <1>2, <1>3
  DEF Next, RouteSteps, Open, SaveDraft, Upload, Transition, Revise, Expire, SetRole, RouteRead,
      RouteGround, RouteAbort, RouteCommit, Decide, EnvelopeResolves, FileExecuted, vars, flightVars

LEMMA InitLedger == Init => LedgerInv /\ Approval!Init
<1> SUFFICES ASSUME Init PROVE LedgerInv /\ Approval!Init
  OBVIOUS
<1>1. \A h \in Handlers : sign[h].pc = "idle"
  BY DEF Init, IdlePrep
<1>2. LedgerInv
  BY <1>1, InitInv DEF Init, LedgerInv, OpenInv, AgreedInv, SignInv
<1>3. Approval!Init
  BY DEF Init, Approval!Init, Current, Sitting, Reached, Requested
<1> QED
  BY <1>2, <1>3

LEMMA StepLedger == LedgerInv /\ [Next]_vars => LedgerInv'
BY NextInv, StepOpen, StepAgreed, StepSign DEF LedgerInv

(* The four services together keep the ledger of approvals: every form is judged
   once, by the whole panel that sat on it while it was current, and only approved
   forms go out for signature, for any people, policies and requests in flight. *)
THEOREM KeepsLedger == Spec => ApprovalSpec
<1>1. LedgerInv /\ [Next]_vars => [Approval!Next]_mapped
  BY StepKeepsLedger
<1> QED
  BY <1>1, InitLedger, StepLedger, PTL DEF Spec, ApprovalSpec, Approval!Spec, Approval!vars, mapped
=============================================================================
