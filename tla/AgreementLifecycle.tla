------------------------- MODULE AgreementLifecycle -------------------------
(***************************************************************************)
(* The life of ONE agreement, from its first draft to the executed record, *)
(* as AgreementsService, IngestionService, WorkflowService (in-app route)  *)
(* and EsignService write it.  Every database transaction that takes the   *)
(* Contract row lock is one action.  The handlers that read BEFORE they    *)
(* lock (routeInApp, EsignService.create) keep what they read in a record  *)
(* of their own and act on it later, with any other step in between.       *)
(*                                                                         *)
(* A table keyed by the contract (ApprovalRouting, ApprovalDecision) is a  *)
(* set of at most one row.  Documents are numbered in creation order, so   *)
(* the newest one that is not quarantined is simply `latest'.              *)
(***************************************************************************)
EXTENDS Naturals, FiniteSets

CONSTANTS
  Lawyers,      \* people who hold approval:route
  Approvers,    \* people who may hold the approve permission
  Mandatory,    \* approvers named by the enabled approval policies
  Handlers,     \* concurrent POST /esign requests
  MaxRev        \* bound: no edit is started once rev has reached it

ASSUME LifecycleAssumption ==
  /\ Mandatory \subseteq Approvers
  /\ MaxRev \in Nat

VARIABLES
  stage, rev, version, latest, needsNew, agreed,   \* the Contract row and its newest document
  routing, expired, steps, decision, rounds,       \* ApprovalRouting/Step/Decision/Round
  envelopes, executed,                             \* SignatureRequest, the authoritative archive
  authority,                                       \* who holds the approve permission now
  seen, prep, sign                                 \* a client's snapshot, requests in flight

contractVars == <<stage, rev, version, latest, needsNew, agreed>>
approvalVars == <<routing, expired, steps, decision, rounds>>
signingVars  == <<envelopes, executed>>
flightVars   == <<prep, sign>>
vars == <<contractVars, approvalVars, signingVars, authority, seen, flightVars>>

People   == Lawyers \cup Approvers
Stages   == {"drafting", "review", "agreed", "approval", "signature", "active"}
Verdicts == {"approved", "rejected", "changes-requested"}
Pin      == [doc: Nat, version: Nat]
Routing  == [approvers: SUBSET Approvers, routedBy: Lawyers, doc: Nat, version: Nat]
Step     == [approver: Approvers, decision: Verdicts \cup {"pending"}]
Decision == [by: Approvers, verdict: Verdicts, doc: Nat, version: Nat]
Round    == [doc: Nat, version: Nat, verdict: Verdicts \cup {"agreed"}]
Envelope == [doc: Nat, version: Nat, status: {"draft", "sent", "completed", "closed"}]

(* What a revision-checked operation builds on without reading it again: the
   contract and its documents.  The routing and the decision it reads under its lock. *)
View == [stage |-> stage, version |-> version, latest |-> latest,
         needsNew |-> needsNew, agreed |-> agreed, executed |-> executed]

IdlePrep == [pc |-> "idle", doc |-> 0, version |-> 0]

(* A new agreement in drafting, or one whose form the counterparty agreed. *)
Init ==
  /\ \/ stage = "drafting" /\ latest = 0 /\ agreed = 0
     \/ stage = "agreed" /\ latest = 1 /\ agreed = 1
  /\ rev = 0 /\ version = 1 /\ needsNew = FALSE
  /\ routing = {} /\ expired = FALSE /\ steps = {} /\ decision = {} /\ rounds = {}
  /\ envelopes = {} /\ executed = {}
  /\ authority = Approvers
  /\ seen = [rev |-> rev, view |-> View]
  /\ prep = [p \in Lawyers |-> IdlePrep]
  /\ sign = [h \in Handlers |-> IdlePrep]

-----------------------------------------------------------------------------
(* Editing *)

(* AgreementsService.snapshot: a client loads the workspace and its revision. *)
Open ==
  /\ seen' = [rev |-> rev, view |-> View]
  /\ UNCHANGED <<contractVars, approvalVars, signingVars, authority, flightVars>>

UnroutedDuringRound == decision = {} /\ envelopes = {}
Unrouted == routing = {} /\ decision = {} /\ envelopes = {}

Editable ==
  /\ seen.rev = rev
  /\ stage \notin {"active", "signature", "agreed"}
  /\ executed = {}
  /\ Unrouted

RecordVersionQuietly ==
  /\ latest' = latest + 1
  /\ version' = IF latest = 0 THEN version ELSE version + 1
  /\ needsNew' = FALSE
  /\ rev' = rev

RecordVersionSameNumber ==
  /\ latest' = latest + 1
  /\ version' = version
  /\ needsNew' = FALSE
  /\ rev' = rev + 1

(* version-record.ts: the new bytes become the current version. *)
RecordVersion ==
  /\ latest' = latest + 1
  /\ version' = IF latest = 0 THEN version ELSE version + 1
  /\ needsNew' = FALSE
  /\ rev' = rev + 1

SaveDraft ==
  /\ rev < MaxRev
  /\ Editable
  /\ RecordVersion
  /\ stage' = IF stage = "review" THEN "review" ELSE "drafting"
  /\ UNCHANGED <<agreed, approvalVars, signingVars, authority, seen, flightVars>>

(* An uploaded file that passed the scan; the caller sends no revision. *)
Upload ==
  /\ rev < MaxRev
  /\ stage # "agreed" /\ executed = {}
  /\ Unrouted
  /\ RecordVersion
  /\ UNCHANGED <<stage, agreed, approvalVars, signingVars, authority, seen, flightVars>>

Transition(to) ==
  /\ rev < MaxRev
  /\ Editable
  /\ stage \in {"drafting", "review"}
  /\ to = "review" => ~needsNew /\ latest # 0
  /\ stage' = to
  /\ rev' = rev + 1
  /\ UNCHANGED <<version, latest, needsNew, agreed, approvalVars, signingVars,
                 authority, seen, flightVars>>

UnsignedUntilFiled == executed = {}
UnsignedAnyway == TRUE
Unsigned == envelopes = {} /\ executed = {}

(* The finished round is archived and the current-version rows are cleared. *)
Revise ==
  /\ seen.rev = rev
  /\ (routing # {} /\ decision # {}) \/ stage = "agreed"
  /\ Unsigned
  /\ \A o \in rounds : o.version # version          \* unique (contract, version)
  /\ rounds' = rounds \cup
       IF decision = {} THEN {[doc |-> latest, version |-> version, verdict |-> "agreed"]}
       ELSE {[doc |-> d.doc, version |-> version, verdict |-> d.verdict] : d \in decision}
  /\ routing' = {} /\ steps' = {} /\ decision' = {} /\ expired' = FALSE
  /\ stage' = "drafting" /\ needsNew' = TRUE /\ agreed' = 0
  /\ rev' = rev + 1
  /\ UNCHANGED <<version, latest, signingVars, authority, seen, flightVars>>

-----------------------------------------------------------------------------
(* In-app approval *)

(* routeInApp reads the contract version, then the AI review names the document
   it was grounded on; the model call takes minutes and holds no lock. *)
RouteRead(p) ==
  /\ prep[p].pc = "idle"
  /\ stage \in {"review", "agreed"}
  /\ prep' = [prep EXCEPT ![p] = [pc |-> "read", doc |-> 0, version |-> version]]
  /\ UNCHANGED <<contractVars, approvalVars, signingVars, authority, seen, sign>>

RouteGround(p) ==
  /\ prep[p].pc = "read"
  /\ latest # 0
  /\ prep' = [prep EXCEPT ![p].pc = "grounded", ![p].doc = latest]
  /\ UNCHANGED <<contractVars, approvalVars, signingVars, authority, seen, sign>>

RouteAbort(p) ==
  /\ prep[p].pc # "idle"
  /\ prep' = [prep EXCEPT ![p] = IdlePrep]
  /\ UNCHANGED <<contractVars, approvalVars, signingVars, authority, seen, sign>>

RouteCommit(p, additional) ==
  LET chosen == additional \cup Mandatory IN
  /\ prep[p].pc = "grounded"
  /\ stage \in {"review", "agreed"}
  /\ prep[p].version = version /\ ~needsNew
  /\ routing = {} /\ decision = {}
  /\ latest # 0 /\ prep[p].doc = latest
  /\ agreed # 0 => agreed = latest
  /\ chosen # {} /\ p \notin chosen /\ chosen \subseteq authority
  /\ \A s \in steps : s.approver \notin chosen       \* unique (contract, approver)
  /\ routing' = {[approvers |-> chosen, routedBy |-> p, doc |-> latest, version |-> version]}
  /\ steps' = steps \cup {[approver |-> a, decision |-> "pending"] : a \in chosen}
  /\ expired' = FALSE
  /\ stage' = "approval" /\ rev' = rev + 1
  /\ prep' = [prep EXCEPT ![p] = IdlePrep]
  /\ UNCHANGED <<version, latest, needsNew, agreed, decision, rounds, signingVars,
                 authority, seen, sign>>

(* The routing window (APPROVAL_ROUTING_TTL_HOURS) runs out. *)
Expire ==
  /\ routing # {} /\ decision = {} /\ ~expired
  /\ expired' = TRUE
  /\ UNCHANGED <<contractVars, routing, steps, decision, rounds, signingVars,
                 authority, seen, flightVars>>

(* An administrator grants or withdraws the approve permission. *)
SetRole(a) ==
  /\ authority' = IF a \in authority THEN authority \ {a} ELSE authority \cup {a}
  /\ UNCHANGED <<contractVars, approvalVars, signingVars, seen, flightVars>>

(* One refusal ends the round; an approval ends it once no card is outstanding. *)
ConcludesAtOnce(verdict, cards) == TRUE
Concludes(verdict, cards) ==
  verdict # "approved" \/ \A t \in cards : t.decision = "approved"

StageAfter(verdict) == IF verdict = "approved" THEN "signature" ELSE "review"

Decide(a, verdict) ==
  \E r \in routing, s \in steps :
    LET marked == (steps \ {s}) \cup {[s EXCEPT !.decision = verdict]} IN
    /\ a \in r.approvers /\ a # r.routedBy /\ ~expired
    /\ a \in authority
    /\ r.doc = latest /\ r.version = version
    /\ s.approver = a /\ s.decision = "pending"
    /\ decision = {}
    /\ steps' = marked
    /\ IF Concludes(verdict, marked)
       THEN /\ decision' = {[by |-> a, verdict |-> verdict, doc |-> r.doc, version |-> r.version]}
            /\ stage' = StageAfter(verdict)
            /\ rev' = rev + 1
       ELSE UNCHANGED <<decision, stage, rev>>
    /\ UNCHANGED <<version, latest, needsNew, agreed, routing, expired, rounds,
                   signingVars, authority, seen, flightVars>>

-----------------------------------------------------------------------------
(* Signing *)

(* create: approvedDocument, then the stored bytes are fetched and hashed. *)
DecidedOn(d) == d.doc = latest /\ d.version = version
ApprovedDocument(d) == d.verdict = "approved" /\ d.doc = latest /\ d.version = version

SignCheck(h) ==
  /\ sign[h].pc = "idle"
  /\ \E d \in decision :
       /\ ApprovedDocument(d)
       /\ sign' = [sign EXCEPT ![h] = [pc |-> "approved", doc |-> d.doc, version |-> d.version]]
  /\ UNCHANGED <<contractVars, approvalVars, signingVars, authority, seen, prep>>

(* persist: insert the draft row; no lock, and no second look at the decision. *)
SignPersist(h) ==
  /\ sign[h].pc = "approved"
  /\ \A e \in envelopes : <<e.doc, e.version>> # <<sign[h].doc, sign[h].version>>
  /\ envelopes' = envelopes \cup
       {[doc |-> sign[h].doc, version |-> sign[h].version, status |-> "draft"]}
  /\ sign' = [sign EXCEPT ![h].pc = "persisted"]
  /\ UNCHANGED <<contractVars, approvalVars, executed, authority, seen, prep>>

(* The provider accepts the envelope and the row is marked sent. *)
SignDispatch(h) ==
  /\ sign[h].pc = "persisted"
  /\ \E e \in envelopes :
       /\ e.doc = sign[h].doc /\ e.version = sign[h].version /\ e.status = "draft"
       /\ envelopes' = (envelopes \ {e}) \cup {[e EXCEPT !.status = "sent"]}
  /\ sign' = [sign EXCEPT ![h] = IdlePrep]
  /\ UNCHANGED <<contractVars, approvalVars, executed, authority, seen, prep>>

(* The key is taken, the stamp or the envelope fails, or the process stops:
   whatever was persisted stays as it is. *)
SignAbort(h) ==
  /\ sign[h].pc # "idle"
  /\ sign' = [sign EXCEPT ![h] = IdlePrep]
  /\ UNCHANGED <<contractVars, approvalVars, signingVars, authority, seen, prep>>

(* Webhooks bring an envelope to completed, or to declined/expired (closed). *)
EnvelopeResolves(outcome) ==
  /\ \E e \in envelopes :
       /\ e.status = "sent"
       /\ envelopes' = (envelopes \ {e}) \cup {[e EXCEPT !.status = outcome]}
  /\ UNCHANGED <<contractVars, approvalVars, executed, authority, seen, flightVars>>

BackedByAnything(e) == TRUE
Backed(e) ==
  /\ \E d \in decision : d.verdict = "approved" /\ d.doc = e.doc /\ d.version = e.version
  /\ version = e.version

(* completeAgreement, run by the webhook and by the five-minute reconciler. *)
FileExecuted ==
  /\ executed = {}
  /\ \E e \in envelopes :
       /\ e.status = "completed" /\ Backed(e)
       /\ executed' = {[doc |-> e.doc, version |-> e.version]}
  /\ stage' = "active" /\ rev' = rev + 1
  /\ UNCHANGED <<version, latest, needsNew, agreed, approvalVars, envelopes,
                 authority, seen, flightVars>>

-----------------------------------------------------------------------------

RouteSteps(p) ==
  \/ RouteRead(p) \/ RouteGround(p) \/ RouteAbort(p)
  \/ \E additional \in SUBSET Approvers : RouteCommit(p, additional)

SignSteps(h) == SignCheck(h) \/ SignPersist(h) \/ SignDispatch(h) \/ SignAbort(h)

Next ==
  \/ Open \/ SaveDraft \/ Upload \/ Revise
  \/ \E to \in {"drafting", "review"} : Transition(to)
  \/ \E p \in Lawyers : RouteSteps(p)
  \/ Expire
  \/ \E a \in Approvers : SetRole(a)
  \/ \E a \in Approvers, v \in Verdicts : Decide(a, v)
  \/ \E h \in Handlers : SignSteps(h)
  \/ \E outcome \in {"completed", "closed"} : EnvelopeResolves(outcome)
  \/ FileExecuted

Spec == Init /\ [][Next]_vars

(* The reconciler runs every five minutes, so an enabled filing happens. *)
FilingSpec == Spec /\ WF_vars(FileExecuted)

-----------------------------------------------------------------------------
(* Properties *)

TypeOK ==
  /\ stage \in Stages
  /\ rev \in Nat /\ version \in Nat /\ latest \in Nat /\ agreed \in Nat
  /\ needsNew \in BOOLEAN
  /\ routing \in SUBSET Routing /\ expired \in BOOLEAN
  /\ steps \in SUBSET Step /\ decision \in SUBSET Decision /\ rounds \in SUBSET Round
  /\ envelopes \in SUBSET Envelope /\ executed \in SUBSET Pin
  /\ authority \in SUBSET Approvers
  /\ seen.rev \in Nat
  /\ prep \in [Lawyers -> [pc: {"idle", "read", "grounded"}, doc: Nat, version: Nat]]
  /\ sign \in [Handlers -> [pc: {"idle", "approved", "persisted"}, doc: Nat, version: Nat]]

(* From the moment a version is routed until the round is archived, the document
   the approvers were shown is still the newest document and still the current
   version: no draft save, upload or stage move slips under a pending approval
   (editable and assertDocumentMutationAllowed against routeInApp). *)
RoutedDocumentFrozen ==
  \A r \in routing : r.doc = latest /\ r.version = version /\ latest # 0 /\ ~needsNew

(* A recorded decision is the outcome of the whole panel: it is about the routed
   document, it was made by a routed approver who is not the person who routed it,
   every routed approver has exactly one card, and the verdict is "approved"
   exactly when every card is (decideInApp's outstanding count). *)
DecisionIsUnanimous ==
  \A d \in decision : \E r \in routing :
    /\ d.doc = r.doc /\ d.version = r.version
    /\ d.by \in r.approvers /\ r.routedBy \notin r.approvers
    /\ {s.approver : s \in steps} = r.approvers
    /\ \A s, t \in steps : s.approver = t.approver => s = t
    /\ d.verdict = "approved" <=> \A s \in steps : s.decision = "approved"

(* The executed record is a completed envelope of the very document and version
   that was approved, it is the newest version, and when the counterparty had
   agreed a form it is that form (approve, sign and file run in three services
   with no common lock). *)
ExecutedWasApproved ==
  \A x \in executed :
    /\ x.doc = latest /\ x.version = version
    /\ agreed \in {0, x.doc}
    /\ \E d \in decision : d.verdict = "approved" /\ d.doc = x.doc /\ d.version = x.version
    /\ \E e \in envelopes : e.status = "completed" /\ e.doc = x.doc /\ e.version = x.version

(* lifecycleRevision is a sound token for what an edit builds on: whoever still
   holds the current revision has seen the current stage, newest document, version,
   agreed form and executed record, so no operation that changes them may forget to
   increment it (lock's check in AgreementsService.editable).
   It says nothing of the routing and the decision: the card path of WorkflowService
   changes both without an increment (CardApproval), which is why every operation
   that depends on them reads them again under the lock. *)
TokenIdentifiesState == seen.rev = rev => seen.view = View

(* revise archives the round under a unique (contract, version) key: whenever it
   is otherwise allowed, that slot is still free, although the version number does
   not move when a round is archived. *)
RoundSlotFree ==
  stage = "agreed" \/ decision # {} => \A o \in rounds : o.version # version

(* Once the executed record is filed nothing replaces it, its document, or the
   approval evidence it rests on. *)
ExecutionIsFinal ==
  [][executed # {} => UNCHANGED <<executed, latest, version, agreed, routing, steps, decision>>]_vars

(* The locked transactions, the requests in flight between them and the archived
   rounds together keep the approval's promise: every form is judged once, by the
   whole panel that sat when it was the current one, and only what was approved
   goes out - although signing acts on a decision it read long before and revise
   may have withdrawn it since (create against revise). *)
Pinned(x) == [doc |-> x.doc, version |-> x.version]
Current   == [doc |-> latest, version |-> version]
Waiting   == {s.approver : s \in {t \in steps : t.decision = "pending"}}
Sitting   == {[form |-> Pinned(r), waiting |-> Waiting] : r \in routing}
Reached   == {[form |-> Pinned(d), verdict |-> d.verdict] : d \in decision}
             \cup {[form |-> Pinned(o), verdict |-> o.verdict] : o \in {q \in rounds : q.verdict # "agreed"}}
Requested == {Pinned(e) : e \in envelopes}

Approval == INSTANCE ApprovalLedger WITH
  Members <- Approvers, form <- Current, panel <- Sitting, ledger <- Reached,
  requested <- Requested, filed <- executed

ApprovalSpec == Approval!Spec

(* A completed envelope of the approved version is eventually the executed
   record, whatever else happens meanwhile (reconcileExecuted). *)
Fileable ==
  \E e \in envelopes, d \in decision :
    e.status = "completed" /\ d.verdict = "approved" /\ d.doc = e.doc /\ d.version = e.version
CompletedIsFiled == Fileable ~> executed # {}
=============================================================================
