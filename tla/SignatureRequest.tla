-------------------------- MODULE SignatureRequest --------------------------
(***************************************************************************)
(* One signature request between Concord and the signing provider, from    *)
(* the persisted draft to the filed agreement (EsignService, JobsService). *)
(*                                                                         *)
(* The provider reports what happens to its envelope in webhooks that may  *)
(* come early, late, twice or out of order; it redelivers an event until   *)
(* it gets a 2xx answer.  Webhook handlers, the reconciler and the nudge   *)
(* sweep run concurrently, each reading the row, deciding and writing it   *)
(* back under a version check.  A handler claims an event's key before it  *)
(* works and gives the claim back when the work throws.                    *)
(***************************************************************************)
EXTENDS Naturals

CONSTANTS
  Signers,
  Named,       \* signers whose e-mail the provider puts into `signed' events
  Workers,     \* webhook handlers
  Reconciler,  \* reconcileExecuted, every five minutes
  Nudger,      \* scheduledNudge / nudgePending
  Attempts,    \* ESIGN_WRITE_RETRIES
  None,
  MaxFaults,   \* bound: failing database, provider or storage calls
  MaxCrashes,  \* bound: processes lost in the middle of their work, claims not given back
  MaxNudges,   \* bound: nudge sweeps that write the row
  EarlyBird,   \* whether the provider may report before create has returned
  Overlap      \* whether it may redeliver before the last delivery was answered

ASSUME SignatureAssumption ==
  /\ Named \subseteq Signers /\ Signers # {}
  /\ Reconciler \notin Workers /\ Nudger \notin Workers /\ Nudger # Reconciler
  /\ None \notin Signers
  /\ Attempts \in Nat \ {0} /\ MaxFaults \in Nat /\ MaxCrashes \in Nat /\ MaxNudges \in Nat
  /\ EarlyBird \in BOOLEAN /\ Overlap \in BOOLEAN

VARIABLES
  creating,    \* where EsignService.create stands
  row,         \* the SignatureRequest row
  archived,    \* the ArchivedDocument row exists
  filed,       \* it is the contract's authoritative executed record
  claims,      \* job_claim
  envelope,    \* the provider's side: signatures and outcome
  emitted,     \* events the provider has to report
  answered,    \* events it got a 2xx answer for
  job,         \* what each process is doing
  stranded,    \* auxiliary: events whose claim outlived their handler, unanswered
  faults, crashes, nudges

provider == <<envelope, emitted, answered>>
record   == <<row, archived, filed>>
budget   == <<stranded, faults, crashes, nudges>>
vars == <<creating, record, claims, provider, job, budget>>

Procs == Workers \cup {Reconciler, Nudger}

Signed(s) == [kind |-> "signed", by |-> s]
Event(k)  == [kind |-> k, by |-> None]
Events == {Signed(s) : s \in Signers}
          \cup {Event(k) : k \in {"viewed", "completed", "declined", "expired"}}
Nudge == Event("nudge")
Note  == Event("note")
Changes == Events \cup {Nudge, Note}

Terminal == {"completed", "declined", "expired"}
Statuses == {"draft", "sent", "viewed", "partially-signed"} \cup Terminal
ORDER == [s \in Statuses |->
            CASE s = "draft" -> 0 [] s = "sent" -> 1 [] s = "viewed" -> 2
              [] s = "partially-signed" -> 3 [] OTHER -> 4]

(* The status an event stands for. *)
StatusOf(e) == IF e.kind = "signed" THEN "partially-signed" ELSE e.kind

BlankRow == [status |-> "draft", known |-> FALSE, signed |-> {}, version |-> 0]
Idle == [pc |-> "idle", event |-> Nudge, change |-> Nudge, saw |-> "draft",
         snap |-> BlankRow, tries |-> 0]

(* create has checked the approval and persisted the draft. *)
Init ==
  /\ creating = "persisted"
  /\ row = BlankRow
  /\ archived = FALSE /\ filed = FALSE /\ claims = {}
  /\ envelope = [signed |-> {}, outcome |-> "none"]
  /\ emitted = {} /\ answered = {}
  /\ job = [p \in Procs |-> Idle]
  /\ stranded = {} /\ faults = 0 /\ crashes = 0 /\ nudges = 0

-----------------------------------------------------------------------------
(* Sending *)

(* Melento accepts the envelope ... *)
CreateEnvelope ==
  /\ creating = "persisted"
  /\ creating' = "accepted"
  /\ envelope' = [envelope EXCEPT !.outcome = "open"]
  /\ UNCHANGED <<record, claims, emitted, answered, job, budget>>

(* ... and its id is stored; the catch block stores it once more on failure. *)
StoreSent ==
  /\ creating = "accepted"
  /\ creating' = "done"
  /\ row' = [row EXCEPT !.status = "sent", !.known = TRUE, !.version = @ + 1]
  /\ UNCHANGED <<archived, filed, claims, provider, job, budget>>

(* The provider refuses; send-failed is noted and the draft stays. *)
EnvelopeRefused ==
  /\ creating = "persisted" /\ faults < MaxFaults
  /\ creating' = "done"
  /\ row' = [row EXCEPT !.version = @ + 1]
  /\ faults' = faults + 1
  /\ UNCHANGED <<archived, filed, claims, provider, job, stranded, crashes, nudges>>

-----------------------------------------------------------------------------
(* The provider *)

Reports == envelope.outcome = "open" /\ (EarlyBird \/ row.known)

SignerViews ==
  /\ Reports
  /\ emitted' = emitted \cup {Event("viewed")}
  /\ UNCHANGED <<creating, record, claims, envelope, answered, job, budget>>

SignerSigns(s) ==
  LET signed == envelope.signed \cup {s} IN
  /\ Reports /\ s \notin envelope.signed
  /\ envelope' = [signed |-> signed,
                  outcome |-> IF signed = Signers THEN "completed" ELSE "open"]
  /\ emitted' = emitted \cup {Signed(s)}
       \cup (IF signed = Signers THEN {Event("completed")} ELSE {})
  /\ UNCHANGED <<creating, record, claims, answered, job, budget>>

EnvelopeEnds(outcome) ==
  /\ Reports
  /\ envelope' = [envelope EXCEPT !.outcome = outcome]
  /\ emitted' = emitted \cup {Event(outcome)}
  /\ UNCHANGED <<creating, record, claims, answered, job, budget>>

-----------------------------------------------------------------------------
(* How a process goes on.  Each sets job' (and answered', claims') only. *)

(* A 2xx answer: the provider will not deliver the event again. *)
Answer(p) ==
  /\ job' = [job EXCEPT ![p] = Idle]
  /\ answered' = IF p \in Workers THEN answered \cup {job[p].event} ELSE answered

GoOn(p, pc) == job' = [job EXCEPT ![p].pc = pc] /\ UNCHANGED answered

Noting(p) == job[p].change = Note

(* An exception: the handler releases its claim, a note that could not be
   written is logged and the filing goes on, a scheduled job stops. *)
Throw(p) ==
  /\ job' = [job EXCEPT ![p] =
       IF Noting(p) /\ @.pc \in {"read", "write"} THEN [@ EXCEPT !.pc = "file"]
       ELSE IF p \in Workers /\ @.pc \notin {"resolve", "claim"} THEN [@ EXCEPT !.pc = "release"]
       ELSE Idle]
  /\ UNCHANGED answered

-----------------------------------------------------------------------------
(* Webhooks *)

Deliver(w, e) ==
  /\ job[w].pc = "idle" /\ e \in emitted \ answered
  /\ Overlap \/ \A v \in Workers : job[v].pc = "idle" \/ job[v].event # e
  /\ job' = [job EXCEPT ![w] = [Idle EXCEPT !.pc = "resolve", !.event = e, !.change = e]]
  /\ UNCHANGED <<creating, record, claims, provider, budget>>

(* findByEnvelope; an unknown envelope is answered {ok: false}. *)
TakenForKnown == TRUE
EnvelopeKnown == row.known

Resolve(w) ==
  /\ job[w].pc = "resolve"
  /\ IF EnvelopeKnown
     THEN /\ job' = [job EXCEPT ![w].pc = "claim", ![w].saw = row.status]
          /\ UNCHANGED answered
     ELSE Answer(w)
  /\ UNCHANGED <<creating, record, claims, envelope, emitted, budget>>

(* INSERT ... ON CONFLICT DO NOTHING: one handler wins the event. *)
AnsweredBefore(w) == job[w].event \in answered
AlreadyProcessed(w) == job[w].event \in claims

Claim(w) ==
  /\ job[w].pc = "claim"
  /\ claims' = claims \cup {job[w].event}
  /\ IF AlreadyProcessed(w) THEN Answer(w) ELSE GoOn(w, "read")
  /\ UNCHANGED <<creating, record, envelope, emitted, budget>>

ClaimKept(w) == claims
ClaimReturned(w) == claims \ {job[w].event}

(* releaseClaim swallows its own failure. *)
Release(w) ==
  /\ job[w].pc = "release"
  /\ job' = [job EXCEPT ![w] = Idle]
  /\ \/ claims' = ClaimReturned(w) /\ UNCHANGED <<stranded, crashes>>
     \/ /\ crashes < MaxCrashes /\ crashes' = crashes + 1
        /\ stranded' = stranded \cup {job[w].event} /\ UNCHANGED claims
  /\ UNCHANGED <<creating, record, provider, faults, nudges>>

-----------------------------------------------------------------------------
(* mutate: read, decide, write under the version check, again on a conflict *)

Stale(e, r) == ORDER[StatusOf(e)] < ORDER[r.status]

Skips(e, r) == e \in Events /\ (r.status \in Terminal \/ Stale(e, r))

AnySignature(e, signed) == IF e.by \in Named THEN "completed" ELSE "partially-signed"
AfterSignature(e, signed) ==
  IF e.by \in Named /\ signed = Signers THEN "completed" ELSE "partially-signed"

Applied(e, r) ==
  LET signed == IF e.by \in Named THEN r.signed \cup {e.by} ELSE r.signed IN
  CASE e \in {Nudge, Note} -> r
    [] e.kind = "signed" ->
         [r EXCEPT !.signed = signed, !.status = AfterSignature(e, signed)]
    [] e.kind = "completed" -> [r EXCEPT !.status = "completed", !.signed = Signers]
    [] OTHER -> [r EXCEPT !.status = e.kind]

(* A retry of a completion repairs a missing archive instead of being ignored. *)
Read(p) ==
  /\ job[p].pc = "read"
  /\ IF ~Skips(job[p].change, row)
     THEN /\ job' = [job EXCEPT ![p].pc = "write", ![p].snap = row]
          /\ UNCHANGED answered
     ELSE IF row.status \in Terminal /\ job[p].saw = "completed" THEN GoOn(p, "archive")
     ELSE Answer(p)
  /\ UNCHANGED <<creating, record, claims, envelope, emitted, budget>>

Unversioned(p) == TRUE
Unchanged(p) == row.version = job[p].snap.version

RowWritten(p) ==
  /\ job[p].pc = "write"
  /\ Unchanged(p)
  /\ row' = [Applied(job[p].change, job[p].snap) EXCEPT !.version = @ + 1]

Write(p) ==
  /\ RowWritten(p)
  /\ IF Noting(p) THEN GoOn(p, "file")
     ELSE IF job[p].change \in Events /\ row'.status = "completed" THEN GoOn(p, "archive")
     ELSE Answer(p)
  /\ UNCHANGED <<creating, archived, filed, claims, envelope, emitted, budget>>

Conflict(p) ==
  /\ job[p].pc = "write"
  /\ ~Unchanged(p)
  /\ IF job[p].tries + 1 < Attempts
     THEN /\ job' = [job EXCEPT ![p].pc = "read", ![p].tries = @ + 1]
          /\ UNCHANGED answered
     ELSE Throw(p)
  /\ UNCHANGED <<creating, record, claims, envelope, emitted, budget>>

-----------------------------------------------------------------------------
(* The executed agreement *)

Unarchived == row.status = "completed" /\ ~archived
Unfiled == row.status = "completed" /\ ~filed

ReconcileStart ==
  /\ job[Reconciler].pc = "idle"
  /\ Unfiled
  /\ job' = [job EXCEPT ![Reconciler] = [Idle EXCEPT !.pc = "archive"]]
  /\ UNCHANGED <<creating, record, claims, provider, budget>>

NudgeStart ==
  /\ job[Nudger].pc = "idle" /\ nudges < MaxNudges
  /\ row.status \in {"sent", "viewed", "partially-signed"} /\ row.signed # Signers
  /\ job' = [job EXCEPT ![Nudger] = [Idle EXCEPT !.pc = "read"]]
  /\ nudges' = nudges + 1
  /\ UNCHANGED <<creating, record, claims, provider, stranded, faults, crashes>>

(* isArchived; otherwise the executed bytes are downloaded, checked and stored. *)
Archive(p) ==
  /\ job[p].pc = "archive"
  /\ GoOn(p, IF archived THEN "file" ELSE "stored")
  /\ UNCHANGED <<creating, record, claims, envelope, emitted, budget>>

(* requestId is unique: of two concurrent filings one insert throws. *)
PersistArchive(p) ==
  /\ job[p].pc = "stored"
  /\ IF archived
     THEN Throw(p) /\ UNCHANGED archived
     ELSE /\ archived' = TRUE
          /\ job' = [job EXCEPT ![p].pc = "read", ![p].change = Note, ![p].tries = 0]
          /\ UNCHANGED answered
  /\ UNCHANGED <<creating, row, filed, claims, envelope, emitted, budget>>

(* completeAgreement, against an approval that still stands. *)
Executed(p) ==
  /\ job[p].pc = "file"
  /\ archived /\ row.signed = Signers
  /\ filed' = TRUE

File(p) ==
  /\ Executed(p)
  /\ Answer(p)
  /\ UNCHANGED <<creating, row, archived, claims, envelope, emitted, budget>>

-----------------------------------------------------------------------------
(* Failures *)

(* What a failing call may have done all the same, when it is its answer that is
   lost: the claim stands although alreadyProcessed has thrown, outside the try
   that would give it back; or the row, the archive or the filing is written. *)
Landed(p) ==
  \/ /\ job[p].pc = "claim"
     /\ claims' = claims \cup {job[p].event}
     /\ stranded' = stranded \cup ({job[p].event} \ claims)
     /\ UNCHANGED record
  \/ RowWritten(p) /\ UNCHANGED <<archived, filed, claims, stranded>>
  \/ /\ job[p].pc = "stored" /\ archived' = TRUE
     /\ UNCHANGED <<row, filed, claims, stranded>>
  \/ Executed(p) /\ UNCHANGED <<row, archived, claims, stranded>>

Fault(p) ==
  /\ faults < MaxFaults
  /\ job[p].pc \notin {"idle", "release"}
  /\ Throw(p)
  /\ Landed(p) \/ UNCHANGED <<record, claims, stranded>>
  /\ faults' = faults + 1
  /\ UNCHANGED <<creating, envelope, emitted, crashes, nudges>>

(* The process is gone; what it had claimed or written stays. *)
Crash(p) ==
  /\ crashes < MaxCrashes
  /\ job[p].pc # "idle"
  /\ job' = [job EXCEPT ![p] = Idle]
  /\ stranded' = stranded \cup (IF p \in Workers /\ job[p].pc \notin {"resolve", "claim"}
                               THEN {job[p].event} ELSE {})
  /\ crashes' = crashes + 1
  /\ UNCHANGED <<creating, record, claims, provider, faults, nudges>>

(* create dies before it can store the envelope id, or the provider's answer is
   lost and send-failed is noted. *)
CreateLost ==
  /\ creating = "accepted" /\ crashes < MaxCrashes
  /\ creating' = "done"
  /\ row' \in {row, [row EXCEPT !.version = @ + 1]}
  /\ crashes' = crashes + 1
  /\ UNCHANGED <<archived, filed, claims, provider, job, stranded, faults, nudges>>

-----------------------------------------------------------------------------

Sending == CreateEnvelope \/ StoreSent \/ EnvelopeRefused \/ CreateLost

Provider ==
  \/ SignerViews
  \/ \E s \in Signers : SignerSigns(s)
  \/ \E outcome \in {"declined", "expired"} : EnvelopeEnds(outcome)

Webhook(w) == Resolve(w) \/ Claim(w) \/ Release(w)

Work(p) ==
  \/ Read(p) \/ Write(p) \/ Conflict(p)
  \/ Archive(p) \/ PersistArchive(p) \/ File(p)

Next ==
  \/ Sending \/ Provider
  \/ \E w \in Workers : Webhook(w) \/ \E e \in Events : Deliver(w, e)
  \/ ReconcileStart \/ NudgeStart
  \/ \E p \in Procs : Work(p) \/ Fault(p) \/ Crash(p)

Spec == Init /\ [][Next]_vars

(* A started create returns, a started process goes on (every call it makes has
   a timeout), the reconciler is started again every five minutes and the
   provider redelivers what was not answered. *)
FairSpec ==
  /\ Spec
  /\ WF_vars(Sending)
  /\ \A p \in Procs : WF_vars(Work(p))
  /\ \A w \in Workers : WF_vars(Webhook(w))
  /\ WF_vars(ReconcileStart)
  /\ \A e \in Events : WF_vars(\E w \in Workers : Deliver(w, e))

-----------------------------------------------------------------------------
(* Properties *)

Row == [status: Statuses, known: BOOLEAN, signed: SUBSET Signers, version: Nat]
Job == [pc: {"idle", "resolve", "claim", "read", "write", "archive", "stored", "file", "release"},
        event: Changes, change: Changes, saw: Statuses, snap: Row, tries: Nat]

TypeOK ==
  /\ creating \in {"persisted", "accepted", "done"}
  /\ row \in Row
  /\ archived \in BOOLEAN /\ filed \in BOOLEAN
  /\ claims \in SUBSET Events
  /\ envelope \in [signed: SUBSET Signers,
                   outcome: {"none", "open", "completed", "declined", "expired"}]
  /\ emitted \in SUBSET Events /\ answered \in SUBSET Events
  /\ job \in [Procs -> Job]
  /\ stranded \in SUBSET Events
  /\ faults \in Nat /\ crashes \in Nat /\ nudges \in Nat

(* The row never says more than happened at the provider: a signer recorded as
   signed did sign, and a completed request has every signature - although
   completion is derived from whichever of the signers' events comes last, from
   stale snapshots, by concurrent handlers (applyWebhook). *)
RowIsTruthful ==
  /\ row.status = "completed" => envelope.signed = Signers /\ row.signed = Signers
  /\ row.signed \subseteq envelope.signed
  /\ row.status \in {"declined", "expired"} => row.status = envelope.outcome

(* Signatures already recorded survive every later write, and the status only
   moves forward and stays where it ended: two handlers that read the same row
   cannot erase one another's event (update's version check under mutate). *)
NothingIsErased ==
  [][/\ row.signed \subseteq row'.signed
     /\ ORDER[row.status] <= ORDER[row'.status]
     /\ row.status \in Terminal => row'.status = row.status]_vars

(* What is filed as the executed record was archived, and only a request with
   every signature is archived; no write comes after that takes it back. *)
FiledIsExecuted ==
  /\ filed => archived
  /\ archived => row.status = "completed" /\ envelope.outcome = "completed"

(* The claim on an event is a lock and a receipt.  One handler at most works on an
   event, whatever the provider delivers twice or while another is still at it; and
   a claim that stays behind means that the event was answered, unless it is
   stranded: its handler died over it, its release failed, or the claim was made
   and its answer lost, which alreadyProcessed throws outside the try that would
   release it.  No other failure leaves an event that nobody will take up again
   (JobsService.alreadyProcessed and releaseClaim around applyWebhook). *)
WorkOn(e) ==
  {w \in Workers : job[w].event = e /\ job[w].pc \notin {"idle", "resolve", "claim"}}

ClaimsHaveOwners ==
  \A e \in Events :
    /\ \A v, w \in WorkOn(e) : v = w
    /\ WorkOn(e) # {} => e \in claims
    /\ e \in claims => e \in answered \cup stranded \/ WorkOn(e) # {}

(* What the agreement sees of a request. *)
EnvelopeStatus ==
  IF row.status \in {"draft", "completed"} THEN row.status
  ELSE IF row.status \in Terminal THEN "closed" ELSE "sent"

Approved == [verdict |-> "approved", by |-> "approver", doc |-> 1, version |-> 1]
Creating == IF creating = "done" THEN [pc |-> "idle", doc |-> 0, version |-> 0]
            ELSE [pc |-> "persisted", doc |-> 1, version |-> 1]

Agreement == INSTANCE AgreementLifecycle WITH
  Lawyers <- {"lawyer"}, Approvers <- {"approver"}, Mandatory <- {}, Handlers <- {"create"}, MaxRev <- 0,
  stage <- IF filed THEN "active" ELSE "signature", rev <- IF filed THEN 2 ELSE 1,
  version <- 1, latest <- 1, needsNew <- FALSE, agreed <- 0,
  routing <- {[approvers |-> {"approver"}, routedBy |-> "lawyer", doc |-> 1, version |-> 1]},
  expired <- FALSE, steps <- {[approver |-> "approver", decision |-> "approved"]},
  decision <- {Approved}, rounds <- {},
  envelopes <- {[doc |-> 1, version |-> 1, status |-> EnvelopeStatus]},
  executed <- IF filed THEN {[doc |-> 1, version |-> 1]} ELSE {},
  authority <- {"approver"}, seen <- [rev |-> 0, view |-> None],
  prep <- [p \in {"lawyer"} |-> [pc |-> "idle", doc |-> 0, version |-> 0]],
  sign <- [h \in {"create"} |-> Creating]

(* All that the variables of the agreement are made from. *)
shown == <<EnvelopeStatus, Creating, filed>>

(* The agreement signs through this request: what AgreementLifecycle takes for one
   step of an envelope - persisted, sent, resolved, filed - is what the row, its
   concurrent handlers and create together do, for an agreement whose only form
   was approved.  A step changes at most what that step may, in that order: an
   envelope that was never sent is not resolved, and one resolved or filed stays so. *)
SignsTheAgreement ==
  [][shown' # shown =>
       \/ Agreement!SignDispatch("create") \/ Agreement!SignAbort("create")
       \/ \E outcome \in {"completed", "closed"} : Agreement!EnvelopeResolves(outcome)
       \/ Agreement!FileExecuted]_vars

(* A completed request becomes the executed record in spite of a failing download,
   a lost insert race or a process lost in between (reconcileExecuted). *)
CompletedIsFiled == row.status = "completed" ~> filed

(* An event's signer is recorded, or the row has moved at least as far as the
   event says. *)
TookEffect(e) ==
  /\ ORDER[StatusOf(e)] <= ORDER[row.status]
  /\ e.by \in Named => e.by \in row.signed \/ row.status \in Terminal

(* Every event the provider reports takes effect unless its claim was stranded:
   exhausted retries, conflicting writers, failing calls after the claim and writes
   whose answer was lost lose no event, nor does a process that dies before it
   claimed one or the loss of another's claim - provided that the provider does not
   redeliver an event before its last delivery was answered (Overlap). *)
EventsSurviveFaults ==
  \A e \in Events : e \in emitted ~> TookEffect(e) \/ e \in stranded
=============================================================================
