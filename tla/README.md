# Concord CLM: a TLA+ development

Concord takes a contract from a department's request through drafting, negotiation,
approval and e-signature to the filed executed record, and keeps a hash-chained audit
trail of all of it. This directory holds TLA+ models of the parts of the API server
(`apps/api`) that several people, replicas, webhooks and scheduled jobs work on at the
same time, the TLC runs that check them on small instances, and TLAPS proofs of the
properties that matter most.

Read `PROJECT.json` next to this file: `map` gives the source lines of every definition,
`hazards` the places where the code is hard to test, `findings` the disagreement
between the code and what its documents promise.

## 1. Inventory

Paths are relative to `apps/api/src`. All state is in Postgres tables unless stated
otherwise; every replica runs the same code and the same cron jobs.

| Component | State | Operations | What makes it correct |
| --- | --- | --- | --- |
| Agreement lifecycle `agreements/` | `Contract` (stage, version, `lifecycleRevision`, `needsNewVersion`, agreed form), `Document`, `AgreementVersion`, `ApprovalRound`, drafts, comments | create, saveDraft, transition, revise, amend, comment, obligation | an edit never slips under a pending approval; the revision number identifies what an editor saw; finished rounds are archived and never lost |
| In-app approvals `workflow/` | `ApprovalRouting`, `ApprovalStep`, `ApprovalDecision`, `ApprovalPolicy` | routeInApp, decideInApp, policies | the decision is the whole panel's and about the document it was shown |
| Outlook-card approvals `workflow/` | the same tables | requestApproval, recordCardAction, rollback | one decision per contract, the first; a failed mail leaves the earlier routing |
| E-signature `esign/` | `SignatureRequest`, `ArchivedDocument`, `job_claim` | create, webhook, nudgePending, archive, completeAgreement, reconcileExecuted | only the approved document is sent, executed and filed; no provider event is lost or undone |
| Audit trail `audit/` | `AuditEvent`, `AuditAnchor`, one in-memory flag per replica | record, recordInTransaction, verify | an append-only sequence without gaps or repeats; verification attests it exactly when it is whole |
| Jobs `jobs/` | `job_claim`, `digest_run`, in-memory dead letters | claimOnce, releaseClaim, runOnce, runWithRetry, pruneClaims | a key is worked on once, and failed work can be tried again |
| AI review `ai-review/`, `security/ai-guardrails` | cached reviews | getReview | a review names the exact document and version it read |
| Ingestion `ingestion/` | `Document`, stored bytes | ingest, persist | an upload becomes a version only of an agreement that may be edited |
| Users and roles `auth/` | `User` | login, setRole, sync | a permission removed is gone at the next decision |
| Negotiation `negotiation/` | `NegotiationRound`, `NegotiationResponse`, `GuestInvitation` | invite, share, access, revoke, respond, accept, comment, reviewed, agreed | guests see Legal's text only; the agreed form was shared, accepted and never objected to; one response waits at a time |
| Guest access `negotiation/guest-auth` | invitation's challenge, `GuestSession`, `GuestAuthLimit` | challenge, verify, authenticate, logout, room, downloads | a session stands for a code that was delivered and for the grants of now |
| Mail outboxes `client-requests/request-inbox`, `negotiation/guest-delivery` | `RequestNotification`, `GuestDelivery` | enqueue, deliver, lease expiry | never sent twice after an unclear outcome, and what is said of a mail is true |
| Client requests, intake `client-requests/`, `intake/` | `IntakeRequest`, `RequestAttachment`, messages | create, update, message, action, allocateId | a submission is one request with all its documents; nobody changes a request unseen |
| Round analysis, commitment extraction `negotiation/round-analysis`, `obligations/obligation-extraction` | `NegotiationAnalysis`, `ObligationExtraction` | request, processNext, retry | the outcome on record is that of the last worker that took the job |
| Reminders `obligations/` | `digest_run`, notifications | remind, sendDigest, scheduledDigest | one digest per scheduled run |
| Contracts, storage, reports, repository, workspace, authoring, embeddings, telemetry, ops | records, blobs, indexes | reads, single-statement updates, documents | sequential; no protocol |
| `packages/shared`, `apps/web` | none | types, permission table; pages | - |

How they interact. Everything that changes an agreement, card approvals excepted, takes
its `Contract` row lock first, then (for the audit trail) the advisory lock. Several
operations read long before they write: `routeInApp` waits minutes for the AI review,
`EsignService.create` fetches and hashes the stored bytes after it checked the approval,
webhook handlers read the signature row, decide, and write it back under a version
check, sharing and responding wait for the review and the scanner, and card approvals
have no transaction at all. The signing provider (Melento), mail (Graph), storage and the AI are called
outside of transactions. Cron jobs - the reconciler, the nudge sweep, the outboxes, the
digest - run on every replica.

What is hard: reads that are stale when used (routing, signing, verification); events
that arrive early, late, twice or out of order (webhooks); commits whose answer is lost
(audit, submissions); processes that stop between two writes (claims, filing, mail);
rounds that nobody can finish (expiry, revoked roles); mails and codes whose fate is
unknown; leases that end while their holder still works.

## 2. What is modelled

All models describe the production configuration with a database. The variants that a
deployment without one uses (the in-memory audit chain, in-memory signature requests)
and the demonstration aid `advance` are left out.

### ApprovalLedger, AgreementLifecycle

`ApprovalLedger` is what approval promises: a panel judges the form the agreement stands
at and the form does not move meanwhile; a form is judged once, for good; signatures are
requested only for a form some panel approved, and what is filed is the current form,
approved by the panel that still sits. `AgreementLifecycle` is how the services keep it:
the forms are the pairs of document and version, a panel is a routing with its pending
cards, and the ledger is the decision on record together with the archived rounds.

One agreement from the first draft to the executed record, across
`agreements.service.ts`, `ingestion.service.ts`, `workflow.service.ts` (in-app),
`auth.service.ts` and `esign.service.ts`.

Each transaction that takes the `Contract` row lock is one action: `SaveDraft`,
`Upload`, `Transition`, `Revise`, `RouteCommit`, `Decide`, `FileExecuted`. What is read
before the lock is a separate step whose result waits in `prep` (routing: `RouteRead`,
`RouteGround`, `RouteCommit`, or `RouteAbort`) or `sign` (signing: `SignCheck`,
`SignPersist`, `SignDispatch`, or `SignAbort`). `seen` is one client's snapshot: `Open`
loads it and the revision-checked operations compare it. The revision stands for what
they build on without reading it again (`View`). Routing and decision are not part of it:
the card path (`workflow.service.ts:96-160` and the insert at 198) changes both without an
increment. It is the module `CardApproval`; here every operation that needs them reads
them under its own lock.

A table keyed by the contract is a set of at most one row. Documents are numbered in
creation order, so the newest non-quarantined one is `latest`; a document that fails the
scan is quarantined and never becomes `latest`, which is why an upload is only the one
that passed. The stages before `drafting` and the negotiation stage lead in through
`Init` (a draft, or an agreed form); negotiation itself is the module `Negotiation`.
Between the decision and the signature stage the model does not distinguish the
mail copy of a card from the in-app one.

That a negotiation begins at "agreed" with the newest document as its form is
`AgreedFormStands` of `Negotiation`.

### AuditLog, AuditChain, AuditVerify

`AuditLog` is what the trail promises: a sequence to which events are appended, each at
most once, and callers that learn of it at once or later.

`AuditChain` is how `audit.service.ts` does it. A call (`record` if it is in `Durable`,
else `recordInTransaction` inside the caller's transaction) opens its transaction
(`Start`), waits for the advisory lock (`Acquire`), answers from a row that is already
there (`AlreadyLanded`) or inserts the next one (`Stage`), and commits (`Commit`). A
commit may land with its answer lost (`CommitLost`), any step may fail (`Fail`), and a
replica may restart (`Restart`), which forgets its memory: `persistDegraded` is the set
`degraded`. A hash is the content it was computed from, so equal hashes mean equal
chains: what is abstracted is the collision resistance of SHA-256, nothing else.

`AuditVerify` adds `verify`, one action per query (count, tip, anchor, the row below
the walked suffix, each page), together with read errors that the code turns into an
answer (`Swallow`) and rows that are removed or rewritten behind the service's back
(`Damage`).

`agreements.service.ts:201-202` records two events in one transaction; the model has
one event per transaction, which is the case of every other caller.

### SignatureRequest

One signature request from the persisted draft to the filed agreement. `creating`
follows `create` past the draft; `row` is the `SignatureRequest` row with its version
column; `envelope` and `emitted` are the provider's side; `answered` the events it got a
2xx for and will not deliver again; `claims` are the events' claims, lock and receipt in
one (`ClaimsHaveOwners`); `job[p]` is what each webhook handler, the
reconciler and the nudge sweep is doing. `Resolve`, `Claim`, `Read`, `Write`,
`Conflict`, `Archive`, `PersistArchive`, `File` and `Release` are the stations of a
handler in the order of the code; `Throw` is what an exception does at each of them;
`Fault` raises one, `Crash` ends the process without any clean-up. The call that failed
may have done its work (`Landed`): the claim is inserted, the row written, the archive
stored or the agreement filed, and only the answer is lost. A claim that was inserted
under a lost answer stays, because it is awaited outside the `try` that would release it
(`esign.service.ts:289`). `stranded` notes the claims that nobody will release: those,
the ones of a handler that died, and the ones whose release failed. `Named` are the
signatories whose address the provider puts into its `signed` events: the code records
a signature only for those, and completion otherwise comes from the `completed` event.

For `AgreementLifecycle` all of this is four steps: an envelope is dispatched or its
creation ends, it resolves, the agreement is filed. `Agreement` instantiates that module
with an agreement whose only form was approved, and `SignsTheAgreement` says that every
step here is one of those steps there or nothing at all. So what `AgreementLifecycle`
assumes of signing is what the concurrent handlers, early events, faults and crashes
modelled here really do. `completeAgreement` is `File` here, against an approval that still stands, and
`FileExecuted` in `AgreementLifecycle`, where the approval may have changed. Archives
that are not PDF occur only outside production and return before filing; they are not
modelled. A lost provider answer (`CreateLost`) leaves an envelope that no event can be
matched to.

### Negotiation

One agreement and its invited guests: `negotiation.service.ts` with the operations of
the other services that create a document or move the stage in the meantime. Documents
and rounds are sequences in the order of creation; a round is the document it shows.

Every transaction under the `Contract` row lock is one action. `invite`, `share` and
`agreed` wait for the AI review and `respond` for the scanner before theirs: `prep` and
`reply` hold what they read. A request of Legal's carries the lifecycle revision; once
that has moved the request can only be refused, so `Bump` forgets it instead of
counting revisions. Access and revocation do not touch the revision, and neither does
`Expire`, the passing of time. `GuestWrite` is `guestWrite`: a guest's call names the
document its page showed, which may be an earlier round's. Comments matter where they
hold up the agreed form; the mail digest of comments is left out, and so are the delivery rows
that inviting, sharing and answering write along: they wait for the mail worker of
`ClaimedWork` and decide nothing here. `Approval` stands for
the approval as a whole, whose steps are in `AgreementLifecycle` and `CardApproval`.

### GuestEntry, GuestAccess

`GuestEntry` is what the door promises: nobody is inside but with a code that was
delivered, asked for under the terms in force, and used once within its attempts; a code
that is replaced, used or withdrawn never opens the door again, and new terms or a closed
door empty the room.

`GuestAccess` is how `guest-auth.service.ts` and `negotiation.service.ts` keep it. `Entry`
maps the version of the grants to the door's terms, the code on record to its one code,
the provider's deliveries to the delivered codes and the sessions to who is inside;
`EntrySpec` is the promise. The module has one invitation: codes, sessions, changes of access and both downloads. `Challenge`
stores a code and `MailAnswered` is the provider, whose answer may say less than what
happened; `ChallengeDone` records it by challenge id, `ChallengeDies` is the process that
stops in between. A download begins under one check (`DownloadBegin`), reads storage and
ends under another (`Serve`); `cut` is a history variable that notes whether what the
download was granted by changed in between. A session is named by the challenge that
opened it and remembers, also for the properties only, the version of the grants at the
time its code was requested. The hourly limits and the comparison of the mail address
only refuse and are left out.

### MailOnce, ClaimedWork

`MailOnce` is what an outbox promises: a mail arrives at most once, and what is said of
it - sent, unknown or dropped - is true. `ClaimedWork` is how the four background
workers keep it: the two outboxes (`guest-delivery`, `request-inbox`), the analysis of
responses and the extraction of commitments. All claim a row by a conditional update with
a fresh token and a lease. `ClaimMail`, `CheckMail`, `Post`, `SettleMail` are the stations
of a mail; `ProviderAccepts` and `ProviderRefuses` happen when the provider pleases, also
after the worker's `TimeOut`; `MailLeaseEnds` and `Sweep` give an interrupted mail up as
uncertain. `ReadJob`, `ClaimJob`, `FinishJob` are those of a job, whose run-out lease lets
another worker take it over (`Takeable`). `Die` loses a worker anywhere. `service` says
which of the four a row belongs to; it decides what calling off (`CallOff`: revocation
for guests, `revise` for approval mails) finds, and how a job is asked for again. A
guest's mail is also given up when the invitation has run out or shows another round at
the second look (`Outdated`). `Post` is one request per claim: the Graph client keeps its
library's default middleware (`graph.client.ts:32`), which may repeat a throttled request
or one that met an unavailable service, and what happens below the client is not
modelled. Every
claim of a mail counts an attempt, so the number of attempts serves as token. Waiting
times are left out: whatever waits may be due.

### CardApproval

One agreement approved by an Outlook card, next to the panel: `requestApproval`, its
rollback, `recordCardAction` and `claimDecision` run without a transaction, so each await
is an action; the panel, saving and revising are one action each. Two calls
of `requestApproval` read, overwrite, mail and put back the same row; a click checks, counts
the panel's cards, inserts and reads the winner in separate steps. Expiry, a lost role,
an enabled policy and a signature row only refuse: leaving them out adds behaviour,
which is sound for the invariants; the counterexample of `card_stale` uses none of them.

### ClientRequests

The request desk: `create` with its replay (`Replay`, `Look`), the choice of a lawyer
under the advisory lock (`ChooseLeastBusy`), the transaction (`Submit`) and its failures
(`SubmitFails`, `AnswerLost`); `update`, `message` and `action`, which read a request
(`Read`), check what they read and admit the change by version (`Change`). The version is
the caller's own, chosen before the request is read and compared with the row only when
the change is made: `Read` takes it from all versions there can be. `Form` is what
each submission sends; two submissions may share a key and differ in content. The number
of a request comes from a database sequence; triage and wording are left out, and a
repeated message is found by its identifier and changes nothing.

## 3. The runs

| Run | Question | Instance | States |
| --- | --- | --- | --- |
| `lifecycle_safety` | Do concurrent edits, routings, decisions, role changes, revisions and signings keep the approval about the right document, and implement the ledger of approvals? | two lawyers (one of them an approver too), two approvers, one by policy, one signing request, `MaxRev = 6` | 1,295,988 |
| `lifecycle_filing` | Is a completed envelope of the approved version always filed? | two signing requests, `MaxRev = 3` | 17,232 |
| `audit_chain` | Do locked, retried appends implement the append-only log, and does each of them come to an end? | three appends on two replicas, two of them durable with two retries | 6,732 |
| `audit_verify` | Is verification right whenever nothing disturbs it? | three appends with one retry, two losses or rewrites, one swallowed read error, a walk bounded to one row, pages of one | 2,660,724 |
| `signature_safety` | Is the row truthful, is no event erased or handled twice at once under concurrent handlers, is a claim that outlives its handler one that was answered or stranded, and does the agreement see only an envelope that is sent, resolved and filed in turn? | two signatories, two handlers, the reconciler, one nudge sweep, early and overlapping deliveries, two attempts per write | 3,415,039 |
| `signature_delivery` | Is a completed request archived and filed, and does every event take effect whose claim was not stranded, in spite of a failing call, a lost process and exhausted write retries? Is every other claim answered or in somebody's hands? | one signatory, one handler, the reconciler, one nudge sweep, one attempt per write, one fault, one crash | 198,753 |
| `negotiation_rounds` | Do guests see Legal's text only, does one response wait at a time, and is the agreed form what was shared and accepted? | two guests, one call of Legal's at a time, one comment, `MaxDocs = 4` | 2,629,729 |
| `guest_access` | Does access implement `GuestEntry`, and do a session stand for the grants of now and a download for grants that did not change under it? | three requests for a code, one download, `MaxAttempts = 2`, two changes of access, two rounds | 1,548,564 |
| `claimed_work` | Does an outbox implement `MailOnce`, do only last claims write, and does everything come to an end? | one mail and one job of any service, two workers, `MaxAttempts = 2`, one retry, two faults | 398,344 |
| `card_approval` | Was every decision routed, and is an agreement at signature only on its panel's approval? | two approvers, two requests, two clicks, `MaxText = 2` | 3,206,709 |
| `card_stale` | (violated) Does the first decision about a document win? | as `card_approval` | to the counterexample |
| `client_requests` | Is a request one per key, whole, assigned in turn, and changed only as it was read, by calls that name no later version? | a submission, its edited repetition, a rival for its document, two other calls that name any version below `MaxVersion = 2` | 808,140 |

States are distinct states, up to the declared symmetry where there is one.

Why the bounds are enough. The lifecycle's interesting case is a whole turn - edit,
review, route, decide, sign - with a second edit or a revision racing it; each turn uses
four revisions, and six leave room for a second one to begin. `MaxRev` only stops new
edits; approval, revision and signing of what is there go on. Two approvers are the
smallest panel in which a count of outstanding cards can be wrong. Three appends give a
row below, a row in the middle and a row above; two replicas are needed for one to know
what the other does not; a bounded walk over one row already has an offset, a row below
it and page boundaries. Two damages let a lost row be committed again, or a rewritten one
be lost; more only repeat them. Two signatories are the fewest for which "all have signed" is
not "one has signed", and two handlers with two attempts reach both a conflict that is
retried and one that exhausts its attempts. The liveness run needs no second signatory
or handler: the nudge sweep is the writer that conflicts with the handler, and the
reconciler the one that competes for the archive; one crash takes the handler away and
leaves the filing to the reconciler, and one fault is enough for a claim whose answer is
lost.

Four documents are two turns: a version of Legal's, a guest's response, Legal's answer and
a response to that, with two guests of whom one responds to, or accepts, what the other's
response has replaced;
calls of Legal's exclude each other by the revision, so one in flight is enough. Three
requests for a code are the code in use, the one that replaces it and one whose late
answer belongs to neither; two changes of access allow one to be made while a code of
the last one is in the mail. Two attempts are the fewest with a retry and a last
attempt; two workers and two faults give a lost worker and one that outlives its lease;
mails do not touch each other, so one is enough, and it is of either service. Two
requests for approval overwrite each other's routing in either order, two texts let a
click be older than the routing it meets. Two keys and three submissions give a
repetition, a conflict and a competition for a document at once; two versions let a call
name the one it read, an earlier one and one that is still to come.

The proofs of section 5 do away with the bounds for every safety property.

Fairness. `FileExecuted` and `ReconcileStart` are weakly fair because the reconciler is
a five-minute cron job. The steps of a started handler are weakly fair because every
call they make has a timeout. An event that was not answered with a 2xx is delivered
again: that is the provider's contract, on which `esign.service.ts:276-296` relies; it is
weak fairness of `Deliver` per event. An append's open attempt moves on because lock,
statement and transaction are bounded by timeouts. In `ClaimedWork` claims and the sweep
are cron jobs that run every minute, a worker's steps end or time out, and leases end;
nothing is expected of the provider, which may never answer. A lease of a worker that
still works need not end. Nothing is assumed of people anywhere: no signatory has to
sign, and in the safety runs nobody has to act at all.

Deadlock is checked except where the system really comes to rest: the signature runs
(all events answered, the agreement filed), `guest_access` (the invitation revoked) and
`claimed_work` (every mail and job settled).

## 4. Findings

`card_stale`: `recordCardAction` checks a click against the routing, the document and
the version, and inserts the decision later, without a lock and without a second look.
A revision in between archives the first decision and frees its unique key, so the click
claims a second, opposite decision about the same document, and both callers are told
that they decided. What the code does keep is in `card_approval`: the decision was routed
to its author for that text (`DecisionWasRouted`), and an agreement at signature has an
approval of its newest text by a member of its panel and no card of the panel left
(`SignatureNeedsThePanel`).

Behaviour the models reach that no statement of the repository speaks against, or that a
property excludes by name:

* A revision fits between the approval check of `EsignService.create` and its insert, and
  `revise` looks for a signature row that is not there yet: an envelope goes out although
  its approval was withdrawn. What is filed is still right, since `completeAgreement`
  checks again (`ExecutedWasApproved`).
* A routing that expires undecided blocks editing, routing, deciding and revising, and
  no operation issues a new card. A refused or expired envelope keeps its unique slot.
* `verify` reads count and tip without a snapshot: an append in between makes it report
  deleted events. After the newest rows are lost, the next append lowers the
  high-water mark (`BuiltOnTruth` excludes it). `persistDegraded` is one process's memory:
  another replica, or a restarted one, attests a trail with a lost event.
* An event that overtakes the storing of the envelope id is answered with success
  (`EarlyBird = TRUE`), a handler that dies keeps its claim (`Crash`), and a redelivery that
  overlaps a failing first delivery is told "duplicate" (`Overlap = TRUE`): in each case
  the event is lost. No crash is needed: when the INSERT of the claim is committed and its
  answer lost, the call throws outside the `try` that would release the claim
  (`jobs.service.ts:40-53`, `esign.service.ts:289`), and the redelivery is a "duplicate".
  `EventsSurviveFaults` excludes exactly the `stranded` claims.
* A failed mail puts the previous routing back even if another request has replaced or
  withdrawn it in the meantime, so an acknowledged routing can vanish.
* A rollback that finds no earlier routing deletes the one it finds, also a panel's that was
  routed meanwhile; the panel's cards stay. A card routed for a later text revives
  them, so that an approval given of an older text counts for the newer one.
  `SignatureNeedsThePanel` therefore says nothing of the text each card was given about.
* A click that is claimed after a revision, or after a rollback, leaves a decision without
  a routing. It blocks editing and routing, and away from the agreed stage `revise` archives a
  decision only together with a routing that is there.
* A click that repeats the person and the verdict of the decision on record is answered as
  the first again, also about another text (`workflow.service.ts:226-237`), and is
  audited again (from line 600 on), although `docs/deployment.md:600-602` says that
  replayed decisions are rejected. No property is about that.
* A letter whose invitation has run out when the worker looks is called off
  (`guest-delivery.service.ts:33`). `access` (`negotiation.service.ts:54-68`) revives the
  guest without a new letter, and a letter may also exhaust its attempts: that every
  guest with access was written to is not promised.
* A call that names the version after the one it reads (`client-request.dto.ts:46-58` takes
  any number; `client-requests.service.ts:160-164`, 186, 212) is admitted when another
  change commits in between, on the lawyer and the status before that change.
  `ChangesWhatWasRead` is about calls that name no later version than they read.
* `revise` does not cancel approval mails that were refused once (`Cancellable`); that
  they are not posted is the second look's merit (`StillWanted`, `CalledOffIsNotMailed`).

## 5. What is proved

Eight modules hold proofs, checked by TLAPS for every value of the constants that meets
the named assumption of the component's module. The bounds of the model-checked
instances - revisions, attempts, faults, versions - are arbitrary numbers there. Each
module proves an inductive invariant `IInv`: the checked properties and what makes
them inductive. Refinements are proved from it action by action.

**AgreementLifecycleProofs.** `RouteInv` (a routing pins the newest document and current
version, and its author is not on the panel), `CardInv` (exactly one card per routed
approver and none without a route), `VerdictInv` (a decision's verdict is that of the
cards), `RoundInv` (a round of the current version is archived only while new bytes are
due, which is what keeps the unique slot of the next round free) and `TokenInv` (the
snapshot's revision is not ahead; `TokenSound` is about what the revision stands for,
not about routing and decision). From it follow `FrozenWhileRouted`, `Unanimous`,
`ExecutedApproved`, `TokenSound`, `SlotFree` and the action property `Final`.

`KeepsLedger` is the refinement of `ApprovalLedger`. It needs what the checked invariants
do not say: `OpenInv` (a round that is not decided holds no refusal, so "nobody is
outstanding" and "everybody approved" are the same), `AgreedInv` (a form the counterparty
agreed has no panel yet) and `SignInv` (a request in flight holds a form that was approved
at some time, in the decision or in an archived round). With `IInv` they show that a form
that awaits its verdict has none in any round (`CurrentUnjudged`) and that archiving moves
a verdict without changing the ledger (`ReviseArchives`). Every action is then one step of
the ledger or none: `Decide` answers for one member, `Revise` withdraws a panel that has
judged - or nothing, when only an agreed form is reopened -, `SignPersist` requests
signatures, also for a form whose approval was withdrawn since it was read.

**AuditProofs.** The argument is the lock: `LockInv` says that exactly the holder
is past it, `StagedInv` that its uncommitted row continues the chain that is still
there, `IdInv` that a row is named after its event, so that a retry finds what an
earlier attempt committed. `Contiguous`, `NeverCollide`, `Once` and `Acked` follow, and
with them `ImplementsLog`: every step appends one new event, confirms one, or leaves the
abstract log alone.

For `verify` a second inductive invariant, `VerifyInv`, stands beside it, since rows may
now be lost or rewritten and the first one no longer holds. `TableInv` and `DraftInv` say
what the table is in spite of that (numbered, each row well formed), `HistoryInv` that
the anchor names the last commit, `ReaderInv` what each query of an undisturbed
verification has seen. Two lemmas about chains carry the theorems. `UndamagedChain`: if no
row is lost or altered, every check succeeds; so `AlarmsAreReal`. `TipVouches`: two chains
whose rows hash themselves and their predecessor, and that end in the same hash, agree
wherever both were walked - by the greatest place at which they differ, which has a
successor at which they agree; so `IntactComplete`, for any damage, walk bound and page
size. Both are about a verification during which nothing was written (`Undisturbed`) and
`IntactComplete` also excludes a commit built on a lost tip (`BuiltOnTruth`); section 4
says what happens otherwise.

**SignatureRequestProofs.** `JobInv` says what each station of a handler may rely on;
its heart is `FreshSnap`: a snapshot with the row's version is the row, so a write that
passes the version check applies its event to what is really there. `ProviderInv` ties
reported events to what signatories did. `Truthful`, `FiledExecuted` and the action
property `NothingErased` follow.

`ClaimsAreOwned` is about the claim, which is a lock while a handler works and a receipt
afterwards. No two jobs work on one event, a working job's event is claimed, and a claim
nobody works on was answered with success or is stranded: its handler died over it, its
release failed, or the answer to its INSERT was lost. Every other failure releases it. One
lemma
per action says what it does to `WorkOn`: it keeps everyone's work (`KeepsWork`), begins
one under a fresh claim, or ends one with an answer or a release.

With
`KnownInv` (a row whose envelope id is stored has left its draft) and `JobInv` (a handler
past `Resolve` works on such a row) `SignsForTheAgreement` maps every step to one of
`AgreementLifecycle` or a stutter.

**NegotiationProofs.** Rounds, responses and documents rise together: `RoundsRise` (a later
round shows a later document), `ResponseInv` (a response is newer than what it answers),
`WaitingInv` (while one waits, nothing newer is shown), `LatestInv` (a newest document that
is not Legal's is a response that waits) and `ReplyInv` (what a guest compares with is no
older than what its page shows). So a response to the newest document finds no other
waiting, and a round created while none waits shows Legal's text. The theorems are
`OnlyLegalIsShared`, `AcceptancesAreOfTheShown`, `AgreedFormIsAccepted`,
`ResponsesTakeTurns` and `ComparisonsAreFair`.

**GuestAccessProofs.** `CodeInv` (the code on record was requested under the grants of
now) carries the version of the grants from the request into the session; `MailedInv`
(who heard of a delivery was right) carries the provider's answer into the row; `ReadInv`
says that a download that was cut into can tell. `SessionsAreCurrent`, `CodesWereMailed`
(only a delivered code counts as sent) and the action property `DownloadsAreWhole` follow.
`KeepsDoor` is the refinement of `GuestEntry`: a request replaces the code, the provider's
answer delivers one or none, a wrong guess counts and a right one uses the code up - both
only at a code that was delivered, which is what `CodesWereMailed` gives them -, changes of
access and revocation are new terms, and what remains is behind the door.

**ClaimedWorkProofs.** `ClaimInv` (one worker at most is at a mail, it made its last
claim, and the row is that claim's until its fate is declared unknown), `RequestInv` (one
request at most, made by the last claim, and none once the row waits again), `AnswerInv`
(what a worker knows of its request) and `GoneInv` (a checked claim is older than the
calling off). `CalledOffStaysUnsent` and `LastClaimDecides` follow, and the refinement
`KeepsMailOnce`: every step reports the fate of a set of open mails, lets one mail
arrive, or shows nothing.

**CardApprovalProofs.** Requests and clicks act on what they read long ago, so the
invariant follows a routing into every place where it is kept: the row (`RowInv`), what a
request would put back (`PreviousInv`) and what a click was checked for (`ClickInv`).
`RoutedDecision` follows. `SignatureIsThePanels` is carried from it step by step
(`SignatureStep`): without a decision on record the agreement is not at signature, and with
one only a revision moves its stage or its text, so it is the conclusion of the panel that
has to be right.

**ClientRequestsProofs.** `LockInv` (whoever has chosen automatically holds the lock, and
nothing was assigned since), `ReadInv` (a version that was read names what the row said; the version a call
carries says nothing, being the client's) and `OwnerInv`
(documents are claimed only for what is stored). `DocumentsStayTogether`,
`AnswersAreTheirOwn` and the action properties `AssignmentsTakeTurns` and
`ChangesAreInformed` follow.

Every proof module also proves its `TypeOK` (`TypeCorrect`); these theorems stand in for a
check of the type invariants in the runs.

Only model-checked: liveness (`CompletedIsFiled` of both modules, `EveryAppendSettles`,
`EventsSurviveFaults`, `EverythingSettles`), which needs fairness and ENABLED; and
`FirstDecisionWins`, for which the counterexample is the result.

## 6. Not modelled, and why

The map covers the services that carry the protocol of the system nearly whole, and
about a ninth of all implementation lines. The rest of the lines are the web client,
document parsing and OCR, AI prompts, report and file formats, search and embeddings,
configuration and telemetry: sequential transformations and presentation, with no state
that two actors share. Of the parts that keep state:

* **Jobs**: pruning of old claims (30 days, when no provider redelivers any more) and
  retries with in-memory dead letters, which nothing else reads.
* **Obligation reminders and digests**: a scheduled digest inserts the unique key of its run
  and sends; the list it sends is composed by reading.
* **Approval policies**: their administration; a policy is a constant of `AgreementLifecycle`.
* **Users**: login, Entra synchronisation and tokens; removing a role is modelled.
* **Intake numbers**: `nextval` is atomic; a taken number is skipped.
* **Attachments**: their upload, which adds an unclaimed document under a daily limit; what
  becomes of uploaded documents is in `ClientRequests`.
* **Contracts, repository, workspace**: single-statement updates and aggregation.
* **Audit**: export, listing, and the in-memory chain of a deployment without a database.
* **Storage**: modelled by the integrity checks of its callers.

What a further extension could add: abstract specifications of the negotiation and of
client requests, and the hourly limits of guest access as a counter.
