----------------------------- MODULE ClaimedWork -----------------------------
(***************************************************************************)
(* The background workers: mails to guests (GuestDeliveryService) and to   *)
(* colleagues (RequestInboxService), the analysis of counterparty responses*)
(* (RoundAnalysisService) and the extraction of commitments from a filed   *)
(* agreement (ObligationExtractionService).                                *)
(*                                                                         *)
(* All of them take a row by a conditional update that stores a fresh claim*)
(* token and a lease, work without a lock, and store the outcome if their  *)
(* token is still there.  They differ in what a run-out lease means: a mail*)
(* may have gone out, so it is never tried again; an analysis is taken over*)
(* by another worker.                                                      *)
(*                                                                         *)
(* Every claim of a mail counts an attempt, so the number of attempts is   *)
(* the claim's token; the claims of a job are numbered for the same end.   *)
(* Waiting times (nextAttemptAt, the minute between retries) are left out: *)
(* whatever waits may be due.                                              *)
(***************************************************************************)
EXTENDS Naturals, FiniteSets

CONSTANTS
  Mails,                       \* GuestDelivery and RequestNotification rows
  Jobs,                        \* NegotiationAnalysis and ObligationExtraction rows
  Workers,                     \* the crons' runs, on any replica
  None,                        \* no task
  MaxAttempts,                 \* claims of a mail (5 in the code)
  MaxRetries,                  \* bound: requests to try a job again
  MaxFaults                    \* bound: lost processes, and workers slower than their lease

ASSUME ClaimedAssumption ==
  /\ Mails \cap Jobs = {}
  /\ None \notin Mails \cup Jobs
  /\ MaxAttempts \in Nat \ {0} /\ MaxRetries \in Nat /\ MaxFaults \in Nat

VARIABLES
  service,    \* which of the services a row belongs to; it never changes
  mail,       \* the delivery's row
  gone,       \* 0, or one more than the attempts made when the mail was called off
  job,        \* the analysis' or extraction's row
  worker,     \* what each worker is doing
  posts,      \* requests the provider has not decided on
  accepted,   \* requests the provider has accepted
  faults

mailVars == <<service, mail, gone, posts, accepted>>
vars == <<mailVars, job, worker, faults>>

Services == {"guest", "inbox", "analysis", "extraction"}
Waiting == {"queued", "retry"}
Idle == [task |-> None, token |-> 0, step |-> "idle", answer |-> "none"]
Request(m, t) == [mail |-> m, claim |-> t]
RequestOf(w) == Request(worker[w].task, worker[w].token)

Init ==
  /\ service \in {f \in [Mails \cup Jobs -> Services] :
                   /\ \A m \in Mails : f[m] \in {"guest", "inbox"}
                   /\ \A j \in Jobs : f[j] \in {"analysis", "extraction"}}
  /\ mail = [m \in Mails |-> [status |-> "queued", attempts |-> 0, token |-> 0, leased |-> FALSE]]
  /\ gone = [m \in Mails |-> 0]
  /\ job = [j \in Jobs |-> [status |-> "queued", token |-> 0, leased |-> FALSE, rev |-> 0,
                            claims |-> 0, writer |-> 0, retries |-> 0]]
  /\ worker = [w \in Workers |-> Idle]
  /\ posts = {} /\ accepted = {} /\ faults = 0

At(w, step) == worker[w].step = step
Goes(w, step) == worker' = [worker EXCEPT ![w].step = step]
Rests(w) == worker' = [worker EXCEPT ![w] = Idle]

-----------------------------------------------------------------------------
(* Mails *)

Claimable(m) == mail[m].status \in Waiting /\ mail[m].attempts < MaxAttempts

ClaimMail(w, m) ==
  /\ At(w, "idle") /\ Claimable(m)
  /\ mail' = [mail EXCEPT ![m] = [status |-> "sending", attempts |-> mail[m].attempts + 1,
                                  token |-> mail[m].attempts + 1, leased |-> TRUE]]
  /\ worker' = [worker EXCEPT ![w] = [task |-> m, token |-> mail[m].attempts + 1,
                                      step |-> "claimed", answer |-> "none"]]
  /\ UNCHANGED <<service, gone, job, posts, accepted, faults>>

Holds(w) == mail[worker[w].task].token = worker[w].token

WantedAnyway(m) == TRUE
StillWanted(m) == gone[m] = 0

(* A guest's mail is also given up when the invitation has run out, or shows another
   round, by the time of the second look; either may happen to any guest's. *)
Outdated(m) == ~StillWanted(m) \/ service[m] = "guest"

(* The row is read again: lost claims are left, called-off mails are given up. *)
CheckMail(w) ==
  LET m == worker[w].task IN
  /\ At(w, "claimed")
  /\ \/ /\ Holds(w) /\ StillWanted(m)
        /\ Goes(w, "checked")
        /\ UNCHANGED mail
     \/ /\ Holds(w) /\ Outdated(m)
        /\ mail' = [mail EXCEPT ![m] = [@ EXCEPT !.token = 0,
                      !.status = IF service[m] = "guest" THEN "cancelled" ELSE "retry",
                      !.attempts = IF service[m] = "guest" THEN mail[m].attempts
                                   ELSE MaxAttempts]]
        /\ Rests(w)
     \/ /\ ~Holds(w)
        /\ Rests(w)
        /\ UNCHANGED mail
  /\ UNCHANGED <<service, gone, job, posts, accepted, faults>>

(* One request per claim.  The Graph client is built with its library's default
   middleware (graph.client.ts:32), which may repeat a request that was throttled or
   met an unavailable service; repetitions below the client are outside this model. *)
Post(w) ==
  /\ At(w, "checked")
  /\ posts' = posts \cup {RequestOf(w)}
  /\ Goes(w, "waiting")
  /\ UNCHANGED <<service, mail, gone, job, accepted, faults>>

(* The provider decides; its answer reaches whoever still waits for it, or is lost.
   A refusal is one only when the status code says so. *)
Answers(p, answer) ==
  worker' = [w \in Workers |->
               IF At(w, "waiting") /\ RequestOf(w) = p /\ answer # "none"
               THEN [worker[w] EXCEPT !.step = "answered", !.answer = answer]
               ELSE worker[w]]

ProviderAccepts(p, answer) ==
  /\ p \in posts
  /\ posts' = posts \ {p} /\ accepted' = accepted \cup {p}
  /\ Answers(p, answer)
  /\ UNCHANGED <<service, mail, gone, job, faults>>

ProviderRefuses(p, answer) ==
  /\ p \in posts
  /\ posts' = posts \ {p}
  /\ Answers(p, answer)
  /\ UNCHANGED <<service, mail, gone, job, accepted, faults>>

(* Thirty seconds without an answer: the mail may still be accepted. *)
TimeOut(w) ==
  /\ At(w, "waiting")
  /\ Goes(w, "answered")
  /\ UNCHANGED <<mailVars, job, faults>>

StatusRetried(answer) == IF answer = "sent" THEN "sent" ELSE "retry"
StatusAfter(answer) ==
  CASE answer = "sent" -> "sent" [] answer = "refused" -> "retry" [] OTHER -> "uncertain"

SettleMail(w) ==
  LET m == worker[w].task IN
  /\ At(w, "answered")
  /\ mail' = IF Holds(w) /\ mail[m].status = "sending"
             THEN [mail EXCEPT ![m] = [@ EXCEPT !.status = StatusAfter(worker[w].answer),
                                                !.token = 0, !.leased = FALSE]]
             ELSE mail
  /\ Rests(w)
  /\ UNCHANGED <<service, gone, job, posts, accepted, faults>>

MailLeaseEnds(m) ==
  /\ mail[m].status = "sending" /\ mail[m].leased
  /\ mail' = [mail EXCEPT ![m].leased = FALSE]
  /\ UNCHANGED <<service, gone, job, worker, posts, accepted, faults>>

Interrupted == {m \in Mails : mail[m].status = "sending" /\ ~mail[m].leased}

Sweep ==
  /\ Interrupted # {}
  /\ mail' = [m \in Mails |-> IF m \in Interrupted
                              THEN [mail[m] EXCEPT !.status = "uncertain", !.token = 0]
                              ELSE mail[m]]
  /\ UNCHANGED <<service, gone, job, worker, posts, accepted, faults>>

(* revoke cancels every waiting delivery of a guest; revise cancels the waiting
   approval mails but does not know those that were refused once. *)
Cancellable(m) == IF service[m] = "guest" THEN Waiting ELSE {"queued"}

CallOff(m) ==
  /\ gone[m] = 0
  /\ gone' = [gone EXCEPT ![m] = mail[m].attempts + 1]
  /\ mail' = IF mail[m].status \in Cancellable(m)
             THEN [mail EXCEPT ![m].status = "cancelled"] ELSE mail
  /\ UNCHANGED <<service, job, worker, posts, accepted, faults>>

-----------------------------------------------------------------------------
(* Analyses and extractions *)

QueuedOnly(j) == job[j].status = "queued"
Takeable(j) == job[j].status = "queued" \/ (job[j].status = "processing" /\ ~job[j].leased)

ReadJob(w, j) ==
  /\ At(w, "idle") /\ Takeable(j)
  /\ worker' = [worker EXCEPT ![w] = [task |-> j, token |-> job[j].rev, step |-> "found",
                                      answer |-> "none"]]
  /\ UNCHANGED <<mailVars, job, faults>>

(* The claim applies to the row as it was read: status, token and update time. *)
AsRead(w) == job[worker[w].task].rev = worker[w].token

ClaimJob(w) ==
  LET j == worker[w].task IN
  /\ At(w, "found")
  /\ \/ /\ AsRead(w)
        /\ job' = [job EXCEPT ![j] = [@ EXCEPT !.status = "processing", !.leased = TRUE,
                     !.token = job[j].claims + 1, !.claims = job[j].claims + 1,
                     !.rev = job[j].rev + 1]]
        /\ worker' = [worker EXCEPT ![w] = [@ EXCEPT !.step = "working",
                                                     !.token = job[j].claims + 1]]
     \/ /\ ~AsRead(w)
        /\ Rests(w)
        /\ UNCHANGED job
  /\ UNCHANGED <<mailVars, faults>>

HoldsAnyway(w) == TRUE
HoldsJob(w) == job[worker[w].task].token = worker[w].token

(* The result, or the failure, is stored if the claim is still the row's own. *)
FinishJob(w, status) ==
  LET j == worker[w].task IN
  /\ At(w, "working")
  /\ job' = IF HoldsJob(w)
            THEN [job EXCEPT ![j] = [@ EXCEPT !.status = status, !.token = 0, !.leased = FALSE,
                             !.rev = job[j].rev + 1, !.writer = worker[w].token]]
            ELSE job
  /\ Rests(w)
  /\ UNCHANGED <<mailVars, faults>>

AtWork(j) == \E w \in Workers : At(w, "working") /\ worker[w].task = j /\ HoldsJob(w)

(* After a death, or while the worker is still at it. *)
JobLeaseEnds(j) ==
  /\ job[j].leased
  /\ job' = [job EXCEPT ![j].leased = FALSE]
  /\ IF AtWork(j) THEN faults < MaxFaults /\ faults' = faults + 1 ELSE UNCHANGED faults
  /\ UNCHANGED <<mailVars, worker>>

(* Legal asks again.  The claim of a worker that outlived its lease stays. *)
RetryJob(j) ==
  /\ IF service[j] = "analysis" THEN job[j].status # "processing" ELSE ~job[j].leased
  /\ job[j].status # "queued" /\ job[j].retries < MaxRetries
  /\ job' = [job EXCEPT ![j] = [@ EXCEPT !.status = "queued", !.rev = job[j].rev + 1,
                                          !.retries = job[j].retries + 1]]
  /\ UNCHANGED <<mailVars, worker, faults>>

(* The process dies: the row keeps its claim, a posted mail stays posted. *)
Die(w) ==
  /\ ~At(w, "idle") /\ faults < MaxFaults
  /\ faults' = faults + 1
  /\ Rests(w)
  /\ UNCHANGED <<mailVars, job>>

-----------------------------------------------------------------------------

WorkerStep(w) ==
  \/ CheckMail(w) \/ Post(w) \/ TimeOut(w) \/ SettleMail(w) \/ ClaimJob(w)
  \/ \E status \in {"complete", "failed"} : FinishJob(w, status)

Provider ==
  \E p \in posts :
    \/ \E answer \in {"sent", "none"} : ProviderAccepts(p, answer)
    \/ \E answer \in {"refused", "none"} : ProviderRefuses(p, answer)

MailSteps(m) ==
  (\E w \in Workers : ClaimMail(w, m)) \/ MailLeaseEnds(m) \/ CallOff(m)

JobSteps(j) ==
  (\E w \in Workers : ReadJob(w, j)) \/ JobLeaseEnds(j) \/ RetryJob(j)

Next ==
  \/ \E w \in Workers : WorkerStep(w) \/ Die(w)
  \/ Provider \/ Sweep
  \/ \E m \in Mails : MailSteps(m)
  \/ \E j \in Jobs : JobSteps(j)

Spec == Init /\ [][Next]_vars

(* The crons run every minute, a worker's steps end or time out, and time passes;
   nothing is expected of the provider. *)
Fairness ==
  /\ \A w \in Workers : WF_vars(WorkerStep(w))
  /\ \A m \in Mails : WF_vars(\E w \in Workers : ClaimMail(w, m)) /\ WF_vars(MailLeaseEnds(m))
  /\ \A j \in Jobs : WF_vars(\E w \in Workers : ReadJob(w, j))
                      /\ WF_vars(JobLeaseEnds(j) /\ ~AtWork(j))
  /\ WF_vars(Sweep)

FairSpec == Spec /\ Fairness

-----------------------------------------------------------------------------
(* Properties *)

Row == [status: Waiting \cup {"sending", "sent", "uncertain", "cancelled"},
        attempts: 0..MaxAttempts, token: 0..MaxAttempts, leased: BOOLEAN]

TypeOK ==
  /\ service \in [Mails \cup Jobs -> Services]
  /\ mail \in [Mails -> Row]
  /\ gone \in [Mails -> Nat]
  /\ job \in [Jobs -> [status: {"queued", "processing", "complete", "failed"},
                        token: Nat, leased: BOOLEAN, rev: Nat, claims: Nat, writer: Nat,
                        retries: Nat]]
  /\ worker \in [Workers -> [task: Mails \cup Jobs \cup {None}, token: Nat,
                              step: {"idle", "claimed", "checked", "waiting", "answered",
                                     "found", "working"},
                              answer: {"none", "sent", "refused"}]]
  /\ posts \in SUBSET [mail: Mails, claim: Nat]
  /\ accepted \in SUBSET [mail: Mails, claim: Nat]
  /\ faults \in Nat

Arrived(m) == {p \in accepted : p.mail = m}

Verdict(m) ==
  CASE mail[m].status = "sent" -> "sent"
    [] mail[m].status = "uncertain" -> "unknown"
    [] mail[m].status = "cancelled" -> "dropped"
    [] mail[m].status = "retry" /\ mail[m].attempts = MaxAttempts -> "dropped"
    [] OTHER -> "open"

(* The outboxes keep what MailOnce promises, with lost workers, lost answers, late
   acceptance and two workers on one row: no mail arrives twice, a mail said to be
   sent has arrived, and one that is given up has not. *)
Once == INSTANCE MailOnce WITH arrived <- [m \in Mails |-> Cardinality(Arrived(m))],
                               verdict <- [m \in Mails |-> Verdict(m)]
MailOnceSpec == Once!Spec

(* A mail that was called off is not posted by any claim made after that, although
   revise overlooks the approval mails that were refused once. *)
CalledOffIsNotMailed ==
  \A p \in posts \cup accepted : gone[p.mail] # 0 => p.claim < gone[p.mail]

(* The outcome on record is that of the last worker that took the job, whatever
   earlier workers still try to store. *)
LastClaimWrites ==
  \A j \in Jobs : job[j].status \in {"complete", "failed"} => job[j].writer = job[j].claims

(* In the end no mail is being sent or waits for an attempt it may still make, and
   every job has an outcome. *)
EverythingSettles ==
  /\ \A m \in Mails : <>[](mail[m].status # "sending" /\ ~Claimable(m))
  /\ \A j \in Jobs : <>[](job[j].status \in {"complete", "failed"})
=============================================================================
