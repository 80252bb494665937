-------------------------- MODULE ClaimedWorkProofs --------------------------
(***************************************************************************)
(* The safety of the workers, and that the outboxes keep what MailOnce     *)
(* promises, for any number of mails, jobs and workers.  The invariant     *)
(* says who may still be at a mail: one worker at most, one request at     *)
(* most, and neither once the row waits to be claimed again.               *)
(***************************************************************************)
EXTENDS ClaimedWork, FiniteSetTheorems, TLAPS

Requests(m) == {p \in posts \cup accepted : p.mail = m}

(* A worker's step is one of its task's. *)
StepInv ==
  \A w \in Workers :
    /\ worker[w].task \in Mails =>
         worker[w].step \in {"claimed", "checked", "waiting", "answered"}
    /\ worker[w].task \in Jobs =>
         /\ worker[w].step \in {"found", "working"}
         /\ worker[w].step = "working" => worker[w].token # 0
    /\ worker[w].task = None => worker[w].step = "idle"

(* A worker at a mail made its last claim, and the row is the claim's own until
   the mail's fate is declared unknown. *)
ClaimInv ==
  /\ \A w \in Workers, m \in Mails : worker[w].task = m =>
       /\ worker[w].token = mail[m].attempts /\ worker[w].token # 0
       /\ mail[m].status \in {"sending", "uncertain"}
       /\ mail[m].status = "sending" => mail[m].token = worker[w].token
  /\ \A m \in Mails : mail[m].status = "uncertain" => mail[m].token = 0
  /\ \A v, w \in Workers : worker[v].task \in Mails /\ worker[v].task = worker[w].task => v = w

(* A request was made by the last claim; it is undecided, or accepted, not both. *)
RequestInv ==
  /\ \A p \in posts : /\ p.claim = mail[p.mail].attempts
                      /\ mail[p.mail].status \in {"sending", "uncertain"}
  /\ \A p \in accepted : /\ p.claim = mail[p.mail].attempts
                         /\ mail[p.mail].status \in {"sending", "uncertain", "sent"}
  /\ \A p \in posts, q \in accepted : p.mail # q.mail
  /\ \A m \in Mails : mail[m].status = "sent" => \E p \in accepted : p.mail = m

(* What a worker knows of its request. *)
AnswerInv ==
  \A w \in Workers, m \in Mails : worker[w].task = m =>
    /\ worker[w].step \in {"claimed", "checked", "waiting"} => worker[w].answer = "none"
    /\ worker[w].step \in {"claimed", "checked"} => Requests(m) = {}
    /\ worker[w].step = "answered" /\ worker[w].answer = "refused" => Requests(m) = {}
    /\ worker[w].step = "answered" /\ worker[w].answer = "sent" =>
         \E p \in accepted : p.mail = m

(* A checked claim is older than the mail's calling off. *)
GoneInv ==
  \A w \in Workers, m \in Mails :
    worker[w].task = m /\ worker[w].step = "checked" /\ gone[m] # 0 => worker[w].token < gone[m]

(* The token of a job is that of its last claim. *)
JobInv == \A j \in Jobs : job[j].token \in {0, job[j].claims}

IInv ==
  /\ TypeOK /\ StepInv /\ ClaimInv /\ RequestInv /\ AnswerInv /\ GoneInv /\ JobInv
  /\ CalledOffIsNotMailed /\ LastClaimWrites

JobType == [status: {"queued", "processing", "complete", "failed"}, token: Nat,
            leased: BOOLEAN, rev: Nat, claims: Nat, writer: Nat, retries: Nat]
WorkerType == [task: Mails \cup Jobs \cup {None}, token: Nat,
               step: {"idle", "claimed", "checked", "waiting", "answered", "found", "working"},
               answer: {"none", "sent", "refused"}]
RequestType == [mail: Mails, claim: Nat]

(* The type invariant in parts: the mails, the jobs and the workers. *)
MailTypes ==
  /\ service \in [Mails \cup Jobs -> Services]
  /\ mail \in [Mails -> Row] /\ gone \in [Mails -> Nat]
  /\ posts \in SUBSET RequestType /\ accepted \in SUBSET RequestType
JobTypes == job \in [Jobs -> JobType]
WorkTypes == worker \in [Workers -> WorkerType] /\ faults \in Nat

LEMMA Typed == TypeOK <=> MailTypes /\ JobTypes /\ WorkTypes
  BY DEF TypeOK, MailTypes, JobTypes, WorkTypes, JobType, WorkerType, RequestType

LEMMA TypedNext == MailTypes' /\ JobTypes' /\ WorkTypes' => TypeOK'
  BY DEF TypeOK, MailTypes, JobTypes, WorkTypes, JobType, WorkerType, RequestType

LEMMA IdleFacts ==
  /\ Idle \in WorkerType /\ Idle.task = None /\ Idle.step = "idle"
  /\ None \notin Mails /\ None \notin Jobs /\ Mails \cap Jobs = {}
  BY ClaimedAssumption DEF Idle, WorkerType

LEMMA InitInv == Init => IInv
<1> SUFFICES ASSUME Init PROVE IInv
  OBVIOUS
<1>1. \A w \in Workers : worker[w] = Idle
  BY DEF Init
<1>2. \A m \in Mails : mail[m].status = "queued"
  BY DEF Init
<1>3. posts = {} /\ accepted = {}
  BY DEF Init
<1>4. \A j \in Jobs : job[j].status = "queued" /\ job[j].token = 0
  BY DEF Init
<1>5. MailTypes
  <2>1. 0 \in 0..MaxAttempts
    BY ClaimedAssumption
  <2>2. mail \in [Mails -> Row]
    BY <2>1 DEF Init, Row, Waiting
  <2>3. service \in [Mails \cup Jobs -> Services] /\ gone \in [Mails -> Nat]
    BY DEF Init
  <2> QED
    BY <1>3, <2>2, <2>3 DEF MailTypes
<1>6. JobTypes /\ WorkTypes
  BY IdleFacts DEF Init, JobTypes, WorkTypes, JobType
<1>7. TypeOK
  BY <1>5, <1>6, Typed
<1>8. StepInv /\ ClaimInv /\ AnswerInv /\ GoneInv
  BY <1>1, <1>2, IdleFacts DEF StepInv, ClaimInv, AnswerInv, GoneInv
<1>9. RequestInv /\ JobInv /\ CalledOffIsNotMailed /\ LastClaimWrites
  BY <1>2, <1>3, <1>4 DEF RequestInv, JobInv, CalledOffIsNotMailed, LastClaimWrites
<1> QED
  BY <1>7, <1>8, <1>9 DEF IInv

-----------------------------------------------------------------------------
(* Jobs *)

(* What is done elsewhere leaves the mails' part of the invariant alone. *)
LEMMA Bystanders ==
  ASSUME IInv, UNCHANGED mailVars,
         \A w \in Workers : worker'[w] = worker[w] \/ worker'[w].task \notin Mails
  PROVE  MailTypes' /\ ClaimInv' /\ RequestInv' /\ AnswerInv' /\ GoneInv' /\ CalledOffIsNotMailed'
<1>1. /\ service' = service /\ mail' = mail /\ gone' = gone /\ posts' = posts
      /\ accepted' = accepted
  BY DEF mailVars
<1>2. MailTypes'
  BY <1>1, Typed DEF IInv, MailTypes
<1>3. ClaimInv'
  BY <1>1 DEF IInv, ClaimInv
<1>4. RequestInv' /\ CalledOffIsNotMailed'
  BY <1>1 DEF IInv, RequestInv, CalledOffIsNotMailed
<1>5. AnswerInv'
  BY <1>1 DEF IInv, AnswerInv, Requests
<1>6. GoneInv'
  BY <1>1 DEF IInv, GoneInv
<1> QED
  BY <1>2, <1>3, <1>4, <1>5, <1>6

LEMMA ReadJobStep ==
  ASSUME IInv, NEW w \in Workers, NEW j \in Jobs, ReadJob(w, j)
  PROVE  IInv'
<1> DEFINE new == [task |-> j, token |-> job[j].rev, step |-> "found", answer |-> "none"]
<1>1. UNCHANGED mailVars /\ job' = job /\ faults' = faults /\ worker' = [worker EXCEPT ![w] = new]
  BY DEF ReadJob
<1>2. job[j].rev \in Nat /\ j \notin Mails /\ j # None
  BY IdleFacts DEF IInv, TypeOK
<1>3. new \in WorkerType /\ new.task = j /\ new.step = "found"
  BY <1>2 DEF WorkerType
<1>4. /\ worker' \in [Workers -> WorkerType] /\ worker'[w] = new
      /\ \A v \in Workers \ {w} : worker'[v] = worker[v]
  BY <1>1, <1>3, Typed DEF IInv, WorkTypes
<1> HIDE DEF new
<1>5. MailTypes' /\ ClaimInv' /\ RequestInv' /\ AnswerInv' /\ GoneInv' /\ CalledOffIsNotMailed'
  BY <1>1, <1>2, <1>3, <1>4, Bystanders
<1>6. JobTypes' /\ WorkTypes'
  BY <1>1, <1>4, Typed DEF IInv, JobTypes, WorkTypes
<1>7. StepInv'
  BY <1>2, <1>3, <1>4 DEF IInv, StepInv
<1>8. JobInv' /\ LastClaimWrites'
  BY <1>1 DEF IInv, JobInv, LastClaimWrites
<1> QED
  BY <1>5, <1>6, <1>7, <1>8, TypedNext DEF IInv

LEMMA ClaimJobStep ==
  ASSUME IInv, NEW w \in Workers, ClaimJob(w)
  PROVE  IInv'
<1> DEFINE j == worker[w].task
<1>1. UNCHANGED mailVars /\ faults' = faults /\ worker[w].step = "found"
  BY DEF ClaimJob, At
<1>2. worker[w] \in WorkerType /\ j \in Jobs /\ j \notin Mails /\ j # None
  <2>1. worker[w] \in WorkerType
    BY Typed DEF IInv, WorkTypes
  <2> QED
    BY <1>1, <2>1, IdleFacts DEF IInv, StepInv, WorkerType
<1>3. CASE ~AsRead(w)
  <2>1. job' = job /\ worker' = [worker EXCEPT ![w] = Idle]
    BY <1>3 DEF ClaimJob, Rests
  <2>2. /\ worker' \in [Workers -> WorkerType] /\ worker'[w] = Idle
        /\ \A v \in Workers \ {w} : worker'[v] = worker[v]
    BY <2>1, IdleFacts, Typed DEF IInv, WorkTypes
  <2>3. MailTypes' /\ ClaimInv' /\ RequestInv' /\ AnswerInv' /\ GoneInv' /\ CalledOffIsNotMailed'
    BY <1>1, <2>2, IdleFacts, Bystanders
  <2>4. JobTypes' /\ WorkTypes'
    BY <1>1, <2>1, <2>2, Typed DEF IInv, JobTypes, WorkTypes
  <2>5. StepInv'
    BY <2>2, IdleFacts DEF IInv, StepInv
  <2>6. JobInv' /\ LastClaimWrites'
    BY <2>1 DEF IInv, JobInv, LastClaimWrites
  <2> QED
    BY <2>3, <2>4, <2>5, <2>6, TypedNext DEF IInv
<1>4. CASE AsRead(w)
  <2> DEFINE n == job[j].claims + 1
             taken == [job[j] EXCEPT !.status = "processing", !.leased = TRUE,
                                     !.token = n, !.claims = n, !.rev = job[j].rev + 1]
             new == [worker[w] EXCEPT !.step = "working", !.token = n]
  <2>1. job' = [job EXCEPT ![j] = taken] /\ worker' = [worker EXCEPT ![w] = new]
    BY <1>4 DEF ClaimJob
  <2>2. job[j] \in JobType /\ n \in Nat /\ n # 0 /\ job[j].rev + 1 \in Nat
    BY <1>2, Typed DEF IInv, JobTypes, JobType
  <2> HIDE DEF n
  <2>3. /\ taken \in JobType /\ taken.status = "processing"
        /\ taken.token = n /\ taken.claims = n
    BY <2>2 DEF JobType
  <2>4. new \in WorkerType /\ new.task = j /\ new.step = "working" /\ new.token = n
    BY <1>2, <2>2 DEF WorkerType
  <2> HIDE DEF taken, new
  <2>5. /\ worker' \in [Workers -> WorkerType] /\ worker'[w] = new
        /\ \A v \in Workers \ {w} : worker'[v] = worker[v]
    BY <2>1, <2>4, Typed DEF IInv, WorkTypes
  <2>6. /\ job' \in [Jobs -> JobType] /\ job'[j] = taken
        /\ \A i \in Jobs \ {j} : job'[i] = job[i]
    BY <1>2, <2>1, <2>3, Typed DEF IInv, JobTypes
  <2>7. MailTypes' /\ ClaimInv' /\ RequestInv' /\ AnswerInv' /\ GoneInv' /\ CalledOffIsNotMailed'
    BY <1>1, <1>2, <2>4, <2>5, Bystanders
  <2>8. JobTypes' /\ WorkTypes'
    BY <1>1, <2>5, <2>6, Typed DEF IInv, JobTypes, WorkTypes
  <2>9. StepInv'
    BY <1>2, <2>2, <2>4, <2>5 DEF IInv, StepInv
  <2>10. JobInv' /\ LastClaimWrites'
    BY <2>3, <2>6 DEF IInv, JobInv, LastClaimWrites
  <2> QED
    BY <2>7, <2>8, <2>9, <2>10, TypedNext DEF IInv
<1> QED
  BY <1>3, <1>4

LEMMA FinishJobStep ==
  ASSUME IInv, NEW w \in Workers, NEW status \in {"complete", "failed"}, FinishJob(w, status)
  PROVE  IInv'
<1> DEFINE j == worker[w].task
<1>1. /\ UNCHANGED mailVars /\ faults' = faults /\ worker[w].step = "working"
      /\ worker' = [worker EXCEPT ![w] = Idle]
  BY DEF FinishJob, At, Rests
<1>2. worker[w] \in WorkerType /\ j \in Jobs /\ worker[w].token # 0
  <2>1. worker[w] \in WorkerType
    BY Typed DEF IInv, WorkTypes
  <2> QED
    BY <1>1, <2>1 DEF IInv, StepInv, WorkerType
<1>3. /\ worker' \in [Workers -> WorkerType] /\ worker'[w] = Idle
      /\ \A v \in Workers \ {w} : worker'[v] = worker[v]
  BY <1>1, IdleFacts, Typed DEF IInv, WorkTypes
<1>4. MailTypes' /\ ClaimInv' /\ RequestInv' /\ AnswerInv' /\ GoneInv' /\ CalledOffIsNotMailed'
  BY <1>1, <1>3, IdleFacts, Bystanders
<1>5. WorkTypes' /\ StepInv'
  BY <1>1, <1>3, IdleFacts, Typed DEF IInv, WorkTypes, StepInv
<1>6. JobTypes' /\ JobInv' /\ LastClaimWrites'
  <2>1. CASE ~HoldsJob(w)
    <3>1. job' = job
      BY <2>1 DEF FinishJob
    <3> QED
      BY <3>1, Typed DEF IInv, JobTypes, JobInv, LastClaimWrites
  <2>2. CASE HoldsJob(w)
    <3> DEFINE done == [job[j] EXCEPT !.status = status, !.token = 0, !.leased = FALSE,
                                      !.rev = job[j].rev + 1, !.writer = worker[w].token]
    <3>1. job' = [job EXCEPT ![j] = done]
      BY <2>2 DEF FinishJob
    <3>2. job[j] \in JobType /\ job[j].rev + 1 \in Nat /\ worker[w].token \in Nat
      BY <1>2, Typed DEF IInv, JobTypes, JobType, WorkerType
    <3>3. worker[w].token = job[j].claims
      BY <1>2, <2>2 DEF HoldsJob, IInv, JobInv
    <3>4. /\ done \in JobType /\ done.token = 0 /\ done.writer = worker[w].token
          /\ done.claims = job[j].claims
      BY <3>2 DEF JobType
    <3> HIDE DEF done
    <3>5. /\ job' \in [Jobs -> JobType] /\ job'[j] = done
          /\ \A i \in Jobs \ {j} : job'[i] = job[i]
      BY <1>2, <3>1, <3>4, Typed DEF IInv, JobTypes
    <3> QED
      BY <3>3, <3>4, <3>5 DEF IInv, JobTypes, JobInv, LastClaimWrites
  <2> QED
    BY <2>1, <2>2
<1> QED
  BY <1>4, <1>5, <1>6, TypedNext DEF IInv

LEMMA JobStep ==
  ASSUME IInv, NEW j \in Jobs, JobLeaseEnds(j) \/ RetryJob(j)
  PROVE  IInv'
<1>1. UNCHANGED mailVars /\ worker' = worker /\ faults' \in Nat
  BY DEF JobLeaseEnds, RetryJob, IInv, TypeOK
<1>2. job[j] \in JobType
  BY Typed DEF IInv, JobTypes
<1>3. PICK new \in JobType :
        /\ job' = [job EXCEPT ![j] = new]
        /\ new.token = job[j].token /\ new.claims = job[j].claims
        /\ new.writer = job[j].writer
        /\ new.status = job[j].status \/ new.status = "queued"
  <2>1. CASE JobLeaseEnds(j)
    <3> DEFINE new == [job[j] EXCEPT !.leased = FALSE]
    <3>1. job' = [job EXCEPT ![j] = new]
      BY <2>1 DEF JobLeaseEnds
    <3>2. /\ new \in JobType /\ new.token = job[j].token /\ new.claims = job[j].claims
          /\ new.writer = job[j].writer /\ new.status = job[j].status
      BY <1>2 DEF JobType
    <3> QED
      BY <3>1, <3>2
  <2>2. CASE RetryJob(j)
    <3> DEFINE new == [job[j] EXCEPT !.status = "queued", !.rev = job[j].rev + 1,
                                      !.retries = job[j].retries + 1]
    <3>1. job' = [job EXCEPT ![j] = new]
      BY <2>2 DEF RetryJob
    <3>2. job[j].rev + 1 \in Nat /\ job[j].retries + 1 \in Nat
      BY <1>2 DEF JobType
    <3>3. /\ new \in JobType /\ new.token = job[j].token /\ new.claims = job[j].claims
          /\ new.writer = job[j].writer /\ new.status = "queued"
      BY <1>2, <3>2 DEF JobType
    <3> QED
      BY <3>1, <3>3
  <2> QED
    BY <2>1, <2>2
<1>4. MailTypes' /\ ClaimInv' /\ RequestInv' /\ AnswerInv' /\ GoneInv' /\ CalledOffIsNotMailed'
  BY <1>1, Bystanders
<1>5. /\ job' \in [Jobs -> JobType] /\ job'[j] = new
      /\ \A i \in Jobs \ {j} : job'[i] = job[i]
  BY <1>3, Typed DEF IInv, JobTypes
<1>6. JobTypes' /\ JobInv' /\ LastClaimWrites'
  BY <1>3, <1>5 DEF IInv, JobTypes, JobInv, LastClaimWrites
<1>7. WorkTypes' /\ StepInv'
  BY <1>1, Typed DEF IInv, WorkTypes, StepInv
<1> QED
  BY <1>4, <1>6, <1>7, TypedNext DEF IInv

(* A worker dies: the rows stay as they are. *)
LEMMA DieStep ==
  ASSUME IInv, NEW w \in Workers, Die(w)
  PROVE  IInv'
<1>1. UNCHANGED mailVars /\ job' = job /\ worker' = [worker EXCEPT ![w] = Idle] /\ faults' \in Nat
  BY DEF Die, Rests, IInv, TypeOK
<1>2. /\ worker' \in [Workers -> WorkerType] /\ worker'[w] = Idle
      /\ \A v \in Workers \ {w} : worker'[v] = worker[v]
  BY <1>1, IdleFacts, Typed DEF IInv, WorkTypes
<1>3. MailTypes' /\ ClaimInv' /\ RequestInv' /\ AnswerInv' /\ GoneInv' /\ CalledOffIsNotMailed'
  BY <1>1, <1>2, IdleFacts, Bystanders
<1>4. JobTypes' /\ JobInv' /\ LastClaimWrites'
  BY <1>1, Typed DEF IInv, JobTypes, JobInv, LastClaimWrites
<1>5. WorkTypes' /\ StepInv'
  BY <1>1, <1>2, IdleFacts, Typed DEF IInv, WorkTypes, StepInv
<1> QED
  BY <1>3, <1>4, <1>5, TypedNext DEF IInv

-----------------------------------------------------------------------------
(* Mails: the jobs stay as they are *)

LEMMA JobsKept ==
  ASSUME IInv, job' = job
  PROVE  JobTypes' /\ JobInv' /\ LastClaimWrites'
  BY Typed DEF IInv, JobTypes, JobInv, LastClaimWrites

(* A claim finds nobody at the mail, and no request for it. *)
LEMMA ClaimMailStep ==
  ASSUME IInv, NEW w \in Workers, NEW m \in Mails, ClaimMail(w, m)
  PROVE  IInv'
<1> DEFINE n == mail[m].attempts + 1
           row == [status |-> "sending", attempts |-> n, token |-> n, leased |-> TRUE]
           new == [task |-> m, token |-> n, step |-> "claimed", answer |-> "none"]
<1>1. /\ mail' = [mail EXCEPT ![m] = row] /\ worker' = [worker EXCEPT ![w] = new]
      /\ service' = service /\ gone' = gone /\ job' = job /\ posts' = posts
      /\ accepted' = accepted /\ faults' = faults
  BY DEF ClaimMail
<1>2. mail[m].status \in Waiting /\ mail[m].attempts < MaxAttempts
  BY DEF ClaimMail, Claimable
<1>3. n \in 0..MaxAttempts /\ n \in Nat /\ n # 0
  <2>1. mail[m].attempts \in 0..MaxAttempts
    BY DEF IInv, TypeOK, Row
  <2> QED
    BY <1>2, <2>1, ClaimedAssumption
<1> HIDE DEF n
<1>4. row \in Row /\ row.status = "sending" /\ row.attempts = n /\ row.token = n
  BY <1>3 DEF Row
<1>5. new \in WorkerType /\ new.task = m /\ new.token = n /\ new.step = "claimed"
      /\ new.answer = "none"
  BY <1>3 DEF WorkerType
<1> HIDE DEF row, new
<1>6. /\ mail' \in [Mails -> Row] /\ mail'[m] = row
      /\ \A x \in Mails \ {m} : mail'[x] = mail[x]
  BY <1>1, <1>4, Typed DEF IInv, MailTypes
<1>7. /\ worker' \in [Workers -> WorkerType] /\ worker'[w] = new
      /\ \A v \in Workers \ {w} : worker'[v] = worker[v]
  BY <1>1, <1>5, Typed DEF IInv, WorkTypes
<1>8. \A v \in Workers : worker[v].task # m
  BY <1>2 DEF IInv, ClaimInv, Waiting
<1>9. \A p \in posts \cup accepted : p.mail # m
  BY <1>2 DEF IInv, RequestInv, Waiting
<1>10. MailTypes' /\ WorkTypes'
  BY <1>1, <1>6, <1>7, Typed DEF IInv, MailTypes, WorkTypes
<1>11. StepInv'
  BY <1>5, <1>7, IdleFacts DEF IInv, StepInv
<1>12. ClaimInv'
  <2>1. \A v \in Workers, x \in Mails : worker'[v].task = x =>
          /\ worker'[v].token = mail'[x].attempts /\ worker'[v].token # 0
          /\ mail'[x].status \in {"sending", "uncertain"}
          /\ mail'[x].status = "sending" => mail'[x].token = worker'[v].token
    BY <1>3, <1>4, <1>5, <1>6, <1>7, <1>8 DEF IInv, ClaimInv
  <2>2. \A x \in Mails : mail'[x].status = "uncertain" => mail'[x].token = 0
    BY <1>4, <1>6 DEF IInv, ClaimInv
  <2>3. \A u, v \in Workers :
          worker'[u].task \in Mails /\ worker'[u].task = worker'[v].task => u = v
    BY <1>5, <1>7, <1>8 DEF IInv, ClaimInv
  <2> QED
    BY <2>1, <2>2, <2>3 DEF ClaimInv
<1>13. RequestInv'
  <2>1. \A p \in posts \cup accepted : mail'[p.mail] = mail[p.mail]
    BY <1>6, <1>9, Typed DEF IInv, MailTypes, RequestType
  <2> QED
    BY <1>1, <1>4, <1>6, <2>1 DEF IInv, RequestInv
<1>14. AnswerInv'
  BY <1>1, <1>5, <1>7, <1>9 DEF IInv, AnswerInv, Requests
<1>15. GoneInv'
  BY <1>1, <1>5, <1>7 DEF IInv, GoneInv
<1>16. CalledOffIsNotMailed'
  BY <1>1 DEF IInv, CalledOffIsNotMailed
<1> QED
  BY <1>1, <1>10, <1>11, <1>12, <1>13, <1>14, <1>15, <1>16, JobsKept, TypedNext DEF IInv

(* What every later step of a worker at a mail knows of it. *)
LEMMA AtMail ==
  ASSUME IInv, NEW w \in Workers, worker[w].step \in {"claimed", "checked", "waiting", "answered"}
  PROVE  /\ worker[w] \in WorkerType
         /\ worker[w].task \in Mails /\ worker[w].task # None
         /\ worker[w].token = mail[worker[w].task].attempts /\ worker[w].token # 0
         /\ mail[worker[w].task].status \in {"sending", "uncertain"}
         /\ \A v \in Workers \ {w} : worker[v].task # worker[w].task
<1>1. worker[w] \in WorkerType
  BY Typed DEF IInv, WorkTypes
<1>2. worker[w].task \in Mails
  BY <1>1 DEF IInv, StepInv, WorkerType
<1> QED
  BY <1>1, <1>2, IdleFacts DEF IInv, ClaimInv

(* A worker moves one step on at its mail; the mail stays as it is. *)
LEMMA WorkerMoves ==
  ASSUME IInv, NEW w \in Workers,
         worker[w].step \in {"claimed", "checked", "waiting", "answered"},
         NEW step \in {"checked", "waiting", "answered"},
         worker' = [worker EXCEPT ![w].step = step],
         mail' = mail, gone' = gone, service' = service, accepted' = accepted, job' = job,
         faults' = faults
  PROVE  /\ WorkTypes' /\ StepInv' /\ ClaimInv' /\ JobTypes' /\ JobInv' /\ LastClaimWrites'
         /\ worker'[w].task = worker[w].task /\ worker'[w].token = worker[w].token
         /\ worker'[w].answer = worker[w].answer /\ worker'[w].step = step
         /\ \A v \in Workers \ {w} : worker'[v] = worker[v]
<1>1. /\ worker'[w].task = worker[w].task /\ worker'[w].token = worker[w].token
      /\ worker'[w].answer = worker[w].answer /\ worker'[w].step = step
      /\ \A v \in Workers \ {w} : worker'[v] = worker[v]
      /\ worker' \in [Workers -> WorkerType]
  BY Typed DEF IInv, WorkTypes, WorkerType
<1>2. WorkTypes'
  BY <1>1, Typed DEF IInv, WorkTypes
<1>3. StepInv'
  BY <1>1, AtMail, IdleFacts DEF IInv, StepInv
<1>4. ClaimInv'
  BY <1>1 DEF IInv, ClaimInv
<1> QED
  BY <1>1, <1>2, <1>3, <1>4, JobsKept

(* The row is the claim's own and its mail is still wanted, or the worker leaves. *)
LEMMA CheckMailStep ==
  ASSUME IInv, NEW w \in Workers, CheckMail(w)
  PROVE  IInv'
<1> DEFINE m == worker[w].task
<1>1. /\ service' = service /\ gone' = gone /\ job' = job /\ posts' = posts
      /\ accepted' = accepted /\ faults' = faults /\ worker[w].step = "claimed"
  BY DEF CheckMail, At
<1>2. /\ worker[w] \in WorkerType /\ m \in Mails /\ worker[w].token = mail[m].attempts
      /\ worker[w].token # 0 /\ mail[m].status \in {"sending", "uncertain"}
      /\ \A v \in Workers \ {w} : worker[v].task # m
  BY <1>1, AtMail
<1>3. CASE Holds(w) /\ StillWanted(m) /\ Goes(w, "checked") /\ mail' = mail
  <2>1. worker' = [worker EXCEPT ![w].step = "checked"]
    BY <1>3 DEF Goes
  <2>2. /\ WorkTypes' /\ StepInv' /\ ClaimInv' /\ JobTypes' /\ JobInv' /\ LastClaimWrites'
        /\ worker'[w].task = m /\ worker'[w].step = "checked"
        /\ worker'[w].answer = worker[w].answer
        /\ \A v \in Workers \ {w} : worker'[v] = worker[v]
    BY <1>1, <1>3, <2>1, WorkerMoves
  <2>3. MailTypes' /\ RequestInv' /\ CalledOffIsNotMailed'
    BY <1>1, <1>3, Typed DEF IInv, MailTypes, RequestInv, CalledOffIsNotMailed
  <2>4. AnswerInv'
    BY <1>1, <2>2 DEF IInv, AnswerInv, Requests
  <2>5. GoneInv'
    BY <1>1, <1>3, <2>2 DEF IInv, GoneInv, StillWanted
  <2> QED
    BY <2>2, <2>3, <2>4, <2>5, TypedNext DEF IInv
<1>4. CASE ~Holds(w) /\ Rests(w) /\ mail' = mail
  <2>1. worker' = [worker EXCEPT ![w] = Idle]
    BY <1>4 DEF Rests
  <2>2. /\ worker' \in [Workers -> WorkerType] /\ worker'[w] = Idle
        /\ \A v \in Workers \ {w} : worker'[v] = worker[v]
    BY <2>1, IdleFacts, Typed DEF IInv, WorkTypes
  <2>3. MailTypes' /\ ClaimInv' /\ RequestInv' /\ AnswerInv' /\ GoneInv' /\ CalledOffIsNotMailed'
    BY <1>1, <1>4, <2>2, IdleFacts, Bystanders DEF mailVars
  <2>4. WorkTypes' /\ StepInv'
    BY <1>1, <2>2, IdleFacts, Typed DEF IInv, WorkTypes, StepInv
  <2> QED
    BY <1>1, <2>3, <2>4, JobsKept, TypedNext DEF IInv
<1>5. CASE /\ Holds(w) /\ Rests(w)
           /\ mail' = [mail EXCEPT ![m] = [@ EXCEPT !.token = 0,
                         !.status = IF service[m] = "guest" THEN "cancelled" ELSE "retry",
                         !.attempts = IF service[m] = "guest" THEN mail[m].attempts
                                      ELSE MaxAttempts]]
  <2>1. PICK status \in {"cancelled", "retry"}, n \in {mail[m].attempts, MaxAttempts} :
          mail' = [mail EXCEPT ![m] = [@ EXCEPT !.token = 0, !.status = status, !.attempts = n]]
    BY <1>5
  <2> DEFINE row == [mail[m] EXCEPT !.token = 0, !.status = status, !.attempts = n]
  <2>2. n \in 0..MaxAttempts /\ 0 \in 0..MaxAttempts /\ mail[m] \in Row
    BY <1>2, ClaimedAssumption, Typed DEF IInv, MailTypes, Row
  <2>3. row \in Row /\ row.status = status
    BY <2>2 DEF Row, Waiting
  <2>4. mail' = [mail EXCEPT ![m] = row]
    BY <2>1
  <2> HIDE DEF row
  <2>5. /\ mail' \in [Mails -> Row] /\ mail'[m] = row
        /\ \A x \in Mails \ {m} : mail'[x] = mail[x]
    BY <1>2, <2>3, <2>4, Typed DEF IInv, MailTypes
  <2>6. /\ worker' \in [Workers -> WorkerType] /\ worker'[w] = Idle
        /\ \A v \in Workers \ {w} : worker'[v] = worker[v]
    BY <1>5, IdleFacts, Typed DEF Rests, IInv, WorkTypes
  <2>7. \A p \in posts \cup accepted : p.mail # m
    BY <1>1, <1>2 DEF IInv, AnswerInv, Requests
  <2>8. MailTypes' /\ WorkTypes'
    BY <1>1, <2>5, <2>6, Typed DEF IInv, MailTypes, WorkTypes
  <2>9. StepInv'
    BY <2>6, IdleFacts DEF IInv, StepInv
  <2>10. \A v \in Workers, x \in Mails : worker'[v].task = x => v # w /\ x # m
    BY <1>2, <2>6, IdleFacts
  <2>11. ClaimInv'
    BY <2>3, <2>5, <2>6, <2>10 DEF IInv, ClaimInv
  <2>12. RequestInv'
    <3>1. \A p \in posts \cup accepted : mail'[p.mail] = mail[p.mail]
      BY <2>5, <2>7, Typed DEF IInv, MailTypes, RequestType
    <3> QED
      BY <1>1, <2>3, <2>5, <3>1 DEF IInv, RequestInv
  <2>13. AnswerInv' /\ GoneInv'
    BY <1>1, <2>6, <2>10 DEF IInv, AnswerInv, GoneInv, Requests
  <2>14. CalledOffIsNotMailed'
    BY <1>1 DEF IInv, CalledOffIsNotMailed
  <2> QED
    BY <1>1, <2>8, <2>9, <2>11, <2>12, <2>13, <2>14, JobsKept, TypedNext DEF IInv
<1> QED
  BY <1>3, <1>4, <1>5 DEF CheckMail

(* The one place that makes a request: the claim was checked before. *)
LEMMA PostStep ==
  ASSUME IInv, NEW w \in Workers, Post(w)
  PROVE  IInv'
<1> DEFINE m == worker[w].task
           q == RequestOf(w)
<1>1. /\ service' = service /\ mail' = mail /\ gone' = gone /\ job' = job
      /\ accepted' = accepted /\ faults' = faults /\ posts' = posts \cup {q}
      /\ worker[w].step = "checked" /\ worker' = [worker EXCEPT ![w].step = "waiting"]
  BY DEF Post, At, Goes
<1>2. /\ worker[w] \in WorkerType /\ m \in Mails /\ worker[w].token = mail[m].attempts
      /\ mail[m].status \in {"sending", "uncertain"}
      /\ \A v \in Workers \ {w} : worker[v].task # m
  BY <1>1, AtMail
<1>3. q \in RequestType /\ q.mail = m /\ q.claim = worker[w].token
  BY <1>2 DEF RequestOf, Request, RequestType, WorkerType
<1> HIDE DEF q
<1>4. /\ WorkTypes' /\ StepInv' /\ ClaimInv' /\ JobTypes' /\ JobInv' /\ LastClaimWrites'
      /\ worker'[w].task = m /\ worker'[w].step = "waiting"
      /\ worker'[w].answer = worker[w].answer
      /\ \A v \in Workers \ {w} : worker'[v] = worker[v]
  BY <1>1, WorkerMoves
<1>5. MailTypes'
  BY <1>1, <1>3, Typed DEF IInv, MailTypes
<1>6. \A p \in posts \cup accepted : p.mail # m
  BY <1>1, <1>2 DEF IInv, AnswerInv, Requests
<1>7. RequestInv'
  BY <1>1, <1>2, <1>3, <1>6 DEF IInv, RequestInv
<1>8. AnswerInv'
  BY <1>1, <1>2, <1>3, <1>4 DEF IInv, AnswerInv, Requests
<1>9. GoneInv'
  BY <1>1, <1>4 DEF IInv, GoneInv
<1>10. CalledOffIsNotMailed'
  BY <1>1, <1>2, <1>3 DEF IInv, CalledOffIsNotMailed, GoneInv
<1> QED
  BY <1>4, <1>5, <1>7, <1>8, <1>9, <1>10, TypedNext DEF IInv

LEMMA TimeOutStep ==
  ASSUME IInv, NEW w \in Workers, TimeOut(w)
  PROVE  IInv'
<1>1. /\ service' = service /\ mail' = mail /\ gone' = gone /\ job' = job /\ posts' = posts
      /\ accepted' = accepted /\ faults' = faults
      /\ worker[w].step = "waiting" /\ worker' = [worker EXCEPT ![w].step = "answered"]
  BY DEF TimeOut, At, Goes, mailVars
<1>2. worker[w].task \in Mails
  BY <1>1, AtMail
<1>3. /\ WorkTypes' /\ StepInv' /\ ClaimInv' /\ JobTypes' /\ JobInv' /\ LastClaimWrites'
      /\ worker'[w].task = worker[w].task /\ worker'[w].step = "answered"
      /\ worker'[w].answer = worker[w].answer
      /\ \A v \in Workers \ {w} : worker'[v] = worker[v]
  BY <1>1, WorkerMoves
<1>4. MailTypes' /\ RequestInv' /\ CalledOffIsNotMailed'
  BY <1>1, Typed DEF IInv, MailTypes, RequestInv, CalledOffIsNotMailed
<1>5. worker'[w].answer = "none"
  BY <1>1, <1>2, <1>3 DEF IInv, AnswerInv
<1>6. AnswerInv'
  BY <1>1, <1>3, <1>5 DEF IInv, AnswerInv, Requests
<1>7. GoneInv'
  BY <1>1, <1>3 DEF IInv, GoneInv
<1> QED
  BY <1>3, <1>4, <1>6, <1>7, TypedNext DEF IInv

(* An answer reaches the worker that waits for it, and nobody else. *)
LEMMA AnswerFacts ==
  ASSUME IInv, NEW p \in posts, NEW answer \in {"none", "sent", "refused"}, Answers(p, answer),
         mail' = mail, gone' = gone, job' = job, faults' = faults
  PROVE  /\ WorkTypes' /\ StepInv' /\ ClaimInv' /\ GoneInv'
         /\ \A v \in Workers :
              /\ worker'[v].task = worker[v].task
              /\ \/ worker'[v] = worker[v]
                 \/ /\ worker[v].step = "waiting" /\ worker'[v].step = "answered"
                    /\ worker'[v].answer = answer /\ worker[v].task = p.mail
<1>1. \A v \in Workers : worker[v] \in WorkerType
  BY Typed DEF IInv, WorkTypes
<1>2. ASSUME NEW v \in Workers
      PROVE  /\ worker'[v] \in WorkerType
             /\ worker'[v].task = worker[v].task /\ worker'[v].token = worker[v].token
             /\ \/ worker'[v] = worker[v]
                \/ /\ worker[v].step = "waiting" /\ worker'[v].step = "answered"
                   /\ worker'[v].answer = answer /\ worker[v].task = p.mail
  <2>1. CASE At(v, "waiting") /\ RequestOf(v) = p /\ answer # "none"
    <3>1. worker'[v] = [worker[v] EXCEPT !.step = "answered", !.answer = answer]
      BY <2>1 DEF Answers
    <3>2. worker[v].step = "waiting" /\ p.mail = worker[v].task
      BY <2>1 DEF At, RequestOf, Request
    <3> QED
      BY <1>1, <3>1, <3>2 DEF WorkerType
  <2>2. CASE ~(At(v, "waiting") /\ RequestOf(v) = p /\ answer # "none")
    BY <1>1, <2>2 DEF Answers
  <2> QED
    BY <2>1, <2>2
<1>3. WorkTypes'
  <2>1. worker' \in [Workers -> WorkerType]
    <3>1. \E f : worker' = [v \in Workers |-> f[v]]
      <4>1. worker' = [v \in Workers |-> worker'[v]]
        BY DEF Answers
      <4> QED
        BY <4>1
    <3> QED
      BY <1>2, <3>1
  <2> QED
    BY <2>1, Typed DEF IInv, WorkTypes
<1>4. StepInv'
  <2>1. p.mail \in Mails /\ p.mail # None /\ p.mail \notin Jobs
    BY IdleFacts, Typed DEF IInv, MailTypes, RequestType
  <2> QED
    BY <1>2, <2>1 DEF IInv, StepInv
<1>5. ClaimInv'
  BY <1>2 DEF IInv, ClaimInv
<1>6. GoneInv'
  BY <1>2 DEF IInv, GoneInv
<1> QED
  BY <1>2, <1>3, <1>4, <1>5, <1>6

LEMMA ProviderStep ==
  ASSUME IInv, Provider
  PROVE  IInv'
<1>1. PICK p \in posts :
        \/ \E answer \in {"sent", "none"} : ProviderAccepts(p, answer)
        \/ \E answer \in {"refused", "none"} : ProviderRefuses(p, answer)
  BY DEF Provider
<1>2. /\ p \in RequestType /\ p.mail \in Mails /\ p.claim = mail[p.mail].attempts
      /\ mail[p.mail].status \in {"sending", "uncertain"}
  BY Typed DEF IInv, MailTypes, RequestType, RequestInv
<1>3. PICK answer \in {"none", "sent", "refused"} :
        /\ Answers(p, answer) /\ posts' = posts \ {p}
        /\ \/ accepted' = accepted \cup {p} /\ answer # "refused"
           \/ accepted' = accepted /\ answer # "sent"
        /\ mail' = mail /\ gone' = gone /\ job' = job /\ faults' = faults /\ service' = service
  BY <1>1 DEF ProviderAccepts, ProviderRefuses
<1>4. /\ WorkTypes' /\ StepInv' /\ ClaimInv' /\ GoneInv'
      /\ \A v \in Workers :
           /\ worker'[v].task = worker[v].task
           /\ \/ worker'[v] = worker[v]
              \/ /\ worker[v].step = "waiting" /\ worker'[v].step = "answered"
                 /\ worker'[v].answer = answer /\ worker[v].task = p.mail
  BY <1>3, AnswerFacts
<1>5. \A q \in posts \cup accepted : q.mail = p.mail => q = p
  <2> SUFFICES ASSUME NEW q \in posts \cup accepted, q.mail = p.mail PROVE q = p
    OBVIOUS
  <2>1. q \in posts /\ q \in RequestType /\ q.claim = p.claim
    BY <1>2, Typed DEF IInv, MailTypes, RequestInv
  <2> QED
    BY <1>2, <2>1 DEF RequestType
<1>6. MailTypes'
  BY <1>2, <1>3, Typed DEF IInv, MailTypes
<1>7. RequestInv'
  <2>1. \A q \in posts' : q \in posts /\ q.mail # p.mail
    BY <1>3, <1>5
  <2>2. \A q \in accepted' : q \in accepted \/ q = p
    BY <1>3
  <2>3. \A q \in posts', s \in accepted' : q.mail # s.mail
    BY <2>1, <2>2 DEF IInv, RequestInv
  <2>4. accepted \subseteq accepted'
    BY <1>3
  <2> QED
    BY <1>2, <1>3, <2>1, <2>2, <2>3, <2>4 DEF IInv, RequestInv
<1>8. AnswerInv'
  <2> SUFFICES ASSUME NEW v \in Workers, NEW m \in Mails, worker'[v].task = m
               PROVE  /\ worker'[v].step \in {"claimed", "checked", "waiting"} =>
                           worker'[v].answer = "none"
                      /\ worker'[v].step \in {"claimed", "checked"} => Requests(m)' = {}
                      /\ worker'[v].step = "answered" /\ worker'[v].answer = "refused"
                           => Requests(m)' = {}
                      /\ worker'[v].step = "answered" /\ worker'[v].answer = "sent"
                           => \E q \in accepted' : q.mail = m
    BY DEF AnswerInv
  <2>1. worker[v].task = m
    BY <1>4
  <2>2. Requests(m)' \subseteq Requests(m) /\ accepted \subseteq accepted'
    BY <1>3 DEF Requests
  <2>3. CASE worker'[v] = worker[v]
    BY <2>1, <2>2, <2>3 DEF IInv, AnswerInv
  <2>4. CASE worker'[v].step = "answered" /\ worker'[v].answer = answer /\ m = p.mail
    <3>1. answer = "refused" => Requests(m)' = {}
      <4> SUFFICES ASSUME answer = "refused", NEW q \in posts' \cup accepted', q.mail = m
                   PROVE  FALSE
        BY DEF Requests
      <4>1. accepted' = accepted /\ q \in posts \cup accepted
        BY <1>3
      <4>2. q = p
        BY <1>5, <2>4, <4>1
      <4>3. p \notin posts' /\ p \notin accepted
        BY <1>3 DEF IInv, RequestInv
      <4> QED
        BY <4>1, <4>2, <4>3
    <3>2. answer = "sent" => p \in accepted'
      BY <1>3
    <3> QED
      BY <2>4, <3>1, <3>2
  <2> QED
    BY <1>4, <2>1, <2>3, <2>4
<1>9. CalledOffIsNotMailed'
  BY <1>3 DEF IInv, CalledOffIsNotMailed
<1> QED
  BY <1>3, <1>4, <1>6, <1>7, <1>8, <1>9, JobsKept, TypedNext DEF IInv

(* The outcome is stored if the row is still the claim's; a refused mail waits
   again, and by then neither its request nor its worker is there any more. *)
LEMMA SettleMailStep ==
  ASSUME IInv, NEW w \in Workers, SettleMail(w)
  PROVE  IInv'
<1> DEFINE m == worker[w].task
<1>1. /\ service' = service /\ gone' = gone /\ job' = job /\ posts' = posts
      /\ accepted' = accepted /\ faults' = faults /\ worker[w].step = "answered"
      /\ worker' = [worker EXCEPT ![w] = Idle]
  BY DEF SettleMail, At, Rests
<1>2. /\ worker[w] \in WorkerType /\ m \in Mails /\ worker[w].token = mail[m].attempts
      /\ \A v \in Workers \ {w} : worker[v].task # m
  BY <1>1, AtMail
<1>3. /\ worker' \in [Workers -> WorkerType] /\ worker'[w] = Idle
      /\ \A v \in Workers \ {w} : worker'[v] = worker[v]
  BY <1>1, IdleFacts, Typed DEF IInv, WorkTypes
<1>4. WorkTypes' /\ StepInv'
  BY <1>1, <1>3, IdleFacts, Typed DEF IInv, WorkTypes, StepInv
<1>5. CASE mail' = mail
  <2>1. MailTypes' /\ ClaimInv' /\ RequestInv' /\ AnswerInv' /\ GoneInv' /\ CalledOffIsNotMailed'
    BY <1>1, <1>3, <1>5, IdleFacts, Bystanders DEF mailVars
  <2> QED
    BY <1>1, <1>4, <2>1, JobsKept, TypedNext DEF IInv
<1>6. CASE mail' # mail
  <2> DEFINE status == StatusAfter(worker[w].answer)
             row == [mail[m] EXCEPT !.status = status, !.token = 0, !.leased = FALSE]
  <2>1. mail' = [mail EXCEPT ![m] = row] /\ mail[m].status = "sending"
    BY <1>6 DEF SettleMail
  <2>2. /\ status \in {"sent", "retry", "uncertain"}
        /\ status = "sent" <=> worker[w].answer = "sent"
        /\ status = "retry" <=> worker[w].answer = "refused"
    BY <1>2 DEF StatusAfter, WorkerType
  <2> HIDE DEF status
  <2>3. row \in Row /\ row.status = status /\ row.token = 0 /\ row.attempts = mail[m].attempts
    <3>1. mail[m] \in Row /\ 0 \in 0..MaxAttempts
      BY <1>2, ClaimedAssumption, Typed DEF IInv, MailTypes
    <3> QED
      BY <2>2, <3>1 DEF Row, Waiting
  <2> HIDE DEF row
  <2>4. /\ mail' \in [Mails -> Row] /\ mail'[m] = row
        /\ \A x \in Mails \ {m} : mail'[x] = mail[x]
    BY <1>2, <2>1, <2>3, Typed DEF IInv, MailTypes
  <2>5. MailTypes'
    BY <1>1, <2>4, Typed DEF IInv, MailTypes
  <2>6. \A v \in Workers, x \in Mails : worker'[v].task = x => v # w /\ x # m
    BY <1>2, <1>3, IdleFacts
  <2>7. ClaimInv'
    BY <1>3, <2>3, <2>4, <2>6 DEF IInv, ClaimInv
  <2>8. RequestInv'
    <3>1. \A p \in posts \cup accepted :
            p.mail \in Mails /\ (p.mail # m => mail'[p.mail] = mail[p.mail])
      BY <2>4, Typed DEF IInv, MailTypes, RequestType
    <3>2. CASE status = "sent"
      <4>1. \E p \in accepted : p.mail = m
        BY <1>1, <1>2, <2>2, <3>2 DEF IInv, AnswerInv
      <4>2. \A p \in posts : p.mail # m
        BY <4>1 DEF IInv, RequestInv
      <4> QED
        BY <1>1, <2>3, <2>4, <3>1, <3>2, <4>1, <4>2 DEF IInv, RequestInv
    <3>3. CASE status = "retry"
      <4>1. \A p \in posts \cup accepted : p.mail # m
        BY <1>1, <1>2, <2>2, <3>3 DEF IInv, AnswerInv, Requests
      <4> QED
        BY <1>1, <2>3, <2>4, <3>1, <3>3, <4>1 DEF IInv, RequestInv
    <3>4. CASE status = "uncertain"
      BY <1>1, <2>3, <2>4, <3>1, <3>4 DEF IInv, RequestInv
    <3> QED
      BY <2>2, <3>2, <3>3, <3>4
  <2>9. AnswerInv' /\ GoneInv'
    BY <1>1, <1>3, <2>6 DEF IInv, AnswerInv, GoneInv, Requests
  <2>10. CalledOffIsNotMailed'
    BY <1>1 DEF IInv, CalledOffIsNotMailed
  <2> QED
    BY <1>1, <1>4, <2>5, <2>7, <2>8, <2>9, <2>10, JobsKept, TypedNext DEF IInv
<1> QED
  BY <1>5, <1>6

(* Rows that change without a worker: a lease ends, a sweep declares the fate of
   interrupted mails unknown. *)
LEMMA RowStep ==
  ASSUME IInv, Sweep \/ \E m \in Mails : MailLeaseEnds(m)
  PROVE  IInv'
<1>1. /\ service' = service /\ gone' = gone /\ job' = job /\ posts' = posts
      /\ accepted' = accepted /\ faults' = faults /\ worker' = worker
  BY DEF Sweep, MailLeaseEnds
<1>2. /\ mail' \in [Mails -> Row]
      /\ \A x \in Mails :
           /\ mail'[x].attempts = mail[x].attempts
           /\ \/ mail'[x].status = mail[x].status /\ mail'[x].token = mail[x].token
              \/ mail[x].status = "sending" /\ mail'[x].status = "uncertain" /\ mail'[x].token = 0
  <2>1. \A x \in Mails : mail[x] \in Row
    BY Typed DEF IInv, MailTypes
  <2>2. CASE Sweep
    <3>1. 0 \in 0..MaxAttempts
      BY ClaimedAssumption
    <3>2. \A x \in Mails : [mail[x] EXCEPT !.status = "uncertain", !.token = 0] \in Row
      BY <2>1, <3>1 DEF Row
    <3>3. mail' = [x \in Mails |-> IF x \in Interrupted
                                   THEN [mail[x] EXCEPT !.status = "uncertain", !.token = 0]
                                   ELSE mail[x]]
      BY <2>2 DEF Sweep
    <3>4. mail' \in [Mails -> Row]
      BY <2>1, <3>2, <3>3
    <3>5. \A x \in Interrupted : mail[x].status = "sending"
      BY DEF Interrupted
    <3>6. ASSUME NEW x \in Mails
          PROVE  /\ mail'[x].attempts = mail[x].attempts
                 /\ \/ /\ mail'[x].status = mail[x].status
                       /\ mail'[x].token = mail[x].token
                    \/ /\ mail[x].status = "sending"
                       /\ mail'[x].status = "uncertain" /\ mail'[x].token = 0
      <4>1. mail[x] \in Row
        BY <2>1
      <4>2. CASE x \in Interrupted
        <5>1. mail'[x] = [mail[x] EXCEPT !.status = "uncertain", !.token = 0]
          BY <3>3, <4>2
        <5> QED
          BY <3>5, <4>1, <4>2, <5>1 DEF Row
      <4>3. CASE x \notin Interrupted
        <5>1. mail'[x] = mail[x]
          BY <3>3, <4>3
        <5> QED
          BY <5>1
      <4> QED
        BY <4>2, <4>3
    <3> QED
      BY <3>4, <3>6
  <2>3. ASSUME NEW m \in Mails, MailLeaseEnds(m) PROVE <1>2
    <3>1. mail' = [mail EXCEPT ![m].leased = FALSE]
      BY <2>3 DEF MailLeaseEnds
    <3>2. [mail[m] EXCEPT !.leased = FALSE] \in Row
      BY <2>1 DEF Row
    <3> QED
      BY <2>1, <3>1, <3>2, Typed DEF IInv, MailTypes, Row
  <2> QED
    BY <2>2, <2>3
<1>3. MailTypes' /\ WorkTypes' /\ StepInv'
  BY <1>1, <1>2, Typed DEF IInv, MailTypes, WorkTypes, StepInv
<1>4. ClaimInv'
  BY <1>1, <1>2 DEF IInv, ClaimInv
<1>5. RequestInv'
  <2>1. \A p \in posts \cup accepted : p.mail \in Mails
    BY Typed DEF IInv, MailTypes, RequestType
  <2> QED
    BY <1>1, <1>2, <2>1 DEF IInv, RequestInv
<1>6. AnswerInv' /\ GoneInv' /\ CalledOffIsNotMailed'
  BY <1>1 DEF IInv, AnswerInv, GoneInv, Requests, CalledOffIsNotMailed
<1> QED
  BY <1>1, <1>3, <1>4, <1>5, <1>6, JobsKept, TypedNext DEF IInv

LEMMA CallOffStep ==
  ASSUME IInv, NEW m \in Mails, CallOff(m)
  PROVE  IInv'
<1> DEFINE n == mail[m].attempts + 1
<1>1. /\ service' = service /\ job' = job /\ posts' = posts /\ accepted' = accepted
      /\ faults' = faults /\ worker' = worker /\ gone' = [gone EXCEPT ![m] = n]
  BY DEF CallOff
<1>2. mail[m] \in Row /\ mail[m].attempts \in Nat /\ n \in Nat
  <2>1. mail[m] \in Row
    BY Typed DEF IInv, MailTypes
  <2> QED
    BY <2>1, ClaimedAssumption DEF Row
<1>3. /\ mail' \in [Mails -> Row]
      /\ mail'[m].attempts = mail[m].attempts
      /\ \A x \in Mails \ {m} : mail'[x] = mail[x]
      /\ \/ mail'[m] = mail[m]
         \/ mail[m].status \in Waiting /\ mail'[m].status = "cancelled"
  <2>1. CASE mail[m].status \in Cancellable(m)
    <3>1. mail' = [mail EXCEPT ![m].status = "cancelled"] /\ mail[m].status \in Waiting
      BY <2>1 DEF CallOff, Cancellable, Waiting
    <3>2. [mail[m] EXCEPT !.status = "cancelled"] \in Row
      BY <1>2 DEF Row
    <3> QED
      BY <1>2, <3>1, <3>2, Typed DEF IInv, MailTypes, Row
  <2>2. CASE mail[m].status \notin Cancellable(m)
    BY <2>2, Typed DEF CallOff, IInv, MailTypes
  <2> QED
    BY <2>1, <2>2
<1>4. gone' \in [Mails -> Nat] /\ gone'[m] = n /\ \A x \in Mails \ {m} : gone'[x] = gone[x]
  BY <1>1, <1>2, Typed DEF IInv, MailTypes
<1> HIDE DEF n
<1>5. MailTypes' /\ WorkTypes' /\ StepInv'
  BY <1>1, <1>3, <1>4, Typed DEF IInv, MailTypes, WorkTypes, StepInv
<1>6. ClaimInv'
  BY <1>1, <1>3 DEF IInv, ClaimInv, Waiting
<1>7. RequestInv'
  <2>1. \A p \in posts \cup accepted : p.mail \in Mails
    BY Typed DEF IInv, MailTypes, RequestType
  <2> QED
    BY <1>1, <1>3, <2>1 DEF IInv, RequestInv, Waiting
<1>8. AnswerInv'
  BY <1>1 DEF IInv, AnswerInv, Requests
<1>9. GoneInv'
  <2>1. \A w \in Workers : worker[w].task = m => worker[w].token < n
    BY <1>2 DEF IInv, ClaimInv, n
  <2> QED
    BY <1>1, <1>4, <2>1 DEF IInv, GoneInv
<1>10. CalledOffIsNotMailed'
  <2>1. \A p \in posts \cup accepted : p.mail \in Mails /\ (p.mail = m => p.claim < n)
    BY <1>2, Typed DEF IInv, MailTypes, RequestType, RequestInv, n
  <2> QED
    BY <1>1, <1>4, <2>1 DEF IInv, CalledOffIsNotMailed
<1> QED
  BY <1>1, <1>5, <1>6, <1>7, <1>8, <1>9, <1>10, JobsKept, TypedNext DEF IInv

-----------------------------------------------------------------------------
(* The invariant *)

LEMMA NextInv == IInv /\ [Next]_vars => IInv'
<1> SUFFICES ASSUME IInv, [Next]_vars PROVE IInv'
  OBVIOUS
<1>1. ASSUME NEW w \in Workers, WorkerStep(w) \/ Die(w) PROVE IInv'
  BY <1>1, CheckMailStep, PostStep, TimeOutStep, SettleMailStep, ClaimJobStep, FinishJobStep,
     DieStep DEF WorkerStep
<1>2. CASE Provider
  BY <1>2, ProviderStep
<1>3. CASE Sweep
  BY <1>3, RowStep
<1>4. ASSUME NEW m \in Mails, MailSteps(m) PROVE IInv'
  BY <1>4, ClaimMailStep, RowStep, CallOffStep DEF MailSteps
<1>5. ASSUME NEW j \in Jobs, JobSteps(j) PROVE IInv'
  BY <1>5, ReadJobStep, JobStep DEF JobSteps
<1>6. CASE UNCHANGED vars
  <2>1. UNCHANGED mailVars /\ job' = job /\ worker' = worker /\ faults' = faults
    BY <1>6 DEF vars
  <2>2. MailTypes' /\ ClaimInv' /\ RequestInv' /\ AnswerInv' /\ GoneInv' /\ CalledOffIsNotMailed'
    BY <2>1, Bystanders
  <2>3. WorkTypes' /\ StepInv'
    BY <2>1, Typed DEF IInv, WorkTypes, StepInv
  <2> QED
    BY <2>1, <2>2, <2>3, JobsKept, TypedNext DEF IInv
<1> QED
  BY <1>1, <1>2, <1>3, <1>4, <1>5, <1>6 DEF Next

LEMMA Inductive == Spec => []IInv
  BY InitInv, NextInv, PTL DEF Spec

(* The mails, the jobs, the requests and the workers keep their types; no mail is
   claimed more often than MaxAttempts. *)
THEOREM TypeCorrect == Spec => []TypeOK
<1>1. IInv => TypeOK
  BY DEF IInv
<1> QED
  BY <1>1, Inductive, PTL

(* No claim made after a mail was called off posts it. *)
THEOREM CalledOffStaysUnsent == Spec => []CalledOffIsNotMailed
<1>1. IInv => CalledOffIsNotMailed
  BY DEF IInv
<1> QED
  BY <1>1, Inductive, PTL

(* A job's outcome is its last claim's, however many workers outlive their lease. *)
THEOREM LastClaimDecides == Spec => []LastClaimWrites
<1>1. IInv => LastClaimWrites
  BY DEF IInv
<1> QED
  BY <1>1, Inductive, PTL
-----------------------------------------------------------------------------
(* The refinement: every step reports the fate of some mails, lets one arrive, or
   shows nothing. *)

LEMMA AtMostOne ==
  \A S : (\A p, q \in S : p = q) => Cardinality(S) = IF S = {} THEN 0 ELSE 1
<1> SUFFICES ASSUME NEW S, \A p, q \in S : p = q
             PROVE  Cardinality(S) = IF S = {} THEN 0 ELSE 1
  OBVIOUS
<1>1. CASE S = {}
  BY <1>1, FS_EmptySet
<1>2. CASE S # {}
  <2>1. PICK p \in S : S = {p}
    BY <1>2
  <2> QED
    BY <1>2, <2>1, FS_Singleton
<1> QED
  BY <1>1, <1>2

ArrivedAtAll == [m \in Mails |-> IF Arrived(m) = {} THEN 0 ELSE 1]
ArrivedCount == [m \in Mails |-> Cardinality(Arrived(m))]
Verdicts == [m \in Mails |-> Verdict(m)]

LEMMA ArrivedOnce == IInv => ArrivedCount = ArrivedAtAll
<1> SUFFICES ASSUME IInv, NEW m \in Mails, NEW p \in Arrived(m), NEW q \in Arrived(m)
             PROVE  p = q
  BY AtMostOne DEF ArrivedCount, ArrivedAtAll
<1>1. p \in accepted /\ q \in accepted /\ p.mail = m /\ q.mail = m
  BY DEF Arrived
<1> QED
  BY <1>1, Typed DEF IInv, MailTypes, RequestInv, RequestType

LEMMA ArrivedOnceNext == IInv' => ArrivedCount' = ArrivedAtAll'
<1> SUFFICES ASSUME IInv', NEW m \in Mails, NEW p \in Arrived(m)', NEW q \in Arrived(m)'
             PROVE  p = q
  BY AtMostOne DEF ArrivedCount, ArrivedAtAll
<1>1. p \in accepted' /\ q \in accepted' /\ p.mail = m /\ q.mail = m
  BY DEF Arrived
<1>2. p \in RequestType /\ q \in RequestType
  BY <1>1 DEF IInv, TypeOK, RequestType
<1> QED
  BY <1>1, <1>2 DEF IInv, RequestInv, RequestType

LEMMA Shown ==
  ASSUME IInv, IInv', accepted' = accepted,
         NEW ms \in SUBSET Mails, NEW fate \in Once!Fates,
         \A m \in ms : Verdict(m) = "open" /\ Verdict(m)' = fate,
         \A m \in Mails \ ms : Verdict(m)' = Verdict(m),
         fate = "sent" => \A m \in ms : Arrived(m) # {},
         fate = "dropped" => \A m \in ms : Arrived(m) = {}
  PROVE  Once!Next
<1>1. ArrivedCount = ArrivedAtAll /\ ArrivedCount' = ArrivedCount
  <2>1. ArrivedAtAll' = ArrivedAtAll
    BY DEF ArrivedAtAll, Arrived
  <2> QED
    BY <2>1, ArrivedOnce, ArrivedOnceNext
<1>2. \A m \in Mails : ArrivedCount[m] = IF Arrived(m) = {} THEN 0 ELSE 1
  BY <1>1 DEF ArrivedAtAll
<1>3. Verdicts' = [m \in Mails |-> IF m \in ms THEN fate ELSE Verdicts[m]]
  BY DEF Verdicts
<1>4. Once!Report(ms, fate)
  BY <1>1, <1>2, <1>3 DEF Once!Report, ArrivedCount, Verdicts
<1> QED
  BY <1>4 DEF Once!Next

LEMMA Unshown ==
  ASSUME IInv, accepted' = accepted, \A m \in Mails : Verdict(m)' = Verdict(m)
  PROVE  ArrivedCount' = ArrivedCount /\ Verdicts' = Verdicts
  BY DEF ArrivedCount, Arrived, Verdicts

(* A step that changes one row at most. *)
LEMMA OneRow ==
  ASSUME IInv, IInv', accepted' = accepted, NEW m \in Mails,
         \A n \in Mails \ {m} : mail'[n] = mail[n],
         \/ Verdict(m)' = Verdict(m)
         \/ /\ Verdict(m) = "open" /\ Verdict(m)' \in Once!Fates
            /\ Verdict(m)' = "sent" => Arrived(m) # {}
            /\ Verdict(m)' = "dropped" => Arrived(m) = {}
  PROVE  Once!Next \/ (ArrivedCount' = ArrivedCount /\ Verdicts' = Verdicts)
<1>1. \A n \in Mails \ {m} : Verdict(n)' = Verdict(n)
  BY DEF Verdict
<1>2. CASE Verdict(m)' = Verdict(m)
  BY <1>1, <1>2, Unshown
<1>3. CASE Verdict(m)' # Verdict(m)
  <2>1. PICK fate \in Once!Fates : Verdict(m)' = fate
    BY <1>3
  <2>2. /\ \A n \in {m} : Verdict(n) = "open" /\ Verdict(n)' = fate
        /\ fate = "sent" => \A n \in {m} : Arrived(n) # {}
        /\ fate = "dropped" => \A n \in {m} : Arrived(n) = {}
    BY <1>3, <2>1
  <2>3. {m} \in SUBSET Mails
    OBVIOUS
  <2> QED
    BY <1>1, <2>2, <2>3, Shown
<1> QED
  BY <1>2, <1>3

LEMMA CheckShown ==
  ASSUME IInv, IInv', NEW w \in Workers, CheckMail(w)
  PROVE  Once!Next \/ (ArrivedCount' = ArrivedCount /\ Verdicts' = Verdicts)
<1>1. accepted' = accepted /\ worker[w].step = "claimed"
  BY DEF CheckMail, At
<1>2. PICK m \in Mails : worker[w].task = m /\ worker[w].token # 0
  BY <1>1, Typed DEF IInv, WorkTypes, WorkerType, StepInv, ClaimInv
<1>3. CASE mail' = mail
  BY <1>1, <1>2, <1>3, OneRow DEF Verdict
<1>4. CASE mail' # mail
  <2>1. /\ mail[m].token = worker[w].token
        /\ mail' = [mail EXCEPT ![m] = [@ EXCEPT !.token = 0,
                      !.status = IF service[m] = "guest" THEN "cancelled" ELSE "retry",
                      !.attempts = IF service[m] = "guest" THEN mail[m].attempts
                                   ELSE MaxAttempts]]
    BY <1>2, <1>4 DEF CheckMail, Holds
  <2>2. mail[m].status = "sending"
    BY <1>2, <2>1 DEF IInv, ClaimInv
  <2>3. Arrived(m) = {}
    BY <1>1, <1>2 DEF IInv, AnswerInv, Requests, Arrived
  <2>4. mail[m] \in Row /\ mail \in [Mails -> Row]
    BY <1>2, Typed DEF IInv, MailTypes
  <2>5. Verdict(m) = "open"
    BY <2>2 DEF Verdict
  <2>6. Verdict(m)' = "dropped"
    BY <1>2, <2>1, <2>4 DEF Verdict, Row
  <2>7. \A n \in Mails \ {m} : mail'[n] = mail[n]
    BY <2>1, <2>4
  <2> QED
    BY <1>1, <1>2, <2>3, <2>5, <2>6, <2>7, OneRow DEF Once!Fates
<1> QED
  BY <1>3, <1>4

LEMMA SettleShown ==
  ASSUME IInv, IInv', NEW w \in Workers, SettleMail(w)
  PROVE  Once!Next \/ (ArrivedCount' = ArrivedCount /\ Verdicts' = Verdicts)
<1>1. accepted' = accepted /\ worker[w].step = "answered"
  BY DEF SettleMail, At
<1>2. PICK m \in Mails : /\ worker[w].task = m
                         /\ worker[w].answer \in {"none", "sent", "refused"}
  BY <1>1, Typed DEF IInv, WorkTypes, WorkerType, StepInv
<1>3. CASE mail' = mail
  BY <1>1, <1>2, <1>3, OneRow DEF Verdict
<1>4. CASE mail' # mail
  <2>1. /\ mail[m].status = "sending"
        /\ mail' = [mail EXCEPT ![m] = [@ EXCEPT !.status = StatusAfter(worker[w].answer),
                                                 !.token = 0, !.leased = FALSE]]
    BY <1>2, <1>4 DEF SettleMail
  <2>2. mail[m] \in Row /\ mail \in [Mails -> Row]
    BY <1>2, Typed DEF IInv, MailTypes
  <2>3. /\ Verdict(m) = "open" /\ \A n \in Mails \ {m} : mail'[n] = mail[n]
        /\ mail'[m].status = StatusAfter(worker[w].answer)
    BY <1>2, <2>1, <2>2 DEF Verdict, Row
  <2>4. CASE worker[w].answer = "sent"
    <3>1. Verdict(m)' = "sent" /\ Arrived(m) # {}
      BY <1>1, <1>2, <2>3, <2>4 DEF Verdict, StatusAfter, IInv, AnswerInv, Arrived
    <3> QED
      BY <1>1, <1>2, <2>3, <3>1, OneRow DEF Once!Fates
  <2>5. CASE worker[w].answer = "refused"
    <3>1. Verdict(m)' \in {"open", "dropped"}
      BY <2>3, <2>5 DEF Verdict, StatusAfter
    <3>2. Arrived(m) = {}
      BY <1>1, <1>2, <2>5 DEF IInv, AnswerInv, Requests, Arrived
    <3> QED
      BY <1>1, <1>2, <2>3, <3>1, <3>2, OneRow DEF Once!Fates
  <2>6. CASE worker[w].answer = "none"
    <3>1. Verdict(m)' = "unknown"
      BY <2>3, <2>6 DEF Verdict, StatusAfter
    <3> QED
      BY <1>1, <1>2, <2>3, <3>1, OneRow DEF Once!Fates
  <2> QED
    BY <1>2, <2>4, <2>5, <2>6
<1> QED
  BY <1>3, <1>4

LEMMA SweepShown ==
  ASSUME IInv, IInv', Sweep
  PROVE  Once!Next
<1>1. /\ accepted' = accepted /\ Interrupted \in SUBSET Mails
      /\ \A m \in Interrupted : mail'[m] = [mail[m] EXCEPT !.status = "uncertain", !.token = 0]
      /\ \A m \in Mails \ Interrupted : mail'[m] = mail[m]
  BY DEF Sweep, Interrupted
<1>2. \A m \in Interrupted : Verdict(m) = "open" /\ Verdict(m)' = "unknown"
  <2> SUFFICES ASSUME NEW m \in Interrupted
               PROVE  Verdict(m) = "open" /\ Verdict(m)' = "unknown"
    OBVIOUS
  <2>1. mail[m].status = "sending" /\ mail[m] \in Row
    BY Typed DEF Interrupted, IInv, MailTypes
  <2>2. mail'[m].status = "uncertain"
    BY <1>1, <2>1 DEF Row
  <2> QED
    BY <2>1, <2>2 DEF Verdict
<1>3. \A m \in Mails \ Interrupted : Verdict(m)' = Verdict(m)
  BY <1>1 DEF Verdict
<1>4. "unknown" \in Once!Fates
  BY DEF Once!Fates
<1> QED
  BY <1>1, <1>2, <1>3, <1>4, Shown

LEMMA ProviderShown ==
  ASSUME IInv, IInv', Provider
  PROVE  Once!Next \/ (ArrivedCount' = ArrivedCount /\ Verdicts' = Verdicts)
<1>1. PICK p \in posts :
        \/ \E answer \in {"sent", "none"} : ProviderAccepts(p, answer)
        \/ \E answer \in {"refused", "none"} : ProviderRefuses(p, answer)
  BY DEF Provider
<1>2. mail' = mail
  BY <1>1 DEF ProviderAccepts, ProviderRefuses
<1>3. /\ \A m \in Mails : Verdict(m)' = Verdict(m)
      /\ Verdicts' = Verdicts
  BY <1>2 DEF Verdict, Verdicts
<1>4. CASE accepted' = accepted
  BY <1>3, <1>4, Unshown
<1>5. CASE accepted' # accepted
  <2> DEFINE m == p.mail
  <2>1. accepted' = accepted \cup {p}
    BY <1>1, <1>5 DEF ProviderAccepts, ProviderRefuses
  <2>2. m \in Mails /\ mail[m].status \in {"sending", "uncertain"}
    BY Typed DEF IInv, MailTypes, RequestType, RequestInv
  <2>3. Arrived(m) = {}
    BY DEF IInv, RequestInv, Arrived
  <2>4. Arrived(m)' # {} /\ \A n \in Mails \ {m} : Arrived(n)' = Arrived(n)
    BY <2>1 DEF Arrived
  <2>5. ArrivedAtAll[m] = 0 /\ ArrivedAtAll' = [ArrivedAtAll EXCEPT ![m] = 1]
    BY <2>2, <2>3, <2>4 DEF ArrivedAtAll
  <2>6. ArrivedCount[m] = 0 /\ ArrivedCount' = [ArrivedCount EXCEPT ![m] = 1]
    BY <2>5, ArrivedOnce, ArrivedOnceNext
  <2>7. Verdicts[m] \in {"open", "unknown"}
    BY <2>2 DEF Verdicts, Verdict
  <2>8. Once!Arrive(m)
    BY <1>3, <2>6, <2>7 DEF Once!Arrive, ArrivedCount, Verdicts
  <2> QED
    BY <2>2, <2>8 DEF Once!Next
<1> QED
  BY <1>4, <1>5

LEMMA RowsShown ==
  ASSUME IInv, IInv', NEW m \in Mails, MailSteps(m)
  PROVE  Once!Next \/ (ArrivedCount' = ArrivedCount /\ Verdicts' = Verdicts)
<1>1. mail[m] \in Row /\ mail \in [Mails -> Row]
  BY Typed DEF IInv, MailTypes
<1>2. ASSUME NEW w \in Workers, ClaimMail(w, m) PROVE Verdict(m)' = Verdict(m)
  <2>1. mail'[m].status = "sending" /\ mail[m].status \in Waiting
        /\ mail[m].attempts < MaxAttempts
    BY <1>1, <1>2 DEF ClaimMail, Claimable
  <2>2. mail[m].attempts # MaxAttempts
    BY <1>1, <2>1, ClaimedAssumption DEF Row
  <2> QED
    BY <2>1, <2>2 DEF Verdict, Waiting
<1>3. ASSUME MailLeaseEnds(m) PROVE Verdict(m)' = Verdict(m)
  <2>1. mail'[m].status = mail[m].status /\ mail'[m].attempts = mail[m].attempts
    BY <1>1, <1>3 DEF MailLeaseEnds, Row
  <2> QED
    BY <2>1 DEF Verdict
<1>4. ASSUME CallOff(m)
      PROVE  \/ Verdict(m)' = Verdict(m)
             \/ Verdict(m) = "open" /\ Verdict(m)' = "dropped" /\ Arrived(m) = {}
  <2>1. CASE mail' = mail
    BY <2>1 DEF Verdict
  <2>2. CASE mail' # mail
    <3>1. mail[m].status \in Waiting /\ mail'[m].status = "cancelled"
      BY <1>1, <1>4, <2>2 DEF CallOff, Cancellable, Waiting, Row
    <3>2. Arrived(m) = {}
      BY <3>1 DEF IInv, RequestInv, Arrived, Waiting
    <3> QED
      BY <3>1, <3>2 DEF Verdict, Waiting
  <2> QED
    BY <2>1, <2>2
<1>5. accepted' = accepted /\ \A n \in Mails \ {m} : mail'[n] = mail[n]
  BY <1>1 DEF MailSteps, ClaimMail, MailLeaseEnds, CallOff
<1>6. \/ Verdict(m)' = Verdict(m)
      \/ Verdict(m) = "open" /\ Verdict(m)' = "dropped" /\ Arrived(m) = {}
  BY <1>2, <1>3, <1>4 DEF MailSteps
<1> QED
  BY <1>5, <1>6, OneRow DEF Once!Fates

LEMMA StepShown ==
  ASSUME IInv, IInv', [Next]_vars
  PROVE  [Once!Next]_<<ArrivedCount, Verdicts>>
<1>1. ASSUME UNCHANGED <<mail, accepted>>
      PROVE  ArrivedCount' = ArrivedCount /\ Verdicts' = Verdicts
  BY <1>1 DEF ArrivedCount, Arrived, Verdicts, Verdict
<1>2. ASSUME NEW w \in Workers, WorkerStep(w) \/ Die(w)
      PROVE  CheckMail(w) \/ SettleMail(w) \/ UNCHANGED <<mail, accepted>>
  BY <1>2 DEF WorkerStep, Die, Post, TimeOut, ClaimJob, FinishJob, mailVars
<1>3. ASSUME NEW j \in Jobs, JobSteps(j) PROVE UNCHANGED <<mail, accepted>>
  BY <1>3 DEF JobSteps, ReadJob, JobLeaseEnds, RetryJob, mailVars
<1>4. ASSUME UNCHANGED vars PROVE UNCHANGED <<mail, accepted>>
  BY <1>4 DEF vars, mailVars
<1>5. Once!Next \/ (ArrivedCount' = ArrivedCount /\ Verdicts' = Verdicts)
  BY <1>1, <1>2, <1>3, <1>4, CheckShown, SettleShown, SweepShown, ProviderShown, RowsShown
     DEF Next
<1> QED
  BY <1>5

LEMMA InitShown == Init => Once!Init
<1> SUFFICES ASSUME Init PROVE Once!Init
  OBVIOUS
<1>1. \A m \in Mails : Arrived(m) = {} /\ Verdict(m) = "open"
  BY DEF Init, Arrived, Verdict
<1> QED
  BY <1>1, FS_EmptySet DEF Once!Init

(* The outboxes keep what MailOnce promises: no mail arrives twice, a mail said to be
   sent has arrived, and one that was given up has not and will not. *)
THEOREM KeepsMailOnce == Spec => MailOnceSpec
<1>1. Init => Once!Init
  BY InitShown
<1>2. IInv /\ IInv' /\ [Next]_vars => [Once!Next]_<<ArrivedCount, Verdicts>>
  BY StepShown
<1>3. IInv /\ IInv' /\ [Next]_vars
        => [Once!Next]_<<[m \in Mails |-> Cardinality(Arrived(m))],
                         [m \in Mails |-> Verdict(m)]>>
  BY <1>2 DEF ArrivedCount, Verdicts
<1> QED
  BY <1>1, <1>3, Inductive, PTL DEF Spec, MailOnceSpec, Once!Spec
=============================================================================
