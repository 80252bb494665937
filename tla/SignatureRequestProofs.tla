----------------------- MODULE SignatureRequestProofs -----------------------
(***************************************************************************)
(* The row of a signature request is truthful and never loses an event,    *)
(* for any number of signatories, handlers, faults and crashes.  The heart *)
(* of it is JobInv: a snapshot that still has the row's version is the     *)
(* row, so a write that passes the version check applies its event to what *)
(* is really there.                                                        *)
(***************************************************************************)
EXTENDS SignatureRequest, TLAPS

(* What the provider reports is so. *)
ProviderInv ==
  /\ \A s \in Signers : Signed(s) \in emitted => s \in envelope.signed
  /\ \A k \in {"completed", "declined", "expired"} : Event(k) \in emitted => envelope.outcome = k
  /\ envelope.outcome = "completed" <=> envelope.signed = Signers

(* Nothing is known of a row whose creation has not returned. *)
CreatingInv ==
  /\ creating = "persisted" => envelope.outcome = "none"
  /\ creating # "done" => row = BlankRow
  /\ ~row.known => row.status = "draft"

FreshSnap(p) ==
  /\ job[p].snap.version <= row.version
  /\ job[p].snap.version = row.version => job[p].snap = row
  /\ ~Skips(job[p].change, job[p].snap)

JobOK(p) ==
  /\ p \in Workers /\ job[p].pc # "idle" => job[p].event \in Events
  /\ job[p].pc \in {"resolve", "claim"} => p \in Workers
  /\ job[p].pc \notin {"idle", "resolve"} => row.known
  /\ job[p].change \in Events => job[p].change \in emitted
  /\ job[p].saw = "completed" => row.status = "completed"
  /\ job[p].pc \in {"archive", "stored", "file"} => row.status = "completed"
  /\ job[p].pc = "file" => archived
  /\ Noting(p) => archived /\ row.status = "completed"
  /\ job[p].pc = "write" => FreshSnap(p)

JobInv == \A p \in Procs : JobOK(p)

IInv ==
  /\ TypeOK /\ ProviderInv /\ CreatingInv /\ JobInv
  /\ RowIsTruthful /\ FiledIsExecuted

-----------------------------------------------------------------------------
(* Kinds of changes *)

LEMMA ChangeKinds ==
  /\ \A e \in Events : e # Nudge /\ e # Note
  /\ Nudge # Note /\ Nudge \in Changes /\ Note \in Changes /\ Events \subseteq Changes
  /\ \A e \in Events : \/ \E s \in Signers : e = Signed(s)
                       \/ \E k \in {"viewed", "completed", "declined", "expired"} : e = Event(k)
BY DEF Events, Changes, Nudge, Note, Signed, Event

LEMMA IdleIsJob == Idle \in Job /\ Idle.pc = "idle" /\ Idle.change = Nudge /\ Idle.saw = "draft"
BY ChangeKinds DEF Idle, Job, Row, BlankRow, Statuses, Terminal

(* How the four ways to go on change the job of a process. *)
LEMMA AnswerJob ==
  ASSUME job \in [Procs -> Job], NEW p \in Procs, Answer(p)
  PROVE  job' \in [Procs -> Job] /\ job'[p] = Idle /\ \A q \in Procs \ {p} : job'[q] = job[q]
BY IdleIsJob DEF Answer

LEMMA GoOnJob ==
  ASSUME job \in [Procs -> Job], NEW p \in Procs,
         NEW pc \in {"read", "archive", "stored", "file"}, GoOn(p, pc)
  PROVE  /\ job' \in [Procs -> Job] /\ job'[p] = [job[p] EXCEPT !.pc = pc]
         /\ \A q \in Procs \ {p} : job'[q] = job[q]
<1>1. [job[p] EXCEPT !.pc = pc] \in Job
  BY DEF Job
<1> QED
  BY <1>1 DEF GoOn

LEMMA ThrowJob ==
  ASSUME job \in [Procs -> Job], NEW p \in Procs, Throw(p)
  PROVE  /\ job' \in [Procs -> Job]
         /\ \/ Noting(p) /\ job[p].pc \in {"read", "write"} /\ job'[p] = [job[p] EXCEPT !.pc = "file"]
            \/ job[p].pc \notin {"resolve", "claim"} /\ job'[p] = [job[p] EXCEPT !.pc = "release"]
            \/ job'[p] = Idle
         /\ \A q \in Procs \ {p} : job'[q] = job[q]
<1>1. [job[p] EXCEPT !.pc = "file"] \in Job /\ [job[p] EXCEPT !.pc = "release"] \in Job
  BY DEF Job
<1> QED
  BY <1>1, IdleIsJob DEF Throw

-----------------------------------------------------------------------------
(* What a step that leaves the row alone must show: only its own job. *)

LEMMA OtherJobs ==
  ASSUME IInv, NEW q \in Procs, job'[q] = job[q],
         archived => archived', emitted \subseteq emitted',
         \/ UNCHANGED row
         \/ /\ row'.version = row.version + 1
            /\ row.known => row'.known
            /\ row.status = "completed" => row'.status = "completed"
  PROVE  JobOK(q)'
<1>1. JobOK(q) /\ job[q] \in Job /\ row \in Row
  BY DEF IInv, JobInv, TypeOK
<1>2. CASE UNCHANGED row
  BY <1>1, <1>2 DEF JobOK, Noting, FreshSnap, Skips, Stale
<1>3. CASE /\ row'.version = row.version + 1
           /\ row.known => row'.known
           /\ row.status = "completed" => row'.status = "completed"
  <2>1. job[q].pc = "write" => FreshSnap(q)'
    BY <1>1, <1>3 DEF JobOK, FreshSnap, Skips, Stale, Row, Job
  <2> QED
    BY <1>1, <1>3, <2>1 DEF JobOK, Noting
<1> QED
  BY <1>2, <1>3

LEMMA IdleOK == ASSUME NEW p \in Procs, job'[p] = Idle PROVE JobOK(p)'
BY IdleIsJob, ChangeKinds DEF JobOK, Noting

-----------------------------------------------------------------------------
(* create and the provider *)

LEMMA SendingInv ==
  ASSUME IInv, Sending
  PROVE  IInv'
<1>1. row = BlankRow /\ row.known = FALSE /\ row.status = "draft" /\ row.version = 0 /\ row.signed = {}
  BY DEF IInv, CreatingInv, BlankRow, Sending, CreateEnvelope, StoreSent, EnvelopeRefused, CreateLost
<1>2. UNCHANGED <<archived, filed, claims, emitted, answered, job>>
  BY DEF Sending, CreateEnvelope, StoreSent, EnvelopeRefused, CreateLost, record, provider, budget
<1>3. ~archived /\ ~filed
  BY <1>1 DEF IInv, FiledIsExecuted
<1>4. /\ creating' \in {"accepted", "done"}
      /\ \/ UNCHANGED row /\ (creating' # "done" \/ UNCHANGED envelope)
         \/ /\ creating' = "done" /\ UNCHANGED envelope
            /\ row' = [row EXCEPT !.status = "sent", !.known = TRUE, !.version = @ + 1]
         \/ /\ creating' = "done" /\ UNCHANGED envelope
            /\ row' = [row EXCEPT !.version = @ + 1]
  BY DEF Sending, CreateEnvelope, StoreSent, EnvelopeRefused, CreateLost, record, provider
<1>5. /\ envelope'.signed = envelope.signed /\ envelope' \in [signed: SUBSET Signers,
                   outcome: {"none", "open", "completed", "declined", "expired"}]
      /\ envelope' = envelope \/ (envelope.outcome = "none" /\ envelope'.outcome = "open")
  <2>1. CASE CreateEnvelope
    <3>1. envelope' = [envelope EXCEPT !.outcome = "open"] /\ creating = "persisted"
      BY <2>1 DEF CreateEnvelope
    <3> QED
      BY <3>1 DEF IInv, TypeOK, CreatingInv
  <2>2. CASE ~CreateEnvelope
    BY <2>2 DEF Sending, StoreSent, EnvelopeRefused, CreateLost, provider, IInv, TypeOK
  <2> QED
    BY <2>1, <2>2
<1>6. faults' \in Nat /\ crashes' \in Nat /\ nudges' \in Nat /\ stranded' \in SUBSET Events
  BY DEF Sending, CreateEnvelope, StoreSent, EnvelopeRefused, CreateLost, budget, IInv, TypeOK
<1>7. row' \in Row /\ row'.signed = {} /\ row'.status \in {"draft", "sent"}
      /\ (row'.known \/ row'.status = "draft") /\ (UNCHANGED row \/ row'.version = row.version + 1)
  <2>1. row \in Row /\ "sent" \in Statuses
    BY DEF IInv, TypeOK, Statuses
  <2>2. CASE UNCHANGED row
    BY <1>1, <2>1, <2>2
  <2>3. CASE row' = [row EXCEPT !.status = "sent", !.known = TRUE, !.version = @ + 1]
    <3>1. row \in Row /\ row.signed = {} /\ row.version = 0
      BY <1>1, <2>1
    <3>2. row' \in Row
      <4>1. row' = [status |-> "sent", known |-> TRUE, signed |-> row.signed, version |-> row.version + 1]
        BY <2>3, <3>1 DEF Row
      <4> QED
        BY <2>1, <3>1, <4>1 DEF Row
    <3>3. row'.known
      BY <2>3, <3>1 DEF Row
    <3>4. row'.signed = {} /\ row'.status = "sent" /\ row'.version = row.version + 1
      BY <2>3, <3>1 DEF Row
    <3> QED
      BY <3>2, <3>3, <3>4
  <2>4. CASE row' = [row EXCEPT !.version = @ + 1]
    BY <1>1, <2>1, <2>4 DEF Row
  <2> QED
    BY <1>4, <2>2, <2>3, <2>4
<1>8. TypeOK'
  <2>1. archived' \in BOOLEAN /\ filed' \in BOOLEAN
    BY <1>2 DEF IInv, TypeOK
  <2>2. creating' \in {"persisted", "accepted", "done"}
    BY <1>4
  <2> QED
    BY <1>2, <1>5, <1>6, <1>7, <2>1, <2>2 DEF IInv, TypeOK
<1>9. ProviderInv'
  BY <1>2, <1>5 DEF IInv, ProviderInv
<1>10. CreatingInv'
  <2>1. creating' # "done" => UNCHANGED row
    BY <1>4
  <2> QED
    BY <1>1, <1>4, <1>7, <2>1 DEF CreatingInv
<1>11. JobInv'
  BY <1>1, <1>2, <1>7, OtherJobs DEF JobInv
<1>12. RowIsTruthful' /\ FiledIsExecuted'
  BY <1>2, <1>3, <1>7, SignatureAssumption DEF RowIsTruthful, FiledIsExecuted
<1> QED
  BY <1>8, <1>9, <1>10, <1>11, <1>12 DEF IInv

LEMMA ProviderStepInv ==
  ASSUME IInv, Provider
  PROVE  IInv'
<1>1. /\ envelope.outcome = "open"
      /\ UNCHANGED <<creating, row, archived, filed, claims, answered, job, stranded, faults, crashes, nudges>>
  BY DEF Provider, SignerViews, SignerSigns, EnvelopeEnds, Reports, record, budget
<1>2. creating # "persisted" /\ envelope.signed # Signers
      /\ \A k \in {"completed", "declined", "expired"} : Event(k) \notin emitted
  BY <1>1 DEF IInv, CreatingInv, ProviderInv
<1>3. row.status \notin Terminal /\ ~archived /\ ~filed
  BY <1>1 DEF IInv, RowIsTruthful, FiledIsExecuted, ProviderInv, Terminal
<1>4. emitted \subseteq emitted' /\ envelope.signed \subseteq envelope'.signed
  <2>1. ASSUME NEW s \in Signers, SignerSigns(s)
        PROVE  emitted \subseteq emitted' /\ envelope'.signed = envelope.signed \cup {s}
    BY <2>1 DEF SignerSigns
  <2>2. CASE SignerViews
    BY <2>2 DEF SignerViews
  <2>3. ASSUME NEW o \in {"declined", "expired"}, EnvelopeEnds(o)
        PROVE  emitted \subseteq emitted' /\ envelope'.signed = envelope.signed
    BY <2>3 DEF EnvelopeEnds, IInv, TypeOK
  <2> QED
    BY <2>1, <2>2, <2>3 DEF Provider
<1>5. /\ emitted' \in SUBSET Events
      /\ envelope' \in [signed: SUBSET Signers,
                         outcome: {"none", "open", "completed", "declined", "expired"}]
  BY DEF Provider, SignerViews, SignerSigns, EnvelopeEnds, IInv, TypeOK, Events
<1>6. TypeOK'
  BY <1>1, <1>5 DEF IInv, TypeOK
<1>7. ProviderInv'
  <2>1. CASE SignerViews
    BY <2>1, <1>2 DEF SignerViews, IInv, ProviderInv, Signed, Event
  <2>2. ASSUME NEW s \in Signers, SignerSigns(s) PROVE ProviderInv'
    <3> DEFINE signed == envelope.signed \cup {s}
    <3>1. envelope' = [signed |-> signed, outcome |-> IF signed = Signers THEN "completed" ELSE "open"]
      BY <2>2 DEF SignerSigns
    <3>2. \A e \in emitted' : e \in emitted \/ e = Signed(s) \/ (e = Event("completed") /\ signed = Signers)
      BY <2>2 DEF SignerSigns
    <3>3. \A t \in Signers : Signed(t) \in emitted' => t \in signed
      BY <3>2 DEF IInv, ProviderInv, Signed, Event
    <3>4. \A k \in {"completed", "declined", "expired"} :
            Event(k) \in emitted' => k = "completed" /\ signed = Signers
      BY <1>2, <3>2 DEF Signed, Event
    <3> HIDE DEF signed
    <3>5. envelope'.signed = signed /\ (envelope'.outcome = "completed" <=> signed = Signers)
      BY <3>1
    <3> QED
      BY <3>3, <3>4, <3>5 DEF ProviderInv
  <2>3. ASSUME NEW o \in {"declined", "expired"}, EnvelopeEnds(o) PROVE ProviderInv'
    <3>1. envelope'.signed = envelope.signed /\ envelope'.outcome = o
      BY <2>3 DEF EnvelopeEnds, IInv, TypeOK
    <3>2. emitted' = emitted \cup {Event(o)}
      BY <2>3 DEF EnvelopeEnds
    <3> QED
      BY <1>2, <3>1, <3>2 DEF IInv, ProviderInv, Signed, Event
  <2> QED
    BY <2>1, <2>2, <2>3 DEF Provider
<1>8. CreatingInv'
  BY <1>1, <1>2 DEF IInv, CreatingInv
<1>9. JobInv'
  BY <1>1, <1>4, OtherJobs DEF JobInv
<1>10. RowIsTruthful' /\ FiledIsExecuted'
  BY <1>1, <1>3, <1>4 DEF IInv, RowIsTruthful, FiledIsExecuted, Terminal
<1> QED
  BY <1>6, <1>7, <1>8, <1>9, <1>10 DEF IInv

-----------------------------------------------------------------------------
(* Steps of one process that leave the record alone *)

LEMMA QuietStep ==
  ASSUME IInv, NEW p \in Procs, job' \in [Procs -> Job], JobOK(p)',
         \A q \in Procs \ {p} : job'[q] = job[q],
         UNCHANGED <<creating, row, archived, filed, envelope, emitted>>,
         claims' \in SUBSET Events, answered' \in SUBSET Events,
         stranded' \in SUBSET Events, faults' \in Nat, crashes' \in Nat, nudges' \in Nat
  PROVE  IInv'
<1>1. TypeOK'
  BY DEF IInv, TypeOK
<1>2. ProviderInv' /\ CreatingInv' /\ RowIsTruthful' /\ FiledIsExecuted'
  BY DEF IInv, ProviderInv, CreatingInv, RowIsTruthful, FiledIsExecuted
<1>3. JobInv'
  BY OtherJobs DEF JobInv
<1> QED
  BY <1>1, <1>2, <1>3 DEF IInv

LEMMA AnswerStep ==
  ASSUME IInv, NEW p \in Procs, job[p].pc # "idle", Answer(p)
  PROVE  /\ job' \in [Procs -> Job] /\ JobOK(p)' /\ \A q \in Procs \ {p} : job'[q] = job[q]
         /\ answered' \in SUBSET Events
<1>1. job' \in [Procs -> Job] /\ JobOK(p)' /\ \A q \in Procs \ {p} : job'[q] = job[q]
  BY AnswerJob, IdleOK DEF IInv, TypeOK
<1>2. answered' \in SUBSET Events
  BY DEF Answer, IInv, TypeOK, JobInv, JobOK
<1> QED
  BY <1>1, <1>2

(* A process that goes on at pc keeps the rest of its job. *)
LEMMA GoOnStep ==
  ASSUME IInv, NEW p \in Procs, NEW pc \in {"read", "archive", "stored", "file"}, GoOn(p, pc),
         job[p].pc # "idle", row'.known,
         pc # "read" => row'.status = "completed", pc = "file" => archived',
         row.status = "completed" => row'.status = "completed",
         archived => archived', emitted \subseteq emitted'
  PROVE  /\ job' \in [Procs -> Job] /\ JobOK(p)' /\ \A q \in Procs \ {p} : job'[q] = job[q]
         /\ answered' \in SUBSET Events
<1>1. /\ job' \in [Procs -> Job] /\ job'[p] = [job[p] EXCEPT !.pc = pc]
      /\ \A q \in Procs \ {p} : job'[q] = job[q]
  BY GoOnJob DEF IInv, TypeOK
<1>2. job[p] \in Job /\ JobOK(p)
  BY DEF IInv, TypeOK, JobInv
<1>3. /\ job'[p].pc = pc /\ job'[p].event = job[p].event
      /\ job'[p].change = job[p].change /\ job'[p].saw = job[p].saw
  BY <1>1, <1>2 DEF Job
<1>4. JobOK(p)'
  BY <1>2, <1>3 DEF JobOK, Noting
<1>5. answered' \in SUBSET Events
  BY DEF GoOn, IInv, TypeOK
<1> QED
  BY <1>1, <1>4, <1>5

LEMMA ThrowStep ==
  ASSUME IInv, NEW p \in Procs, job[p].pc # "idle", Throw(p),
         UNCHANGED emitted, archived => archived', row.known => row'.known,
         row.status = "completed" => row'.status = "completed"
  PROVE  /\ job' \in [Procs -> Job] /\ JobOK(p)' /\ \A q \in Procs \ {p} : job'[q] = job[q]
         /\ answered' \in SUBSET Events
<1>1. job[p] \in Job /\ JobOK(p)
  BY DEF IInv, TypeOK, JobInv
<1>2. /\ job' \in [Procs -> Job] /\ \A q \in Procs \ {p} : job'[q] = job[q]
      /\ \/ Noting(p) /\ job[p].pc \in {"read", "write"} /\ job'[p] = [job[p] EXCEPT !.pc = "file"]
         \/ job[p].pc \notin {"resolve", "claim"} /\ job'[p] = [job[p] EXCEPT !.pc = "release"]
         \/ job'[p] = Idle
  BY ThrowJob DEF IInv, TypeOK
<1>3. job'[p] = Idle \/ /\ job'[p].event = job[p].event
                        /\ job'[p].change = job[p].change /\ job'[p].saw = job[p].saw
                        /\ job[p].pc # "resolve"
                        /\ (job'[p].pc = "file" /\ Noting(p)) \/ job'[p].pc = "release"
  BY <1>1, <1>2 DEF Job
<1>4. JobOK(p)'
  <2>1. CASE job'[p] = Idle
    BY <2>1, IdleOK
  <2>2. CASE job'[p] # Idle
    <3>1. job'[p].pc \notin {"idle", "resolve"} => row'.known
      BY <1>1, <1>3, <2>2 DEF JobOK, Noting
    <3> QED
      BY <1>1, <1>3, <2>2, <3>1 DEF JobOK, Noting
  <2> QED
    BY <2>1, <2>2
<1>5. answered' \in SUBSET Events
  BY DEF Throw, IInv, TypeOK
<1> QED
  BY <1>2, <1>4, <1>5

-----------------------------------------------------------------------------
(* Webhooks *)

LEMMA DeliverInv ==
  ASSUME IInv, NEW w \in Workers, NEW e \in Events, Deliver(w, e)
  PROVE  IInv'
<1> DEFINE new == [Idle EXCEPT !.pc = "resolve", !.event = e, !.change = e]
<1>1. w \in Procs /\ job[w].pc = "idle" /\ e \in emitted /\ job' = [job EXCEPT ![w] = new]
  BY DEF Deliver, Procs
<1>2. UNCHANGED <<creating, row, archived, filed, claims, envelope, emitted, answered, stranded, faults, crashes, nudges>>
  BY DEF Deliver, record, provider, budget
<1>3. /\ new \in Job /\ new.pc = "resolve" /\ new.event = e /\ new.change = e
      /\ new.saw = "draft" /\ e # Note
  BY IdleIsJob, ChangeKinds DEF Job
<1> HIDE DEF new
<1>4. job' \in [Procs -> Job] /\ job'[w] = new /\ \A q \in Procs \ {w} : job'[q] = job[q]
  BY <1>1, <1>3 DEF IInv, TypeOK
<1>5. JobOK(w)'
  BY <1>1, <1>2, <1>3, <1>4 DEF JobOK, Noting
<1> QED
  BY <1>1, <1>2, <1>4, <1>5, QuietStep DEF IInv, TypeOK

LEMMA ResolveInv ==
  ASSUME IInv, NEW w \in Workers, Resolve(w)
  PROVE  IInv'
<1>1. w \in Procs /\ job[w].pc = "resolve" /\ job[w] \in Job /\ JobOK(w)
  BY DEF Resolve, Procs, IInv, TypeOK, JobInv
<1>2. UNCHANGED <<creating, row, archived, filed, claims, envelope, emitted, stranded, faults, crashes, nudges>>
  BY DEF Resolve, record, budget
<1>3. CASE row.known
  <2> DEFINE new == [job[w] EXCEPT !.pc = "claim", !.saw = row.status]
  <2>1. job' = [job EXCEPT ![w] = new] /\ UNCHANGED answered
    BY <1>3 DEF Resolve, EnvelopeKnown, IInv, TypeOK
  <2>2. row.status \in Statuses
    BY DEF IInv, TypeOK, Row
  <2>3. /\ new \in Job /\ new.pc = "claim" /\ new.event = job[w].event
        /\ new.change = job[w].change /\ new.saw = row.status
    BY <1>1, <2>2 DEF Job
  <2> HIDE DEF new
  <2>4. job' \in [Procs -> Job] /\ job'[w] = new /\ \A q \in Procs \ {w} : job'[q] = job[q]
    BY <1>1, <2>1, <2>3 DEF IInv, TypeOK
  <2>5. JobOK(w)'
    <3>1. job'[w].pc \notin {"idle", "resolve"} => row'.known
      BY <1>2, <1>3
    <3> QED
      BY <1>1, <1>2, <2>3, <2>4, <3>1 DEF JobOK, Noting
  <2> QED
    BY <1>1, <1>2, <2>1, <2>4, <2>5, QuietStep DEF IInv, TypeOK
<1>4. CASE ~row.known
  <2>1. Answer(w)
    BY <1>4 DEF Resolve, EnvelopeKnown
  <2> QED
    BY <1>1, <1>2, <2>1, AnswerStep, QuietStep DEF IInv, TypeOK
<1> QED
  BY <1>3, <1>4

LEMMA ClaimInv ==
  ASSUME IInv, NEW w \in Workers, Claim(w)
  PROVE  IInv'
<1>1. w \in Procs /\ job[w].pc = "claim" /\ JobOK(w)
  BY DEF Claim, Procs, IInv, JobInv
<1>2. UNCHANGED <<creating, row, archived, filed, envelope, emitted, stranded, faults, crashes, nudges>>
  BY DEF Claim, record, budget
<1>3. claims' \in SUBSET Events
  BY <1>1 DEF Claim, JobOK, IInv, TypeOK
<1>4. CASE Answer(w)
  BY <1>1, <1>2, <1>3, <1>4, AnswerStep, QuietStep DEF IInv, TypeOK
<1>5. CASE GoOn(w, "read")
  <2>1. row'.known /\ row.status = row'.status
    BY <1>1, <1>2 DEF JobOK
  <2>2. job' \in [Procs -> Job] /\ JobOK(w)' /\ (\A q \in Procs \ {w} : job'[q] = job[q])
        /\ answered' \in SUBSET Events
    BY <1>1, <1>2, <1>5, <2>1, GoOnStep
  <2> QED
    BY <1>1, <1>2, <1>3, <2>2, QuietStep DEF IInv, TypeOK
<1> QED
  BY <1>4, <1>5 DEF Claim

LEMMA ReleaseInv ==
  ASSUME IInv, NEW w \in Workers, Release(w)
  PROVE  IInv'
<1>1. w \in Procs /\ job' = [job EXCEPT ![w] = Idle]
  BY DEF Release, Procs
<1>2. UNCHANGED <<creating, row, archived, filed, envelope, emitted, answered, faults, nudges>>
  BY DEF Release, record, provider
<1>3. claims' \in SUBSET Events /\ stranded' \in SUBSET Events /\ crashes' \in Nat
  BY DEF Release, ClaimReturned, Procs, IInv, TypeOK, JobInv, JobOK
<1>4. job' \in [Procs -> Job] /\ job'[w] = Idle /\ \A q \in Procs \ {w} : job'[q] = job[q]
  BY <1>1, IdleIsJob DEF IInv, TypeOK
<1> QED
  BY <1>1, <1>2, <1>3, <1>4, IdleOK, QuietStep DEF IInv, TypeOK

-----------------------------------------------------------------------------
(* mutate *)

LEMMA ReadInv ==
  ASSUME IInv, NEW p \in Procs, Read(p)
  PROVE  IInv'
<1>1. job[p].pc = "read" /\ job[p] \in Job /\ JobOK(p) /\ row \in Row
  BY DEF Read, IInv, TypeOK, JobInv
<1>2. UNCHANGED <<creating, row, archived, filed, claims, envelope, emitted, stranded, faults, crashes, nudges>>
  BY DEF Read, record, budget
<1>3. CASE ~Skips(job[p].change, row)
  <2> DEFINE new == [job[p] EXCEPT !.pc = "write", !.snap = row]
  <2>1. job' = [job EXCEPT ![p] = new] /\ UNCHANGED answered
    BY <1>3 DEF Read, IInv, TypeOK
  <2>2. /\ new \in Job /\ new.pc = "write" /\ new.event = job[p].event
        /\ new.change = job[p].change /\ new.saw = job[p].saw /\ new.snap = row
    BY <1>1 DEF Job
  <2> HIDE DEF new
  <2>3. job' \in [Procs -> Job] /\ job'[p] = new /\ \A q \in Procs \ {p} : job'[q] = job[q]
    BY <2>1, <2>2 DEF IInv, TypeOK
  <2>4. FreshSnap(p)'
    BY <1>1, <1>2, <1>3, <2>2, <2>3 DEF FreshSnap, Skips, Stale, Row
  <2>5. job'[p].pc \notin {"idle", "resolve"} => row'.known
    BY <1>1, <1>2 DEF JobOK
  <2>6. JobOK(p)'
    BY <1>1, <1>2, <2>2, <2>3, <2>4, <2>5 DEF JobOK, Noting
  <2> QED
    BY <1>2, <2>1, <2>3, <2>6, QuietStep DEF IInv, TypeOK
<1>4. CASE GoOn(p, "archive") /\ job[p].saw = "completed"
  <2>1. row'.known /\ row'.status = "completed"
    BY <1>1, <1>2, <1>4 DEF JobOK
  <2>2. job' \in [Procs -> Job] /\ JobOK(p)' /\ (\A q \in Procs \ {p} : job'[q] = job[q])
        /\ answered' \in SUBSET Events
    BY <1>1, <1>2, <1>4, <2>1, GoOnStep
  <2> QED
    BY <1>2, <2>2, QuietStep DEF IInv, TypeOK
<1>5. CASE Answer(p)
  BY <1>1, <1>2, <1>5, AnswerStep, QuietStep DEF IInv, TypeOK
<1> QED
  BY <1>3, <1>4, <1>5 DEF Read

(* What applying a change that is not skipped does to the row. *)
LEMMA AppliedRow ==
  ASSUME IInv, NEW e \in Changes, e \in Events => e \in emitted, ~Skips(e, row)
  PROVE  LET new == Applied(e, row) IN
         /\ new \in Row /\ new.version = row.version /\ (row.known => new.known)
         /\ row.signed \subseteq new.signed /\ new.signed \subseteq envelope.signed
         /\ new.status = "completed" => envelope.signed = Signers /\ new.signed = Signers
         /\ new.status \in {"declined", "expired"} => new.status = envelope.outcome
         /\ ORDER[row.status] <= ORDER[new.status]
         /\ row.status \in Terminal => new = row
<1> DEFINE new == Applied(e, row)
<1>1. row \in Row /\ RowIsTruthful /\ envelope.signed \subseteq Signers
  BY DEF IInv, TypeOK
<1>2. ORDER[row.status] <= ORDER[row.status]
  BY <1>1 DEF ORDER, Row
<1>3. CASE e \in {Nudge, Note}
  <2>1. e.kind \in {"nudge", "note"}
    BY <1>3 DEF Nudge, Note, Event
  <2>2. new = row
    BY <1>3, <2>1 DEF Applied
  <2> QED
    BY <1>1, <1>2, <2>2 DEF RowIsTruthful
<1>4. ASSUME NEW s \in Signers, e = Signed(s)
      PROVE  /\ new \in Row /\ new.version = row.version /\ (row.known => new.known)
             /\ row.signed \subseteq new.signed /\ new.signed \subseteq envelope.signed
             /\ new.status = "completed" => envelope.signed = Signers /\ new.signed = Signers
             /\ new.status \in {"partially-signed", "completed"}
             /\ row.status \notin Terminal
             /\ ORDER[row.status] <= ORDER[new.status]
  <2>1. e \in Events /\ e \notin {Nudge, Note} /\ e.kind = "signed" /\ e.by = s
    BY <1>4, ChangeKinds DEF Signed, Events
  <2>2. s \in envelope.signed /\ row.status \notin Terminal /\ ~Stale(e, row)
    BY <1>4, <2>1 DEF IInv, ProviderInv, Skips
  <2> DEFINE signed == IF e.by \in Named THEN row.signed \cup {e.by} ELSE row.signed
             status == AfterSignature(e, signed)
  <2>3. new = [row EXCEPT !.signed = signed, !.status = status]
    BY <2>1 DEF Applied
  <2>4. signed \subseteq envelope.signed /\ row.signed \subseteq signed /\ signed \subseteq Signers
    BY <1>1, <2>1, <2>2 DEF RowIsTruthful
  <2>5. status \in {"partially-signed", "completed"} /\ (status = "completed" => signed = Signers)
    BY DEF AfterSignature
  <2> HIDE DEF signed, status
  <2>6. status \in Statuses
    BY <2>5 DEF Statuses, Terminal
  <2>7. /\ new.signed = signed /\ new.status = status /\ new.version = row.version
        /\ new \in Row
    BY <1>1, <2>3, <2>4, <2>6 DEF Row
  <2>8. row.known => new.known
    BY <1>1, <2>3 DEF Row
  <2>9. ORDER[row.status] <= ORDER[new.status]
    BY <1>1, <2>1, <2>2, <2>5, <2>6, <2>7 DEF Stale, StatusOf, ORDER, Row, Statuses, Terminal
  <2> HIDE DEF new
  <2> QED
    BY <1>1, <2>2, <2>4, <2>5, <2>7, <2>8, <2>9
<1>5. ASSUME NEW k \in {"viewed", "completed", "declined", "expired"}, e = Event(k)
      PROVE  /\ new \in Row /\ new.version = row.version /\ (row.known => new.known)
             /\ row.signed \subseteq new.signed /\ new.signed \subseteq envelope.signed
             /\ new.status = k /\ (k = "completed" => envelope.signed = Signers /\ new.signed = Signers)
             /\ k \in {"declined", "expired"} => k = envelope.outcome
             /\ row.status \notin Terminal
             /\ ORDER[row.status] <= ORDER[new.status]
  <2>1. e \in Events /\ e \notin {Nudge, Note} /\ e.kind = k
    BY <1>5, ChangeKinds DEF Event, Events
  <2>2. row.status \notin Terminal /\ ~Stale(e, row)
    BY <2>1 DEF Skips
  <2>3. k \in {"completed", "declined", "expired"} => envelope.outcome = k
    BY <1>5, <2>1 DEF IInv, ProviderInv
  <2>4. k = "completed" => envelope.signed = Signers
    BY <2>3 DEF IInv, ProviderInv
  <2> DEFINE signed == IF k = "completed" THEN Signers ELSE row.signed
  <2>5. new = [row EXCEPT !.status = k, !.signed = signed]
    <3>1. CASE k = "completed"
      BY <2>1, <3>1 DEF Applied
    <3>2. CASE k # "completed"
      <4>1. new = [row EXCEPT !.status = k]
        BY <2>1, <3>2 DEF Applied
      <4> QED
        BY <1>1, <3>2, <4>1 DEF Row
    <3> QED
      BY <3>1, <3>2
  <2>6. signed \subseteq envelope.signed /\ row.signed \subseteq signed /\ signed \subseteq Signers
        /\ (k = "completed" => signed = Signers)
    BY <1>1, <2>4 DEF RowIsTruthful, Row
  <2>7. k \in Statuses
    BY DEF Statuses, Terminal
  <2> HIDE DEF signed
  <2>8. /\ new.signed = signed /\ new.status = k /\ new.version = row.version
        /\ new \in Row
    BY <1>1, <2>5, <2>6, <2>7 DEF Row
  <2>9. row.known => new.known
    BY <1>1, <2>5 DEF Row
  <2>10. ORDER[row.status] <= ORDER[new.status]
    BY <1>1, <2>1, <2>2, <2>7, <2>8 DEF Stale, StatusOf, ORDER, Row, Statuses, Terminal
  <2> HIDE DEF new
  <2> QED
    BY <2>2, <2>3, <2>4, <2>6, <2>8, <2>9, <2>10
<1> HIDE DEF new
<1> SUFFICES
      /\ new \in Row /\ new.version = row.version /\ (row.known => new.known)
      /\ row.signed \subseteq new.signed /\ new.signed \subseteq envelope.signed
      /\ new.status = "completed" => envelope.signed = Signers /\ new.signed = Signers
      /\ new.status \in {"declined", "expired"} => new.status = envelope.outcome
      /\ ORDER[row.status] <= ORDER[new.status]
      /\ row.status \in Terminal => new = row
    BY DEF new
<1>6. CASE e \in {Nudge, Note}
  BY <1>3, <1>6 DEF new
<1>7. CASE \E s \in Signers : e = Signed(s)
  BY <1>4, <1>7
<1>8. CASE \E k \in {"viewed", "completed", "declined", "expired"} : e = Event(k)
  BY <1>5, <1>8
<1> QED
  BY <1>6, <1>7, <1>8, ChangeKinds DEF Changes

(* What a write that passes the version check makes of the row. *)
LEMMA RowWrittenRow ==
  ASSUME IInv, NEW p \in Procs, RowWritten(p)
  PROVE  /\ row' \in Row /\ row'.version = row.version + 1
         /\ creating = "done" /\ row.known /\ row'.known
         /\ row.signed \subseteq row'.signed /\ row'.signed \subseteq envelope.signed
         /\ row'.status = "completed" => envelope.signed = Signers /\ row'.signed = Signers
         /\ row'.status \in {"declined", "expired"} => row'.status = envelope.outcome
         /\ ORDER[row.status] <= ORDER[row'.status]
         /\ row.status \in Terminal => row'.status = row.status
<1> DEFINE e == job[p].change
           new == Applied(e, row)
<1>1. /\ job[p].pc = "write" /\ job[p] \in Job /\ JobOK(p) /\ job[p].snap = row
      /\ row.known /\ e \in Changes /\ ~Skips(e, row) /\ (e \in Events => e \in emitted)
  BY DEF RowWritten, Unchanged, IInv, TypeOK, JobInv, JobOK, FreshSnap, Job
<1>2. row' = [new EXCEPT !.version = @ + 1]
  BY <1>1 DEF RowWritten
<1>3. /\ new \in Row /\ new.version = row.version /\ (row.known => new.known)
      /\ row.signed \subseteq new.signed /\ new.signed \subseteq envelope.signed
      /\ new.status = "completed" => envelope.signed = Signers /\ new.signed = Signers
      /\ new.status \in {"declined", "expired"} => new.status = envelope.outcome
      /\ ORDER[row.status] <= ORDER[new.status]
      /\ row.status \in Terminal => new = row
  BY <1>1, AppliedRow
<1> HIDE DEF new
<1>4. /\ row' \in Row /\ row'.version = row.version + 1
      /\ row'.signed = new.signed /\ row'.status = new.status
  BY <1>2, <1>3 DEF Row
<1>5. row'.known
  BY <1>1, <1>2, <1>3 DEF Row
<1>6. row.status \in Terminal => row'.status = row.status
  BY <1>3, <1>4
<1>7. creating = "done"
  <2>1. row # BlankRow
    BY <1>1 DEF BlankRow
  <2> QED
    BY <2>1 DEF IInv, CreatingInv
<1> QED
  BY <1>1, <1>3, <1>4, <1>5, <1>6, <1>7

(* The record after such a write, whether its answer arrives or not. *)
LEMMA RowWrittenInv ==
  ASSUME IInv, NEW p \in Procs, RowWritten(p),
         job' \in [Procs -> Job], JobOK(p)', \A q \in Procs \ {p} : job'[q] = job[q],
         answered' \in SUBSET Events, faults' \in Nat,
         UNCHANGED <<creating, archived, filed, claims, envelope, emitted, stranded, crashes, nudges>>
  PROVE  IInv'
<1>1. /\ row' \in Row /\ row'.version = row.version + 1
      /\ creating = "done" /\ row.known /\ row'.known
      /\ row.signed \subseteq row'.signed /\ row'.signed \subseteq envelope.signed
      /\ row'.status = "completed" => envelope.signed = Signers /\ row'.signed = Signers
      /\ row'.status \in {"declined", "expired"} => row'.status = envelope.outcome
      /\ row.status \in Terminal => row'.status = row.status
  BY RowWrittenRow
<1>2. row.status = "completed" => row'.status = "completed"
  BY <1>1 DEF Terminal
<1>3. TypeOK'
  BY <1>1 DEF IInv, TypeOK
<1>4. ProviderInv'
  BY DEF IInv, ProviderInv
<1>5. CreatingInv'
  BY <1>1 DEF CreatingInv
<1>6. JobInv'
  BY <1>1, <1>2, OtherJobs DEF JobInv
<1>7. RowIsTruthful' /\ FiledIsExecuted'
  BY <1>1, <1>2 DEF IInv, RowIsTruthful, FiledIsExecuted
<1> QED
  BY <1>3, <1>4, <1>5, <1>6, <1>7 DEF IInv

LEMMA WriteInv ==
  ASSUME IInv, NEW p \in Procs, Write(p)
  PROVE  IInv'
<1>1. RowWritten(p) /\ job[p].pc = "write" /\ JobOK(p)
  BY DEF Write, RowWritten, IInv, JobInv
<1>2. UNCHANGED <<creating, archived, filed, claims, envelope, emitted, stranded, faults, crashes, nudges>>
  BY DEF Write, budget
<1>3. /\ row'.known
      /\ row.status = "completed" => row'.status = "completed"
  BY <1>1, RowWrittenRow DEF Terminal
<1>4. /\ job' \in [Procs -> Job] /\ JobOK(p)' /\ \A q \in Procs \ {p} : job'[q] = job[q]
      /\ answered' \in SUBSET Events
  <2>1. CASE Answer(p)
    BY <1>1, <2>1, AnswerStep
  <2>2. CASE Noting(p) /\ GoOn(p, "file")
    <3>1. archived' /\ row'.status = "completed"
      BY <1>1, <1>2, <1>3, <2>2 DEF JobOK
    <3> QED
      BY <1>1, <1>2, <1>3, <2>2, <3>1, GoOnStep
  <2>3. CASE row'.status = "completed" /\ GoOn(p, "archive")
    BY <1>1, <1>2, <1>3, <2>3, GoOnStep
  <2> QED
    BY <2>1, <2>2, <2>3 DEF Write
<1>5. faults' \in Nat
  BY <1>2 DEF IInv, TypeOK
<1> QED
  BY <1>1, <1>2, <1>4, <1>5, RowWrittenInv

LEMMA ConflictInv ==
  ASSUME IInv, NEW p \in Procs, Conflict(p)
  PROVE  IInv'
<1>1. job[p].pc = "write" /\ job[p] \in Job /\ JobOK(p)
  BY DEF Conflict, IInv, TypeOK, JobInv
<1>2. UNCHANGED <<creating, row, archived, filed, claims, envelope, emitted, stranded, faults, crashes, nudges>>
  BY DEF Conflict, record, budget
<1>3. CASE job[p].tries + 1 < Attempts
  <2>0. PICK n \in Nat : n = job[p].tries + 1
    BY <1>1 DEF Job
  <2> DEFINE new == [job[p] EXCEPT !.pc = "read", !.tries = n]
  <2>1. job' = [job EXCEPT ![p] = new] /\ UNCHANGED answered
    BY <1>3, <2>0 DEF Conflict, IInv, TypeOK
  <2>2. /\ new \in Job /\ new.pc = "read" /\ new.event = job[p].event
        /\ new.change = job[p].change /\ new.saw = job[p].saw
    BY <1>1 DEF Job
  <2> HIDE DEF new
  <2>3. job' \in [Procs -> Job] /\ job'[p] = new /\ \A q \in Procs \ {p} : job'[q] = job[q]
    BY <2>1, <2>2 DEF IInv, TypeOK
  <2>4. job'[p].pc \notin {"idle", "resolve"} => row'.known
    BY <1>1, <1>2 DEF JobOK
  <2>5. JobOK(p)'
    BY <1>1, <1>2, <2>2, <2>3, <2>4 DEF JobOK, Noting
  <2> QED
    BY <1>2, <2>1, <2>3, <2>5, QuietStep DEF IInv, TypeOK
<1>4. CASE Throw(p)
  BY <1>1, <1>2, <1>4, ThrowStep, QuietStep DEF IInv, TypeOK
<1> QED
  BY <1>3, <1>4 DEF Conflict

-----------------------------------------------------------------------------
(* The executed agreement *)

LEMMA StartInv ==
  ASSUME IInv, ReconcileStart \/ NudgeStart
  PROVE  IInv'
<1> DEFINE New(pc) == [Idle EXCEPT !.pc = pc]
<1>1. \A pc \in {"read", "archive"} :
        New(pc) \in Job /\ New(pc).pc = pc /\ New(pc).change = Nudge /\ New(pc).saw = "draft"
  BY IdleIsJob DEF Job
<1>2. UNCHANGED <<creating, row, archived, filed, claims, envelope, emitted, answered, stranded, faults, crashes>>
      /\ nudges' \in Nat
  BY DEF ReconcileStart, NudgeStart, record, provider, budget, IInv, TypeOK
<1>3. PICK p \in Procs \ Workers, pc \in {"read", "archive"} :
        /\ job' = [job EXCEPT ![p] = New(pc)] /\ row.known
        /\ pc = "archive" => row.status = "completed"
  <2>1. row.status # "draft" => row.known
    BY DEF IInv, CreatingInv
  <2>2. CASE ReconcileStart
    <3>1. Reconciler \in Procs \ Workers
      BY SignatureAssumption DEF Procs
    <3> QED
      BY <2>1, <2>2, <3>1 DEF ReconcileStart, Unfiled
  <2>3. CASE NudgeStart
    <3>1. Nudger \in Procs \ Workers
      BY SignatureAssumption DEF Procs
    <3> QED
      BY <2>1, <2>3, <3>1 DEF NudgeStart
  <2> QED
    BY <2>2, <2>3
<1> HIDE DEF New
<1>4. /\ job' \in [Procs -> Job] /\ job'[p] = New(pc)
      /\ \A q \in Procs \ {p} : job'[q] = job[q]
  BY <1>1, <1>3 DEF IInv, TypeOK
<1>5. row'.known
  BY <1>2, <1>3
<1>6. JobOK(p)'
  BY <1>1, <1>2, <1>3, <1>4, <1>5, ChangeKinds DEF JobOK, Noting
<1> QED
  BY <1>2, <1>4, <1>6, QuietStep DEF IInv, TypeOK

LEMMA ArchiveInv ==
  ASSUME IInv, NEW p \in Procs, Archive(p)
  PROVE  IInv'
<1>1. job[p].pc = "archive" /\ JobOK(p)
  BY DEF Archive, IInv, JobInv
<1>2. UNCHANGED <<creating, row, archived, filed, claims, envelope, emitted, stranded, faults, crashes, nudges>>
  BY DEF Archive, record, budget
<1>3. row'.known /\ row'.status = "completed"
  BY <1>1, <1>2 DEF JobOK
<1>4. PICK pc \in {"file", "stored"} : GoOn(p, pc) /\ (pc = "file" => archived)
  BY DEF Archive
<1>5. job' \in [Procs -> Job] /\ JobOK(p)' /\ (\A q \in Procs \ {p} : job'[q] = job[q])
      /\ answered' \in SUBSET Events
  BY <1>1, <1>2, <1>3, <1>4, GoOnStep
<1> QED
  BY <1>2, <1>5, QuietStep DEF IInv, TypeOK

(* The record after the executed bytes are stored or filed, whether the answer
   arrives or not. *)
LEMMA KeptInv ==
  ASSUME IInv, NEW p \in Procs, row.status = "completed",
         archived' \in BOOLEAN, filed' \in BOOLEAN, archived => archived', filed' => archived',
         job' \in [Procs -> Job], JobOK(p)', \A q \in Procs \ {p} : job'[q] = job[q],
         answered' \in SUBSET Events, faults' \in Nat,
         UNCHANGED <<creating, row, claims, envelope, emitted, stranded, crashes, nudges>>
  PROVE  IInv'
<1>1. JobInv'
  BY OtherJobs DEF JobInv
<1>2. TypeOK'
  BY DEF IInv, TypeOK
<1>3. ProviderInv' /\ CreatingInv' /\ RowIsTruthful'
  BY DEF IInv, ProviderInv, CreatingInv, RowIsTruthful
<1>4. FiledIsExecuted'
  BY DEF IInv, FiledIsExecuted, RowIsTruthful, ProviderInv
<1> QED
  BY <1>1, <1>2, <1>3, <1>4 DEF IInv

LEMMA PersistArchiveInv ==
  ASSUME IInv, NEW p \in Procs, PersistArchive(p)
  PROVE  IInv'
<1>1. job[p].pc = "stored" /\ job[p] \in Job /\ JobOK(p)
  BY DEF PersistArchive, IInv, TypeOK, JobInv
<1>2. UNCHANGED <<creating, row, filed, claims, envelope, emitted, stranded, faults, crashes, nudges>>
  BY DEF PersistArchive, budget
<1>3. CASE archived
  <2>1. Throw(p) /\ UNCHANGED archived
    BY <1>3 DEF PersistArchive
  <2>2. job' \in [Procs -> Job] /\ JobOK(p)' /\ (\A q \in Procs \ {p} : job'[q] = job[q])
        /\ answered' \in SUBSET Events
    BY <1>1, <1>2, <2>1, ThrowStep
  <2> QED
    BY <1>2, <2>1, <2>2, QuietStep DEF IInv, TypeOK
<1>4. CASE ~archived
  <2> DEFINE new == [job[p] EXCEPT !.pc = "read", !.change = Note, !.tries = 0]
  <2>1. archived' = TRUE /\ job' = [job EXCEPT ![p] = new] /\ UNCHANGED answered
    BY <1>4 DEF PersistArchive, IInv, TypeOK
  <2>2. /\ new \in Job /\ new.pc = "read" /\ new.event = job[p].event
        /\ new.change = Note /\ new.saw = job[p].saw
    BY <1>1, ChangeKinds DEF Job
  <2> HIDE DEF new
  <2>3. job' \in [Procs -> Job] /\ job'[p] = new /\ \A q \in Procs \ {p} : job'[q] = job[q]
    BY <2>1, <2>2 DEF IInv, TypeOK
  <2>4. row'.known /\ row.status = "completed" /\ row'.status = "completed"
    BY <1>1, <1>2 DEF JobOK
  <2>5. JobOK(p)'
    BY <1>1, <1>2, <2>1, <2>2, <2>3, <2>4, ChangeKinds DEF JobOK, Noting
  <2> QED
    BY <1>1, <1>2, <2>1, <2>3, <2>4, <2>5, KeptInv DEF IInv, TypeOK
<1> QED
  BY <1>3, <1>4

LEMMA FileInv ==
  ASSUME IInv, NEW p \in Procs, File(p)
  PROVE  IInv'
<1>1. job[p].pc = "file" /\ archived /\ filed' = TRUE /\ Answer(p) /\ row.status = "completed"
  BY DEF File, Executed, IInv, JobInv, JobOK
<1>2. UNCHANGED <<creating, row, archived, claims, envelope, emitted, stranded, faults, crashes, nudges>>
  BY DEF File, budget
<1>3. /\ job' \in [Procs -> Job] /\ JobOK(p)' /\ \A q \in Procs \ {p} : job'[q] = job[q]
      /\ answered' \in SUBSET Events
  BY <1>1, AnswerStep
<1> QED
  BY <1>1, <1>2, <1>3, KeptInv DEF IInv, TypeOK

(* A failing call, which may have done its work before it failed. *)
LEMMA FaultInv ==
  ASSUME IInv, NEW p \in Procs, Fault(p)
  PROVE  IInv'
<1>1. /\ job[p].pc # "idle" /\ Throw(p) /\ faults' \in Nat /\ JobOK(p)
      /\ UNCHANGED <<creating, envelope, emitted, crashes, nudges>>
  BY DEF Fault, IInv, TypeOK, JobInv
<1>2. CASE UNCHANGED <<record, claims, stranded>>
  BY <1>1, <1>2, ThrowStep, QuietStep DEF IInv, TypeOK, record
<1>3. CASE job[p].pc = "claim" /\ Landed(p)
  <2>1. /\ job' \in [Procs -> Job] /\ JobOK(p)' /\ (\A q \in Procs \ {p} : job'[q] = job[q])
        /\ answered' \in SUBSET Events /\ UNCHANGED <<row, archived, filed>>
    BY <1>1, <1>3, ThrowStep DEF Landed, RowWritten, Executed, record
  <2>2. CASE claims' = claims \cup {job[p].event} /\ stranded' = stranded \cup ({job[p].event} \ claims)
    <3>1. job[p].event \in Events
      BY <1>1, <1>3 DEF JobOK, IInv
    <3> QED
      BY <1>1, <2>1, <2>2, <3>1, QuietStep DEF IInv, TypeOK
  <2> QED
    BY <1>3, <2>2 DEF Landed, RowWritten, Executed
<1>4. CASE RowWritten(p) /\ UNCHANGED <<archived, filed, claims, stranded>>
  <2>1. /\ job[p].pc = "write" /\ row'.known
        /\ row.status = "completed" => row'.status = "completed"
    BY <1>4, RowWrittenRow DEF RowWritten, Terminal
  <2>2. /\ job' \in [Procs -> Job] /\ JobOK(p)' /\ \A q \in Procs \ {p} : job'[q] = job[q]
        /\ answered' \in SUBSET Events
    BY <1>1, <1>4, <2>1, ThrowStep
  <2> QED
    BY <1>1, <1>4, <2>2, RowWrittenInv
<1>5. CASE \/ job[p].pc = "stored" /\ archived' = TRUE /\ UNCHANGED <<row, filed, claims, stranded>>
           \/ Executed(p) /\ UNCHANGED <<row, archived, claims, stranded>>
  <2>1. /\ row.status = "completed" /\ UNCHANGED <<row, claims, stranded>>
        /\ archived' \in BOOLEAN /\ filed' \in BOOLEAN /\ (archived => archived') /\ (filed' => archived')
    BY <1>1, <1>5 DEF Executed, JobOK, IInv, TypeOK, FiledIsExecuted
  <2>2. /\ job' \in [Procs -> Job] /\ JobOK(p)' /\ \A q \in Procs \ {p} : job'[q] = job[q]
        /\ answered' \in SUBSET Events
    BY <1>1, <2>1, ThrowStep
  <2> QED
    BY <1>1, <2>1, <2>2, KeptInv
<1> QED
  BY <1>2, <1>3, <1>4, <1>5 DEF Fault, Landed

LEMMA CrashInv ==
  ASSUME IInv, NEW p \in Procs, Crash(p)
  PROVE  IInv'
<1>1. /\ job' = [job EXCEPT ![p] = Idle] /\ crashes' \in Nat
      /\ UNCHANGED <<creating, row, archived, filed, claims, envelope, emitted, answered, faults, nudges>>
  BY DEF Crash, record, provider, IInv, TypeOK
<1>2. stranded' \in SUBSET Events
  BY DEF Crash, IInv, TypeOK, JobInv, JobOK
<1>3. job' \in [Procs -> Job] /\ job'[p] = Idle /\ \A q \in Procs \ {p} : job'[q] = job[q]
  BY <1>1, IdleIsJob DEF IInv, TypeOK
<1> QED
  BY <1>1, <1>2, <1>3, IdleOK, QuietStep DEF IInv, TypeOK

-----------------------------------------------------------------------------
(* The theorems *)

LEMMA InitInvariant == Init => IInv
<1> SUFFICES ASSUME Init PROVE IInv
  OBVIOUS
<1> USE DEF Init
<1>1. /\ row = BlankRow /\ row.status = "draft" /\ row.signed = {} /\ row.version = 0
      /\ row \in Row /\ ~row.known
  BY DEF BlankRow, Row, Statuses, Terminal
<1>2. archived \in BOOLEAN /\ filed \in BOOLEAN /\ ~archived /\ ~filed
  OBVIOUS
<1>3. job \in [Procs -> Job] /\ \A p \in Procs : job[p] = Idle
  BY IdleIsJob
<1>4. TypeOK
  BY <1>1, <1>2, <1>3 DEF TypeOK
<1>5. ProviderInv
  BY SignatureAssumption DEF ProviderInv
<1>6. CreatingInv
  BY <1>1 DEF CreatingInv
<1>7. JobInv
  BY <1>3, IdleIsJob, ChangeKinds DEF JobInv, JobOK, Noting
<1>8. RowIsTruthful /\ FiledIsExecuted
  BY <1>1, <1>2 DEF RowIsTruthful, FiledIsExecuted
<1> QED
  BY <1>4, <1>5, <1>6, <1>7, <1>8 DEF IInv

LEMMA NextInvariant == IInv /\ [Next]_vars => IInv'
<1> SUFFICES ASSUME IInv, [Next]_vars PROVE IInv'
  OBVIOUS
<1>1. CASE Sending
  BY <1>1, SendingInv
<1>2. CASE Provider
  BY <1>2, ProviderStepInv
<1>3. ASSUME NEW w \in Workers, Webhook(w) \/ \E e \in Events : Deliver(w, e) PROVE IInv'
  BY <1>3, DeliverInv, ResolveInv, ClaimInv, ReleaseInv DEF Webhook
<1>4. CASE ReconcileStart \/ NudgeStart
  BY <1>4, StartInv
<1>5. ASSUME NEW p \in Procs, Work(p) \/ Fault(p) \/ Crash(p) PROVE IInv'
  BY <1>5, ReadInv, WriteInv, ConflictInv, ArchiveInv, PersistArchiveInv, FileInv, FaultInv, CrashInv DEF Work
<1>6. CASE UNCHANGED vars
  <2>1. UNCHANGED <<creating, row, archived, filed, claims, envelope, emitted, answered, job,
                    stranded, faults, crashes, nudges>>
    BY <1>6 DEF vars, record, provider, budget
  <2>2. JobInv'
    BY <2>1, OtherJobs DEF JobInv
  <2>3. TypeOK'
    BY <2>1 DEF IInv, TypeOK
  <2> QED
    BY <2>1, <2>2, <2>3 DEF IInv, ProviderInv, CreatingInv, RowIsTruthful, FiledIsExecuted
<1> QED
  BY <1>1, <1>2, <1>3, <1>4, <1>5, <1>6 DEF Next

THEOREM Invariance == Spec => []IInv
BY InitInvariant, NextInvariant, PTL DEF Spec

(* Every variable keeps its type, whatever the interleaving. *)
THEOREM TypeCorrect == Spec => []TypeOK
BY Invariance, PTL DEF IInv

(* Concord's record of a signing never runs ahead of the provider, and a request
   counts as completed only with every signature. *)
THEOREM Truthful == Spec => []RowIsTruthful
BY Invariance, PTL DEF IInv

(* Only a fully signed request is archived, and only an archived one is filed. *)
THEOREM FiledExecuted == Spec => []FiledIsExecuted
BY Invariance, PTL DEF IInv

(* The steps that write the row. *)
LEMMA RowWriters ==
  ASSUME Next, ~UNCHANGED row
  PROVE  \/ StoreSent \/ EnvelopeRefused \/ CreateLost
         \/ \E p \in Procs : RowWritten(p) /\ UNCHANGED <<creating, filed>>
BY DEF Next, Sending, Provider, Webhook, Work, CreateEnvelope, SignerViews,
   SignerSigns, EnvelopeEnds, Deliver, Resolve, Claim, Release, Read, Write, Conflict, Archive,
   PersistArchive, File, Executed, ReconcileStart, NudgeStart, Fault, Landed, Crash, record

(* No two writers erase one another's event: signatures only accumulate, the
   status only moves forward and a terminal status is final. *)
THEOREM NothingErased == Spec => NothingIsErased
<1> DEFINE Step == /\ row.signed \subseteq row'.signed
                   /\ ORDER[row.status] <= ORDER[row'.status]
                   /\ row.status \in Terminal => row'.status = row.status
<1>1. IInv /\ [Next]_vars => [Step]_vars
  <2> SUFFICES ASSUME IInv, Next PROVE Step
    OBVIOUS
  <2>1. CASE UNCHANGED row
    BY <2>1 DEF IInv, TypeOK, Row, ORDER
  <2>2. CASE ~UNCHANGED row
    <3>1. (\E p \in Procs : RowWritten(p)) \/ StoreSent \/ EnvelopeRefused \/ CreateLost
      BY <2>2, RowWriters
    <3>2. CASE \E p \in Procs : RowWritten(p)
      BY <3>2, RowWrittenRow
    <3>3. CASE StoreSent \/ EnvelopeRefused \/ CreateLost
      <4>1. row.status = "draft" /\ row \in Row /\ row.signed = {}
        <5>1. CASE StoreSent
          BY <5>1 DEF IInv, TypeOK, CreatingInv, BlankRow, StoreSent
        <5>2. CASE EnvelopeRefused
          BY <5>2 DEF IInv, TypeOK, CreatingInv, BlankRow, EnvelopeRefused
        <5>3. CASE CreateLost
          BY <5>3 DEF IInv, TypeOK, CreatingInv, BlankRow, CreateLost
        <5> QED
          BY <3>3, <5>1, <5>2, <5>3
      <4>2. row'.status \in {"draft", "sent"}
        BY <3>3, <4>1 DEF StoreSent, EnvelopeRefused, CreateLost, Row
      <4> QED
        BY <4>1, <4>2 DEF ORDER, Statuses, Terminal
    <3> QED
      BY <3>1, <3>2, <3>3
  <2> QED
    BY <2>1, <2>2
<1>2. Spec => [][Step]_vars
  BY <1>1, Invariance, PTL DEF Spec
<1> QED
  BY <1>2 DEF NothingIsErased

-----------------------------------------------------------------------------
(* Claims *)

Works(j) == j.pc \notin {"idle", "resolve", "claim"}

(* A handler takes up no event in this step, and leaves one only when it was
   answered or lost. *)
KeepsWork(w) ==
  /\ Works(job'[w]) => Works(job[w]) /\ job'[w].event = job[w].event
  /\ Works(job[w]) => Works(job'[w]) \/ job[w].event \in answered' \cup stranded'

LEMMA OwnersStay ==
  ASSUME ClaimsHaveOwners, UNCHANGED claims, answered \subseteq answered',
         stranded \subseteq stranded', \A w \in Workers : KeepsWork(w)
  PROVE  ClaimsHaveOwners'
<1> SUFFICES ASSUME NEW e \in Events
             PROVE  /\ \A v, w \in WorkOn(e)' : v = w
                    /\ WorkOn(e)' # {} => e \in claims
                    /\ e \in claims => e \in answered' \cup stranded' \/ WorkOn(e)' # {}
  BY DEF ClaimsHaveOwners
<1>1. /\ \A v, w \in WorkOn(e) : v = w
      /\ WorkOn(e) # {} => e \in claims
      /\ e \in claims => e \in answered \cup stranded \/ WorkOn(e) # {}
  BY DEF ClaimsHaveOwners
<1>2. WorkOn(e)' \subseteq WorkOn(e)
  BY DEF WorkOn, KeepsWork, Works
<1>3. \A w \in WorkOn(e) : w \in WorkOn(e)' \/ e \in answered' \cup stranded'
  BY DEF WorkOn, KeepsWork, Works
<1> QED
  BY <1>1, <1>2, <1>3

(* A step of one process keeps the work of the others. *)
LEMMA OneMoves ==
  ASSUME NEW p \in Procs, \A q \in Procs \ {p} : job'[q] = job[q],
         p \in Workers => KeepsWork(p)
  PROVE  \A w \in Workers : KeepsWork(w)
BY DEF KeepsWork, Procs

LEMMA AnswerKeepsWork ==
  ASSUME IInv, NEW p \in Procs, Answer(p)
  PROVE  /\ answered \subseteq answered'
         /\ \A w \in Workers : KeepsWork(w)
<1>1. job'[p] = Idle /\ \A q \in Procs \ {p} : job'[q] = job[q]
  BY AnswerJob DEF IInv, TypeOK
<1>2. p \in Workers => KeepsWork(p)
  BY <1>1, IdleIsJob DEF Answer, KeepsWork, Works
<1> QED
  BY <1>1, <1>2, OneMoves DEF Answer

LEMMA GoOnKeepsWork ==
  ASSUME IInv, NEW p \in Procs, NEW pc \in {"read", "archive", "stored", "file"},
         Works(job[p]), GoOn(p, pc)
  PROVE  /\ answered \subseteq answered'
         /\ \A w \in Workers : KeepsWork(w)
<1>1. job'[p] = [job[p] EXCEPT !.pc = pc] /\ \A q \in Procs \ {p} : job'[q] = job[q]
  BY GoOnJob DEF IInv, TypeOK
<1>2. job[p] \in Job
  BY DEF IInv, TypeOK
<1>3. job'[p].event = job[p].event /\ job'[p].pc = pc
  BY <1>1, <1>2 DEF Job
<1>4. KeepsWork(p)
  BY <1>3 DEF KeepsWork, Works
<1> QED
  BY <1>1, <1>4, OneMoves DEF GoOn

(* An exception takes a handler to the release of its claim. *)
LEMMA ThrowKeepsWork ==
  ASSUME IInv, NEW p \in Procs, job[p].pc # "idle", Throw(p)
  PROVE  /\ answered \subseteq answered'
         /\ \A w \in Workers : KeepsWork(w)
<1>1. job[p] \in Job /\ \A q \in Procs \ {p} : job'[q] = job[q]
  BY ThrowJob DEF IInv, TypeOK
<1>2. CASE p \in Workers /\ Works(job[p])
  <2>1. PICK pc \in {"file", "release"} : job'[p] = [job[p] EXCEPT !.pc = pc]
    BY <1>2 DEF Throw, Works, IInv, TypeOK
  <2>2. job'[p].event = job[p].event /\ job'[p].pc = pc
    BY <1>1, <2>1 DEF Job
  <2>3. KeepsWork(p)
    BY <1>2, <2>2 DEF KeepsWork, Works
  <2> QED
    BY <1>1, <2>3, OneMoves DEF Throw
<1>3. CASE p \in Workers /\ ~Works(job[p])
  <2>1. job'[p] = Idle
    BY <1>3 DEF Throw, Works, IInv, TypeOK
  <2>2. KeepsWork(p)
    BY <1>3, <2>1, IdleIsJob DEF KeepsWork, Works
  <2> QED
    BY <1>1, <2>2, OneMoves DEF Throw
<1> QED
  BY <1>1, <1>2, <1>3, OneMoves DEF Throw

LEMMA InitClaims == Init => ClaimsHaveOwners
BY DEF Init, ClaimsHaveOwners, WorkOn, Idle, Procs

(* One handler wins an event nobody holds. *)
LEMMA ClaimTakes ==
  ASSUME IInv, ClaimsHaveOwners, NEW w \in Workers, Claim(w)
  PROVE  ClaimsHaveOwners'
<1>1. w \in Procs /\ job[w].pc = "claim" /\ job[w].event \in Events /\ UNCHANGED stranded
  BY DEF Claim, Procs, IInv, JobInv, JobOK, budget
<1>2. CASE job[w].event \in claims
  <2>1. UNCHANGED claims /\ Answer(w)
    BY <1>2 DEF Claim, AlreadyProcessed
  <2> QED
    BY <1>1, <2>1, AnswerKeepsWork, OwnersStay
<1>3. CASE job[w].event \notin claims
  <2>0. PICK mine \in Events : job[w].event = mine
    BY <1>1
  <2>1. claims' = claims \cup {mine} /\ GoOn(w, "read") /\ UNCHANGED answered
    BY <1>3, <2>0 DEF Claim, AlreadyProcessed, GoOn
  <2>2. /\ job'[w] = [job[w] EXCEPT !.pc = "read"] /\ job[w] \in Job
        /\ \A q \in Procs \ {w} : job'[q] = job[q]
    BY <1>1, <2>1, GoOnJob DEF IInv, TypeOK
  <2>3. job'[w].pc = "read" /\ job'[w].event = mine
    BY <2>0, <2>2 DEF Job
  <2>4. WorkOn(mine) = {}
    BY <1>3, <2>0 DEF ClaimsHaveOwners
  <2>5. WorkOn(mine)' = {w}
    <3>1. w \in WorkOn(mine)'
      BY <2>3 DEF WorkOn
    <3>2. \A v \in Workers \ {w} : v \notin WorkOn(mine)'
      BY <2>2, <2>4 DEF WorkOn, Procs
    <3>3. WorkOn(mine)' \subseteq Workers
      BY DEF WorkOn
    <3> QED
      BY <3>1, <3>2, <3>3
  <2>6. \A e \in Events \ {mine} : WorkOn(e)' = WorkOn(e)
    BY <1>1, <2>0, <2>2, <2>3 DEF WorkOn, Procs
  <2> QED
    BY <1>1, <2>1, <2>5, <2>6 DEF ClaimsHaveOwners
<1> QED
  BY <1>2, <1>3

(* A claim given back has no owner left, and the event is open again. *)
LEMMA ReleaseFrees ==
  ASSUME IInv, ClaimsHaveOwners, NEW w \in Workers, Release(w)
  PROVE  ClaimsHaveOwners'
<1>1. /\ w \in Procs /\ job[w].pc = "release" /\ job[w].event \in Events
      /\ job'[w] = Idle /\ \A q \in Procs \ {w} : job'[q] = job[q]
      /\ UNCHANGED answered
  BY DEF Release, Procs, IInv, TypeOK, JobInv, JobOK, provider
<1>2. CASE UNCHANGED claims /\ stranded' = stranded \cup {job[w].event}
  <2>1. KeepsWork(w)
    BY <1>1, <1>2, IdleIsJob DEF KeepsWork, Works
  <2> QED
    BY <1>1, <1>2, <2>1, OneMoves, OwnersStay
<1>3. CASE claims' = ClaimReturned(w) /\ UNCHANGED stranded
  <2>0. PICK mine \in Events : job[w].event = mine
    BY <1>1
  <2>1. claims' = claims \ {mine}
    BY <1>3, <2>0 DEF ClaimReturned
  <2>2. WorkOn(mine) = {w}
    BY <1>1, <2>0 DEF ClaimsHaveOwners, WorkOn
  <2>3. WorkOn(mine)' = {}
    BY <1>1, <2>2, IdleIsJob DEF WorkOn, Procs
  <2>4. \A e \in Events \ {mine} : WorkOn(e)' = WorkOn(e)
    BY <1>1, <2>0, IdleIsJob DEF WorkOn, Procs
  <2> QED
    BY <1>1, <1>3, <2>1, <2>3, <2>4 DEF ClaimsHaveOwners
<1> QED
  BY <1>2, <1>3 DEF Release

LEMMA WorkKeepsOwners ==
  ASSUME IInv, ClaimsHaveOwners, NEW p \in Procs, Work(p)
  PROVE  ClaimsHaveOwners'
<1>1. UNCHANGED <<claims, stranded>> /\ Works(job[p]) /\ job[p].pc # "idle"
  BY DEF Work, Read, Write, RowWritten, Conflict, Archive, PersistArchive, File, Executed, Works, budget
<1>2. CASE Answer(p) \/ Throw(p) \/ \E pc \in {"read", "archive", "stored", "file"} : GoOn(p, pc)
  BY <1>1, <1>2, AnswerKeepsWork, ThrowKeepsWork, GoOnKeepsWork, OwnersStay
<1>3. CASE /\ UNCHANGED answered
           /\ \E new \in Job : Works(new) /\ new.event = job[p].event /\ job' = [job EXCEPT ![p] = new]
  <2>1. PICK new \in Job : Works(new) /\ new.event = job[p].event /\ job' = [job EXCEPT ![p] = new]
    BY <1>3
  <2>2. job'[p] = new /\ \A q \in Procs \ {p} : job'[q] = job[q]
    BY <2>1 DEF IInv, TypeOK
  <2>3. KeepsWork(p)
    BY <1>1, <2>1, <2>2 DEF KeepsWork
  <2> QED
    BY <1>1, <1>3, <2>2, <2>3, OneMoves, OwnersStay
<1>4. ASSUME NEW new, job' = [job EXCEPT ![p] = new], UNCHANGED answered,
             \/ new = [job[p] EXCEPT !.pc = "write", !.snap = row]
             \/ new = [job[p] EXCEPT !.pc = "read", !.change = Note, !.tries = 0]
             \/ new = [job[p] EXCEPT !.pc = "read", !.tries = @ + 1]
      PROVE  ClaimsHaveOwners'
  <2>1. job[p] \in Job /\ row \in Row /\ Note \in Changes
    BY ChangeKinds DEF IInv, TypeOK
  <2>2. new \in Job /\ Works(new) /\ new.event = job[p].event
    <3>1. CASE new = [job[p] EXCEPT !.pc = "write", !.snap = row]
      BY <2>1, <3>1 DEF Job, Works
    <3>2. CASE new = [job[p] EXCEPT !.pc = "read", !.change = Note, !.tries = 0]
      BY <2>1, <3>2 DEF Job, Works
    <3>3. CASE new = [job[p] EXCEPT !.pc = "read", !.tries = @ + 1]
      <4>1. job[p].tries + 1 \in Nat
        BY <2>1 DEF Job
      <4>2. new = [pc |-> "read", event |-> job[p].event, change |-> job[p].change, saw |-> job[p].saw,
                   snap |-> job[p].snap, tries |-> job[p].tries + 1]
        BY <2>1, <3>3 DEF Job
      <4> QED
        BY <2>1, <4>1, <4>2 DEF Job, Works
    <3> QED
      BY <1>4, <3>1, <3>2, <3>3
  <2> QED
    BY <1>3, <1>4, <2>2
<1>5. CASE Read(p)
  <2>1. CASE ~Skips(job[p].change, row)
    <3>1. job' = [job EXCEPT ![p] = [job[p] EXCEPT !.pc = "write", !.snap = row]] /\ UNCHANGED answered
      BY <1>5, <2>1 DEF Read, IInv, TypeOK
    <3> QED
      BY <1>4, <3>1
  <2>2. CASE Skips(job[p].change, row)
    BY <1>2, <1>5, <2>2 DEF Read
  <2> QED
    BY <2>1, <2>2
<1>6. CASE Conflict(p)
  <2>1. CASE job[p].tries + 1 < Attempts
    <3>1. job' = [job EXCEPT ![p] = [job[p] EXCEPT !.pc = "read", !.tries = @ + 1]] /\ UNCHANGED answered
      BY <1>6, <2>1 DEF Conflict, IInv, TypeOK
    <3> QED
      BY <1>4, <3>1
  <2>2. CASE ~(job[p].tries + 1 < Attempts)
    BY <1>2, <1>6, <2>2 DEF Conflict
  <2> QED
    BY <2>1, <2>2
<1>7. CASE PersistArchive(p)
  <2>1. CASE archived
    BY <1>2, <1>7, <2>1 DEF PersistArchive
  <2>2. CASE ~archived
    <3>1. job' = [job EXCEPT ![p] = [job[p] EXCEPT !.pc = "read", !.change = Note, !.tries = 0]]
          /\ UNCHANGED answered
      BY <1>7, <2>2 DEF PersistArchive, IInv, TypeOK
    <3> QED
      BY <1>4, <3>1
  <2> QED
    BY <2>1, <2>2
<1>8. CASE Write(p)
  BY <1>2, <1>8 DEF Write
<1>9. CASE Archive(p) \/ File(p)
  BY <1>2, <1>9 DEF Archive, File
<1> QED
  BY <1>5, <1>6, <1>7, <1>8, <1>9 DEF Work

(* A failing call leaves a claim without an owner only by making one unheard. *)
LEMMA FaultKeepsOwners ==
  ASSUME IInv, ClaimsHaveOwners, NEW p \in Procs, Fault(p)
  PROVE  ClaimsHaveOwners'
<1>1. /\ job[p].pc # "idle" /\ Throw(p) /\ answered \subseteq answered'
      /\ \A w \in Workers : KeepsWork(w)
  BY ThrowKeepsWork DEF Fault
<1>2. CASE UNCHANGED <<claims, stranded>>
  BY <1>1, <1>2, OwnersStay
<1>3. CASE ~UNCHANGED <<claims, stranded>>
  <2>1. /\ job[p].pc = "claim" /\ UNCHANGED answered
        /\ claims' = claims \cup {job[p].event}
        /\ stranded' = stranded \cup ({job[p].event} \ claims)
    BY <1>1, <1>3 DEF Fault, Landed, Throw
  <2>2. p \in Workers
    BY <2>1 DEF IInv, JobInv, JobOK
  <2>3. job'[p] = Idle /\ \A q \in Procs \ {p} : job'[q] = job[q]
    BY <1>1, <2>1 DEF Throw, Noting, IInv, TypeOK
  <2>4. \A e \in Events : WorkOn(e)' = WorkOn(e)
    BY <2>1, <2>3, IdleIsJob DEF WorkOn, Procs
  <2> QED
    BY <2>1, <2>4 DEF ClaimsHaveOwners
<1> QED
  BY <1>2, <1>3

LEMMA StepClaims ==
  ASSUME IInv, ClaimsHaveOwners, [Next]_vars
  PROVE  ClaimsHaveOwners'
<1>1. ASSUME UNCHANGED <<claims, answered, job, stranded>>
      PROVE  ClaimsHaveOwners'
  <2>1. \A w \in Workers : KeepsWork(w)
    BY <1>1 DEF KeepsWork
  <2> QED
    BY <1>1, <2>1, OwnersStay
<1>3. CASE Sending \/ Provider \/ UNCHANGED vars
  BY <1>1, <1>3 DEF Sending, Provider, CreateEnvelope, StoreSent, EnvelopeRefused, CreateLost,
     SignerViews, SignerSigns, EnvelopeEnds, vars, provider, budget
<1>4. ASSUME NEW w \in Workers, NEW e \in Events, Deliver(w, e) PROVE ClaimsHaveOwners'
  <2>1. UNCHANGED <<claims, answered, stranded>> /\ w \in Procs /\ job[w].pc = "idle"
        /\ job' = [job EXCEPT ![w] = [Idle EXCEPT !.pc = "resolve", !.event = e, !.change = e]]
    BY <1>4 DEF Deliver, provider, budget, Procs
  <2>2. job'[w].pc = "resolve" /\ \A q \in Procs \ {w} : job'[q] = job[q]
    BY <2>1 DEF IInv, TypeOK, Idle
  <2>3. KeepsWork(w)
    BY <2>1, <2>2 DEF KeepsWork, Works
  <2> QED
    BY <2>1, <2>2, <2>3, OneMoves, OwnersStay
<1>5. ASSUME NEW w \in Workers, Resolve(w) PROVE ClaimsHaveOwners'
  <2>1. UNCHANGED <<claims, stranded>> /\ w \in Procs /\ job[w].pc = "resolve" /\ job[w] \in Job
    BY <1>5 DEF Resolve, budget, Procs, IInv, TypeOK
  <2>2. CASE Answer(w)
    BY <2>1, <2>2, AnswerKeepsWork, OwnersStay
  <2>3. CASE job' = [job EXCEPT ![w].pc = "claim", ![w].saw = row.status] /\ UNCHANGED answered
    <3>1. job'[w].pc = "claim" /\ \A q \in Procs \ {w} : job'[q] = job[q]
      BY <2>1, <2>3 DEF IInv, TypeOK, Job
    <3>2. KeepsWork(w)
      BY <2>1, <3>1 DEF KeepsWork, Works
    <3> QED
      BY <2>1, <2>3, <3>1, <3>2, OneMoves, OwnersStay
  <2> QED
    BY <1>5, <2>2, <2>3 DEF Resolve
<1>6. CASE ReconcileStart \/ NudgeStart
  <2>1. PICK p \in {Reconciler, Nudger} : \A q \in Procs \ {p} : job'[q] = job[q]
    BY <1>6 DEF ReconcileStart, NudgeStart, IInv, TypeOK
  <2>2. p \in Procs /\ p \notin Workers
    BY SignatureAssumption DEF Procs
  <2>3. UNCHANGED <<claims, answered, stranded>>
    BY <1>6 DEF ReconcileStart, NudgeStart, provider, budget
  <2> QED
    BY <2>1, <2>2, <2>3, OneMoves, OwnersStay
<1>7. ASSUME NEW p \in Procs, Fault(p) PROVE ClaimsHaveOwners'
  BY <1>7, FaultKeepsOwners
<1>8. ASSUME NEW p \in Procs, Crash(p) PROVE ClaimsHaveOwners'
  <2>1. UNCHANGED <<claims, answered>> /\ stranded \subseteq stranded'
        /\ job'[p] = Idle /\ \A q \in Procs \ {p} : job'[q] = job[q]
    BY <1>8 DEF Crash, provider, IInv, TypeOK
  <2>2. p \in Workers => KeepsWork(p)
    BY <1>8, <2>1, IdleIsJob DEF Crash, KeepsWork, Works
  <2> QED
    BY <2>1, <2>2, OneMoves, OwnersStay
<1> QED
  BY <1>3, <1>4, <1>5, <1>6, <1>7, <1>8, ClaimTakes, ReleaseFrees, WorkKeepsOwners
  DEF Next, Webhook

(* One handler at a time works on an event, and a claim that is left behind is
   the receipt of an answered event unless it was stranded - by a lost process, a
   failed release or a claim made unheard -, for any number of handlers, deliveries,
   faults and crashes. *)
THEOREM ClaimsAreOwned == Spec => []ClaimsHaveOwners
BY InitClaims, StepClaims, Invariance, PTL DEF Spec

-----------------------------------------------------------------------------
(* The agreement signs through this request *)

(* An envelope id is stored together with the first status after the draft. *)
KnownInv == row.known => row.status # "draft"

LEMMA InitKnown == Init => KnownInv
BY DEF Init, KnownInv, BlankRow

(* The status a handler may write over one that is not final. *)
LEMMA WrittenStatus ==
  ASSUME IInv, KnownInv, NEW p \in Procs, RowWritten(p)
  PROVE  /\ creating = "done" /\ row.status # "draft" /\ row'.status # "draft"
         /\ row'.status \in Statuses /\ row.status \in Statuses
         /\ row.status \in Terminal => row'.status = row.status
<1>1. /\ row' \in Row /\ creating = "done" /\ row.known
      /\ ORDER[row.status] <= ORDER[row'.status]
      /\ row.status \in Terminal => row'.status = row.status
  BY RowWrittenRow
<1>2. row.status \in Statuses /\ row'.status \in Statuses
  BY <1>1 DEF IInv, TypeOK, Row
<1>3. row.status # "draft"
  BY <1>1 DEF KnownInv
<1>4. row'.status # "draft"
  BY <1>1, <1>2, <1>3 DEF ORDER, Statuses, Terminal
<1> QED
  BY <1>1, <1>2, <1>3, <1>4

LEMMA StepKnown ==
  ASSUME IInv, KnownInv, [Next]_vars
  PROVE  KnownInv'
<1>1. CASE UNCHANGED row
  BY <1>1 DEF KnownInv
<1>2. CASE StoreSent
  <2>1. row'.status = "sent"
    BY <1>2 DEF StoreSent, IInv, TypeOK, Row
  <2> QED
    BY <2>1 DEF KnownInv
<1>3. CASE EnvelopeRefused \/ CreateLost
  <2>1. row'.known = row.known /\ row'.status = row.status
    BY <1>3 DEF EnvelopeRefused, CreateLost, IInv, TypeOK, Row
  <2> QED
    BY <2>1 DEF KnownInv
<1>4. ASSUME NEW p \in Procs, RowWritten(p) PROVE KnownInv'
  BY <1>4, WrittenStatus DEF KnownInv
<1> QED
  BY <1>1, <1>2, <1>3, <1>4, RowWriters DEF vars, record

(* The one envelope of the agreement moves from a status to the next. *)
LEMMA EnvelopeMoves ==
  ASSUME filed' = filed
  PROVE  LET before == {[doc |-> 1, version |-> 1, status |-> EnvelopeStatus]} IN
         \E e \in before :
           /\ e.doc = 1 /\ e.version = 1 /\ e.status = EnvelopeStatus
           /\ {[doc |-> 1, version |-> 1, status |-> EnvelopeStatus']}
                = (before \ {e}) \cup {[e EXCEPT !.status = EnvelopeStatus']}
OBVIOUS

LEMMA StoringDispatches ==
  ASSUME IInv, StoreSent
  PROVE  Agreement!SignDispatch("create")
<1>1. row.status = "draft" /\ row'.status = "sent" /\ creating = "accepted" /\ creating' = "done" /\ filed' = filed
  BY DEF IInv, TypeOK, Row, CreatingInv, BlankRow, StoreSent
<1>2. EnvelopeStatus = "draft" /\ EnvelopeStatus' = "sent"
  BY <1>1 DEF EnvelopeStatus, Terminal
<1>3. /\ Creating = [pc |-> "persisted", doc |-> 1, version |-> 1]
      /\ Creating' = [pc |-> "idle", doc |-> 0, version |-> 0]
  BY <1>1 DEF Creating
<1>4. [h \in {"create"} |-> Creating'] =
        [[h \in {"create"} |-> Creating] EXCEPT !["create"] = [pc |-> "idle", doc |-> 0, version |-> 0]]
  BY <1>3
<1> QED
  BY <1>1, <1>2, <1>3, <1>4, EnvelopeMoves
  DEF Agreement!SignDispatch, Agreement!IdlePrep, Agreement!contractVars, Agreement!approvalVars

LEMMA LosingAborts ==
  ASSUME IInv, EnvelopeRefused \/ CreateLost
  PROVE  Agreement!SignAbort("create")
<1>1. row'.status = row.status /\ creating # "done" /\ creating' = "done" /\ filed' = filed
  BY DEF IInv, TypeOK, Row, EnvelopeRefused, CreateLost
<1>2. EnvelopeStatus' = EnvelopeStatus
  BY <1>1 DEF EnvelopeStatus
<1>3. /\ Creating = [pc |-> "persisted", doc |-> 1, version |-> 1]
      /\ Creating' = [pc |-> "idle", doc |-> 0, version |-> 0]
  BY <1>1 DEF Creating
<1>4. [h \in {"create"} |-> Creating'] =
        [[h \in {"create"} |-> Creating] EXCEPT !["create"] = [pc |-> "idle", doc |-> 0, version |-> 0]]
  BY <1>3
<1> QED
  BY <1>1, <1>2, <1>3, <1>4
  DEF Agreement!SignAbort, Agreement!IdlePrep, Agreement!contractVars, Agreement!approvalVars,
      Agreement!signingVars

LEMMA WritingResolves ==
  ASSUME IInv, KnownInv, NEW p \in Procs, RowWritten(p), UNCHANGED <<creating, filed>>
  PROVE  \/ \E outcome \in {"completed", "closed"} : Agreement!EnvelopeResolves(outcome)
         \/ UNCHANGED shown
<1>1. filed' = filed /\ creating' = creating
  OBVIOUS
<1>2. Creating' = Creating
  BY <1>1 DEF Creating
<1>3. CASE EnvelopeStatus' = EnvelopeStatus
  BY <1>1, <1>2, <1>3 DEF shown
<1>4. CASE EnvelopeStatus' # EnvelopeStatus
  <2>1. EnvelopeStatus = "sent" /\ EnvelopeStatus' \in {"completed", "closed"}
    BY <1>4, WrittenStatus DEF EnvelopeStatus, Statuses, Terminal
  <2>2. Agreement!EnvelopeResolves(EnvelopeStatus')
    BY <1>1, <1>2, <2>1, EnvelopeMoves
    DEF Agreement!EnvelopeResolves, Agreement!contractVars, Agreement!approvalVars, Agreement!flightVars
  <2> QED
    BY <2>1, <2>2
<1> QED
  BY <1>3, <1>4

LEMMA FilingFiles ==
  ASSUME IInv, NEW p \in Procs, Executed(p), UNCHANGED <<row, creating>>
  PROVE  Agreement!FileExecuted \/ UNCHANGED shown
<1>1. /\ filed' = TRUE /\ filed \in BOOLEAN
      /\ row.status = "completed" /\ row' = row /\ creating' = creating
  BY DEF Executed, IInv, TypeOK, FiledIsExecuted
<1>2. EnvelopeStatus = "completed" /\ EnvelopeStatus' = EnvelopeStatus /\ Creating' = Creating
  BY <1>1 DEF EnvelopeStatus, Creating
<1>3. CASE filed
  BY <1>1, <1>2, <1>3 DEF shown
<1>4. CASE ~filed
  BY <1>1, <1>2, <1>4
  DEF Agreement!FileExecuted, Agreement!Backed, Approved, Agreement!approvalVars, Agreement!flightVars
<1> QED
  BY <1>1, <1>3, <1>4

LEMMA StepSigns ==
  ASSUME IInv, KnownInv, [Next]_vars
  PROVE  \/ Agreement!SignDispatch("create") \/ Agreement!SignAbort("create")
         \/ \E outcome \in {"completed", "closed"} : Agreement!EnvelopeResolves(outcome)
         \/ Agreement!FileExecuted
         \/ UNCHANGED shown
<1> DEFINE Files == \E p \in Procs : Executed(p) /\ UNCHANGED <<row, creating>>
<1>1. CASE Files
  BY <1>1, FilingFiles
<1>2. CASE ~UNCHANGED row
  BY <1>2, RowWriters, StoringDispatches, LosingAborts, WritingResolves DEF vars, record
<1>3. CASE UNCHANGED row /\ ~Files
  <2>1. CASE StoreSent \/ EnvelopeRefused \/ CreateLost
    BY <2>1, StoringDispatches, LosingAborts
  <2>2. CASE ~(StoreSent \/ EnvelopeRefused \/ CreateLost)
    <3>1. filed' = filed
      BY <1>3, <2>2 DEF Next, Sending, Provider, Webhook, Work, CreateEnvelope, SignerViews,
         SignerSigns, EnvelopeEnds, Deliver, Resolve, Claim, Release, Read, Write, Conflict, Archive,
         PersistArchive, File, ReconcileStart, NudgeStart, Fault, Landed, Crash, record, vars
    <3>2. creating' = creating \/ (creating = "persisted" /\ creating' = "accepted")
      BY <1>3, <2>2 DEF Next, Sending, Provider, Webhook, Work, CreateEnvelope, SignerViews,
         SignerSigns, EnvelopeEnds, Deliver, Resolve, Claim, Release, Read, Write, Conflict, Archive,
         PersistArchive, File, ReconcileStart, NudgeStart, Fault, Crash, vars
    <3>3. EnvelopeStatus' = EnvelopeStatus /\ Creating' = Creating
      BY <1>3, <3>2 DEF EnvelopeStatus, Creating
    <3> QED
      BY <3>1, <3>3 DEF shown
  <2> QED
    BY <2>1, <2>2
<1> QED
  BY <1>1, <1>2, <1>3

(* The request implements the signing of AgreementLifecycle: with any signatories,
   concurrent handlers, faults and crashes the agreement sees its envelope sent,
   resolved and filed once each, in that order, so the two models meet at a seam
   that neither takes on trust. *)
THEOREM SignsForTheAgreement == Spec => SignsTheAgreement
<1> DEFINE Signs == \/ Agreement!SignDispatch("create") \/ Agreement!SignAbort("create")
                    \/ \E outcome \in {"completed", "closed"} : Agreement!EnvelopeResolves(outcome)
                    \/ Agreement!FileExecuted
<1>1. IInv /\ KnownInv /\ [Next]_vars => [shown' # shown => Signs]_vars
  BY StepSigns
<1>2. Spec => []KnownInv
  BY InitKnown, StepKnown, Invariance, PTL DEF Spec
<1>3. Spec => [][shown' # shown => Signs]_vars
  BY <1>1, <1>2, Invariance, PTL DEF Spec
<1> QED
  BY <1>3 DEF SignsTheAgreement
=============================================================================
