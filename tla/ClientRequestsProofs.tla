------------------------ MODULE ClientRequestsProofs ------------------------
(***************************************************************************)
(* The safety of the request desk for any number of submissions, calls,    *)
(* lawyers and documents.  Two things hold because somebody remembers: the *)
(* holder of the assignment lock knows every automatic assignment, and a   *)
(* call that read the version the row still has knows the row.             *)
(***************************************************************************)
EXTENDS ClientRequests, TLAPS

(* Documents are claimed for requests that are stored, and only for those. *)
OwnerInv == \A f \in Files : owner[f] \subseteq Landed

(* Whoever has chosen a lawyer automatically holds the lock, and nothing was
   assigned since. *)
LockInv ==
  \A s \in Submissions :
    sub[s].pc = "chosen" /\ Form[s].wish = Anyone => lock = {s} /\ sub[s].saw = Automatic

(* Versions only grow, and a version that was read names what the row said. *)
ReadInv ==
  \A c \in Calls : \A k \in call[c].key :
    /\ k \in Landed
    /\ call[c].read <= row[k].version
    /\ call[c].read = row[k].version =>
         call[c].lawyer = {row[k].lawyer} /\ call[c].status = {row[k].status}

IInv ==
  /\ TypeOK /\ FilesStayTogether /\ AnsweredWithItsOwn
  /\ OwnerInv /\ LockInv /\ ReadInv

-----------------------------------------------------------------------------
(* The initial state *)

LEMMA InitInv == Init => IInv
<1> SUFFICES ASSUME Init PROVE IInv
  OBVIOUS
<1>1. Landed = {} /\ row \in [Landed -> Request]
  BY DEF Init, Landed
<1>2. IdleAttempt \in Attempt /\ IdleCall \in Call
  BY DEF IdleAttempt, IdleCall, Attempt, Call
<1>3. TypeOK
  BY <1>1, <1>2 DEF Init, TypeOK
<1>4. \A s \in Submissions : sub[s].pc = "idle"
  BY DEF Init, IdleAttempt
<1>5. \A c \in Calls : call[c].key = {}
  BY DEF Init, IdleCall
<1>6. OwnerInv
  BY DEF Init, OwnerInv
<1> QED
  BY <1>1, <1>3, <1>4, <1>5, <1>6
  DEF IInv, FilesStayTogether, AnsweredWithItsOwn, LockInv, ReadInv

-----------------------------------------------------------------------------
(* create *)

(* Looking, answering again and choosing the wished lawyer store nothing. *)
LEMMA SubmissionStep ==
  ASSUME IInv, NEW s \in Submissions,
         Look(s) \/ Replay(s) \/ ChooseWished(s) \/ AnswerLost(s)
  PROVE  IInv'
<1>1. row' = row /\ owner' = owner /\ lock' = lock /\ call' = call
  BY DEF Look, Replay, ChooseWished, AnswerLost
<1>2. /\ sub' \in [Submissions -> Attempt]
      /\ \A t \in Submissions \ {s} : sub'[t] = sub[t]
  <2>1. CASE Look(s) \/ Replay(s)
    BY <2>1 DEF Look, Replay, IInv, TypeOK, Attempt
  <2>2. CASE ChooseWished(s)
    <3>1. Form[s].wish \in Counsel
      BY <2>2, RequestsAssumption DEF ChooseWished
    <3> QED
      BY <2>2, <3>1 DEF ChooseWished, IInv, TypeOK, Attempt
  <2>3. CASE AnswerLost(s)
    BY <2>3 DEF AnswerLost, IInv, TypeOK, IdleAttempt, Attempt
  <2> QED
    BY <2>1, <2>2, <2>3
<1>3. /\ sub'[s].pc = "chosen" => Form[s].wish # Anyone
      /\ sub'[s].pc = "answered" => Replay(s)
  <2>1. CASE Look(s)
    <3>1. sub'[s].pc = "looked"
      BY <2>1 DEF Look, IInv, TypeOK
    <3> QED
      BY <3>1
  <2>2. CASE Replay(s)
    <3>1. sub'[s].pc = "answered"
      BY <2>2 DEF Replay, IInv, TypeOK
    <3> QED
      BY <2>2, <3>1
  <2>3. CASE ChooseWished(s)
    <3>1. sub'[s].pc = "chosen" /\ Form[s].wish # Anyone
      BY <2>3 DEF ChooseWished, IInv, TypeOK
    <3> QED
      BY <3>1
  <2>4. CASE AnswerLost(s)
    <3>1. sub'[s].pc = "idle"
      BY <2>4 DEF AnswerLost, IdleAttempt, IInv, TypeOK
    <3> QED
      BY <3>1
  <2> QED
    BY <2>1, <2>2, <2>3, <2>4
<1>5. TypeOK'
  BY <1>1, <1>2 DEF IInv, TypeOK, Landed
<1>6. AnsweredWithItsOwn'
  BY <1>1, <1>2, <1>3 DEF IInv, AnsweredWithItsOwn, Replay, SameForm, Landed
<1>7. LockInv'
  BY <1>1, <1>2, <1>3 DEF IInv, LockInv, Automatic, Landed
<1> QED
  BY <1>1, <1>5, <1>6, <1>7 DEF IInv, FilesStayTogether, OwnerInv, ReadInv, Landed

(* The lock goes to one submission, which then knows every assignment. *)
LEMMA ChooseStep ==
  ASSUME IInv, NEW s \in Submissions, ChooseLeastBusy(s)
  PROVE  IInv'
<1>1. PICK l \in Counsel :
        sub' = [sub EXCEPT ![s] = [pc |-> "chosen", lawyer |-> {l}, saw |-> Automatic]]
  BY DEF ChooseLeastBusy
<1>2. row' = row /\ owner' = owner /\ call' = call /\ lock = {} /\ lock' = {s}
  BY DEF ChooseLeastBusy, LockFree
<1>3. [pc |-> "chosen", lawyer |-> {l}, saw |-> Automatic] \in Attempt
  BY DEF Attempt, Automatic, IInv, TypeOK
<1>4. /\ sub' \in [Submissions -> Attempt]
      /\ sub'[s].pc = "chosen" /\ sub'[s].saw = Automatic
      /\ \A t \in Submissions \ {s} : sub'[t] = sub[t]
  BY <1>1, <1>3 DEF IInv, TypeOK
<1>5. TypeOK'
  BY <1>2, <1>4 DEF IInv, TypeOK, Landed
<1>6. AnsweredWithItsOwn'
  BY <1>2, <1>4 DEF IInv, AnsweredWithItsOwn, Landed
<1>7. LockInv'
  BY <1>2, <1>4 DEF IInv, LockInv, Automatic, Landed
<1> QED
  BY <1>2, <1>5, <1>6, <1>7 DEF IInv, FilesStayTogether, OwnerInv, ReadInv, Landed

LEMMA FailStep ==
  ASSUME IInv, NEW s \in Submissions, SubmitFails(s)
  PROVE  IInv'
<1>1. row' = row /\ owner' = owner /\ call' = call /\ lock' = lock \ {s}
  BY DEF SubmitFails
<1>2. /\ sub' \in [Submissions -> Attempt] /\ sub'[s].pc = "idle"
      /\ \A t \in Submissions \ {s} : sub'[t] = sub[t]
  BY DEF SubmitFails, IInv, TypeOK, IdleAttempt, Attempt
<1>3. TypeOK'
  BY <1>1, <1>2 DEF IInv, TypeOK, Landed
<1>4. AnsweredWithItsOwn'
  BY <1>1, <1>2 DEF IInv, AnsweredWithItsOwn, Landed
<1>5. LockInv'
  BY <1>1, <1>2 DEF IInv, LockInv, Automatic, Landed
<1> QED
  BY <1>1, <1>3, <1>4, <1>5 DEF IInv, FilesStayTogether, OwnerInv, ReadInv, Landed

(* The one step that stores a request: its key is new, its documents were all
   unclaimed, and no other automatic choice is under way if it was one itself. *)
LEMMA SubmitStep ==
  ASSUME IInv, NEW s \in Submissions, Submit(s)
  PROVE  IInv'
<1> DEFINE k == Form[s].key
           stored(l) == [from |-> s, lawyer |-> l, status |-> "submitted",
                         version |-> 0, stage |-> "intake"]
<1>1. /\ k \in Keys /\ Form[s].files \subseteq Files
      /\ k \notin Landed /\ Unclaimed(Form[s].files) = Form[s].files
      /\ lock' = lock \ {s} /\ call' = call
      /\ sub[s].pc = "chosen"
  BY RequestsAssumption DEF Submit, AllLeft
<1>2. PICK l \in sub[s].lawyer :
        row' = [x \in Landed \cup {k} |-> IF x = k THEN stored(l) ELSE row[x]]
  BY DEF Submit
<1>3. stored(l) \in Request
  BY <1>2 DEF IInv, TypeOK, Attempt, Request, Statuses
<1>4. /\ Landed' = Landed \cup {k}
      /\ row'[k] = stored(l)
      /\ \A x \in Landed : row'[x] = row[x]
  BY <1>1, <1>2 DEF Landed
<1>5. \A f \in Files : owner'[f] = IF f \in Form[s].files THEN {k} ELSE owner[f]
  BY <1>1 DEF Submit
<1>6. \A f \in Form[s].files : owner[f] = {}
  BY <1>1 DEF Unclaimed
<1>7. /\ sub' \in [Submissions -> Attempt] /\ sub'[s].pc = "answered"
      /\ \A t \in Submissions \ {s} : sub'[t] = sub[t]
  BY DEF Submit, IInv, TypeOK, IdleAttempt, Attempt
<1>8. TypeOK'
  <2>1. Landed' \subseteq Keys
    BY <1>1, <1>4 DEF IInv, TypeOK
  <2>2. row' \in [Landed' -> Request]
    BY <1>2, <1>3, <1>4 DEF IInv, TypeOK
  <2>3. owner' \in [Files -> SUBSET Keys]
    BY <1>1 DEF Submit, IInv, TypeOK
  <2> QED
    BY <1>1, <1>7, <2>1, <2>2, <2>3 DEF IInv, TypeOK
<1>9. OwnerInv'
  BY <1>4, <1>5 DEF IInv, OwnerInv
<1>10. FilesStayTogether'
  <2> SUFFICES ASSUME NEW x \in Landed'
               PROVE  {f \in Files : x \in owner'[f]} = Form[row'[x].from].files
    BY DEF FilesStayTogether
  <2>1. CASE x = k
    <3>1. \A f \in Files : k \in owner'[f] <=> f \in Form[s].files
      BY <1>1, <1>5 DEF IInv, OwnerInv
    <3>2. row'[x].from = s
      BY <1>4, <2>1
    <3> QED
      BY <1>1, <2>1, <3>1, <3>2
  <2>2. CASE x # k
    <3>1. x \in Landed /\ row'[x] = row[x]
      BY <1>4, <2>2
    <3>2. \A f \in Files : x \in owner'[f] <=> x \in owner[f]
      BY <1>5, <1>6, <2>2
    <3> QED
      BY <3>1, <3>2 DEF IInv, FilesStayTogether
  <2> QED
    BY <2>1, <2>2
<1>11. AnsweredWithItsOwn'
  BY <1>1, <1>4, <1>7 DEF IInv, AnsweredWithItsOwn
<1>12. LockInv'
  <2>1. Form[s].wish # Anyone => Automatic' = Automatic
    BY <1>4 DEF Automatic
  <2>2. Form[s].wish = Anyone => lock = {s}
    BY <1>1 DEF IInv, LockInv
  <2> SUFFICES ASSUME NEW t \in Submissions, sub'[t].pc = "chosen", Form[t].wish = Anyone
               PROVE  lock' = {t} /\ sub'[t].saw = Automatic'
    BY DEF LockInv
  <2>3. t # s /\ sub'[t] = sub[t]
    BY <1>7
  <2>4. lock = {t} /\ sub[t].saw = Automatic
    BY <2>3 DEF IInv, LockInv
  <2> QED
    BY <1>1, <2>1, <2>2, <2>3, <2>4
<1>13. ReadInv'
  BY <1>1, <1>4 DEF IInv, ReadInv
<1> QED
  BY <1>8, <1>9, <1>10, <1>11, <1>12, <1>13 DEF IInv

-----------------------------------------------------------------------------
(* Reading and changing *)

LEMMA ReadStep ==
  ASSUME IInv, NEW c \in Calls, NEW k \in Landed, NEW v \in Nat, Read(c, k, v)
  PROVE  IInv'
<1> DEFINE was == [key |-> {k}, version |-> v, lawyer |-> {row[k].lawyer},
                   status |-> {row[k].status}, read |-> row[k].version]
<1>1. /\ call' = [call EXCEPT ![c] = was]
      /\ row' = row /\ owner' = owner /\ lock' = lock /\ sub' = sub
  BY DEF Read
<1>2. row[k] \in Request /\ k \in Keys
  BY DEF IInv, TypeOK
<1>3. was \in Call
  BY <1>2 DEF Call, Request
<1>4. TypeOK'
  BY <1>1, <1>3 DEF IInv, TypeOK, Landed
<1>5. ReadInv'
  <2>1. call'[c] = was /\ \A d \in Calls \ {c} : call'[d] = call[d]
    BY <1>1 DEF IInv, TypeOK
  <2>2. row[k].version \in Nat
    BY <1>2 DEF Request
  <2> QED
    BY <1>1, <2>1, <2>2 DEF IInv, ReadInv, Landed
<1> QED
  BY <1>1, <1>4, <1>5
  DEF IInv, FilesStayTogether, AnsweredWithItsOwn, OwnerInv, LockInv, Automatic, Landed

LEMMA DropStep ==
  ASSUME IInv, NEW c \in Calls, Drop(c)
  PROVE  IInv'
<1>1. /\ row' = row /\ owner' = owner /\ lock' = lock /\ sub' = sub
      /\ call' \in [Calls -> Call] /\ call'[c].key = {}
      /\ \A d \in Calls \ {c} : call'[d] = call[d]
  BY DEF Drop, IInv, TypeOK, IdleCall, Call
<1>2. TypeOK'
  BY <1>1 DEF IInv, TypeOK, Landed
<1>3. ReadInv'
  BY <1>1 DEF IInv, ReadInv, Landed
<1> QED
  BY <1>1, <1>2, <1>3
  DEF IInv, FilesStayTogether, AnsweredWithItsOwn, OwnerInv, LockInv, Automatic, Landed

(* Whatever is done to a request goes through the one statement. *)
LEMMA WorkIsChange ==
  ASSUME IInv, NEW c \in Calls, NEW k \in Landed, NEW p, Work(c, k, p)
  PROVE  \E status \in Statuses, lawyer \in Counsel, stage \in {"intake", "drafting"} :
           Change(c, k, status, lawyer, stage)
<1>1. /\ row[k].lawyer \in Counsel /\ row[k].stage \in {"intake", "drafting"}
      /\ call[c].status \subseteq Statuses
  BY DEF IInv, TypeOK, Request, Call
<1>2. {"in-progress", "waiting-on-client", "closed"} \subseteq Statuses
  BY DEF Statuses
<1>3. CASE \E to \in Statuses : Update(c, k, p, to)
  BY <1>1, <1>3 DEF Update
<1>4. CASE Question(c, k, p) \/ Reply(c, k, p)
  BY <1>1, <1>2, <1>4 DEF Question, Reply
<1>5. CASE Note(c, k, p)
  BY <1>1, <1>5 DEF Note
<1>6. CASE Accept(c, k, p)
  BY <1>1, <1>2, <1>6 DEF Accept
<1>7. CASE Close(c, k, p)
  BY <1>1, <1>2, <1>7 DEF Close
<1>8. CASE \E l \in Counsel : Reassign(c, k, p, l)
  BY <1>1, <1>8 DEF Reassign
<1> QED
  BY <1>3, <1>4, <1>5, <1>6, <1>7, <1>8 DEF Work

LEMMA ChangeStep ==
  ASSUME IInv, NEW c \in Calls, NEW k \in Landed, NEW status \in Statuses,
         NEW lawyer \in Counsel, NEW stage \in {"intake", "drafting"},
         Change(c, k, status, lawyer, stage)
  PROVE  IInv'
<1> DEFINE new == [from |-> row[k].from, status |-> status, lawyer |-> lawyer,
                   version |-> row[k].version + 1, stage |-> stage]
<1>1. /\ row' = [row EXCEPT ![k] = new]
      /\ owner' = owner /\ lock' = lock /\ sub' = sub
  BY DEF Change
<1>2. /\ call' \in [Calls -> Call] /\ call'[c].key = {}
      /\ \A d \in Calls \ {c} : call'[d] = call[d]
  BY DEF Change, IInv, TypeOK, IdleCall, Call
<1>3. row[k] \in Request /\ row[k].version \in Nat /\ new \in Request
  BY DEF IInv, TypeOK, Request
<1>4. /\ Landed' = Landed /\ row'[k] = new
      /\ \A x \in Landed \ {k} : row'[x] = row[x]
  BY <1>1 DEF Landed, IInv, TypeOK
<1>5. \A x \in Landed : row'[x].from = row[x].from
  BY <1>4
<1>6. TypeOK'
  <2>1. row' \in [Landed' -> Request]
    BY <1>1, <1>3, <1>4 DEF IInv, TypeOK
  <2> QED
    BY <1>1, <1>2, <1>4, <2>1 DEF IInv, TypeOK
<1>7. ReadInv'
  <2> SUFFICES ASSUME NEW d \in Calls, NEW x \in call'[d].key
               PROVE  /\ x \in Landed'
                      /\ call'[d].read <= row'[x].version
                      /\ call'[d].read = row'[x].version =>
                           call'[d].lawyer = {row'[x].lawyer} /\ call'[d].status = {row'[x].status}
    BY DEF ReadInv
  <2>1. d # c /\ call'[d] = call[d] /\ call[d].read \in Nat
    BY <1>2 DEF IInv, TypeOK, Call
  <2>2. x \in Landed /\ call[d].read <= row[x].version
    BY <2>1 DEF IInv, ReadInv
  <2>3. CASE x = k
    <3>1. row'[x].version = row[k].version + 1
      BY <1>4, <2>3
    <3> QED
      BY <1>3, <1>4, <2>1, <2>2, <2>3, <3>1
  <2>4. CASE x # k
    BY <1>4, <2>1, <2>2, <2>4 DEF IInv, ReadInv
  <2> QED
    BY <2>3, <2>4
<1>8. FilesStayTogether' /\ AnsweredWithItsOwn' /\ OwnerInv'
  BY <1>1, <1>4, <1>5 DEF IInv, FilesStayTogether, AnsweredWithItsOwn, OwnerInv
<1>9. LockInv'
  <2>1. Automatic' = Automatic
    BY <1>4, <1>5 DEF Automatic
  <2> QED
    BY <1>1, <2>1 DEF IInv, LockInv
<1> QED
  BY <1>6, <1>7, <1>8, <1>9 DEF IInv

-----------------------------------------------------------------------------
(* The theorems *)

LEMMA NextInv == IInv /\ [Next]_vars => IInv'
<1> SUFFICES ASSUME IInv, [Next]_vars PROVE IInv'
  OBVIOUS
<1>1. ASSUME NEW s \in Submissions, Create(s) PROVE IInv'
  BY <1>1, SubmissionStep, ChooseStep, FailStep, SubmitStep DEF Create
<1>2. ASSUME NEW c \in Calls, NEW k \in Landed, NEW v \in 0..(MaxVersion - 1), Read(c, k, v)
      PROVE  IInv'
  <2>1. v \in Nat
    BY RequestsAssumption
  <2> QED
    BY <1>2, <2>1, ReadStep
<1>3. ASSUME NEW c \in Calls, NEW k \in Landed, NEW p, Work(c, k, p) PROVE IInv'
  BY <1>3, WorkIsChange, ChangeStep
<1>4. ASSUME NEW c \in Calls, Drop(c) PROVE IInv'
  BY <1>4, DropStep
<1>5. CASE UNCHANGED vars
  BY <1>5 DEF vars, IInv, TypeOK, FilesStayTogether, AnsweredWithItsOwn, OwnerInv, LockInv,
              ReadInv, Automatic, Landed
<1> QED
  BY <1>1, <1>2, <1>3, <1>4, <1>5 DEF Next

LEMMA Inductive == Spec => []IInv
  BY InitInv, NextInv, PTL DEF Spec

(* The rows, the lock and the calls of the request desk keep their types. *)
THEOREM TypeCorrect == Spec => []TypeOK
<1>1. IInv => TypeOK
  BY DEF IInv
<1> QED
  BY <1>1, Inductive, PTL

(* A stored request has all the documents of its form and shares none, for any
   number of submissions that name them at the same time. *)
THEOREM DocumentsStayTogether == Spec => []FilesStayTogether
<1>1. IInv => FilesStayTogether
  BY DEF IInv
<1> QED
  BY <1>1, Inductive, PTL

(* A submission that was answered stands for a stored request with its own content. *)
THEOREM AnswersAreTheirOwn == Spec => []AnsweredWithItsOwn
<1>1. IInv => AnsweredWithItsOwn
  BY DEF IInv
<1> QED
  BY <1>1, Inductive, PTL

(* Every automatic assignment was counted with all the automatic ones before it. *)
THEOREM AssignmentsTakeTurns == Spec => AssignedInTurn
<1> DEFINE InTurn == \A s \in Submissions :
             /\ Form[s].key \in Landed' \ Landed
             /\ row'[Form[s].key].from = s
             /\ Form[s].wish = Anyone
             => sub[s].saw = Automatic
<1>1. IInv /\ [Next]_vars => [InTurn]_vars
  <2> SUFFICES ASSUME IInv, Next, NEW s \in Submissions,
                      Form[s].key \in Landed' \ Landed, row'[Form[s].key].from = s,
                      Form[s].wish = Anyone
               PROVE  sub[s].saw = Automatic
    OBVIOUS
  <2>1. Landed' # Landed
    OBVIOUS
  <2>2. \A c \in Calls, k \in Landed : \A p : ~Work(c, k, p)
    <3> SUFFICES ASSUME NEW c \in Calls, NEW k \in Landed, NEW p, Work(c, k, p) PROVE FALSE
      OBVIOUS
    <3>1. PICK status, lawyer, stage : Change(c, k, status, lawyer, stage)
      BY WorkIsChange
    <3>2. Landed' = Landed
      BY <3>1 DEF Change, Landed, IInv, TypeOK
    <3> QED
      BY <2>1, <3>2
  <2>3. PICK t \in Submissions : Submit(t)
    BY <2>1, <2>2 DEF Next, Create, Look, Replay, ChooseLeastBusy, ChooseWished, AnswerLost,
                      SubmitFails, Read, Drop, Landed
  <2>4. \A x \in Landed' \ Landed : row'[x].from = t
    BY <2>3 DEF Submit, Landed
  <2>5. t = s /\ sub[s].pc = "chosen"
    BY <2>3, <2>4 DEF Submit
  <2> QED
    BY <2>5 DEF IInv, LockInv
<1>2. Spec => [][InTurn]_vars
  BY <1>1, Inductive, PTL DEF Spec
<1> QED
  BY <1>2 DEF AssignedInTurn

(* A call that names no later version than it read changes a request only while the
   request is as it was read, for any number of calls of any lawyers and clients. *)
THEOREM ChangesAreInformed == Spec => ChangesWhatWasRead
<1> DEFINE Informed == \A c \in Calls : \A k \in call[c].key :
             /\ row'[k] # row[k] /\ call'[c] # call[c]
             /\ call[c].version <= call[c].read
             => call[c].lawyer = {row[k].lawyer} /\ call[c].status = {row[k].status}
<1>1. IInv /\ [Next]_vars => [Informed]_vars
  <2> SUFFICES ASSUME IInv, Next, NEW c \in Calls, NEW k \in call[c].key,
                      row'[k] # row[k], call'[c] # call[c],
                      call[c].version <= call[c].read
               PROVE  call[c].lawyer = {row[k].lawyer} /\ call[c].status = {row[k].status}
    OBVIOUS
  <2>1. row' # row /\ call' # call
    OBVIOUS
  <2>2. PICK d \in Calls, x \in Landed : \E p : Work(d, x, p)
    BY <2>1 DEF Next, Create, Look, Replay, ChooseLeastBusy, ChooseWished, Submit, AnswerLost,
                SubmitFails, Read, Drop
  <2>3. PICK status, lawyer, stage : Change(d, x, status, lawyer, stage)
    BY <2>2, WorkIsChange
  <2>4. d = c /\ x = k
    <3>1. \A e \in Calls \ {d} : call'[e] = call[e]
      BY <2>3 DEF Change, IInv, TypeOK
    <3>2. k \in Landed
      BY DEF IInv, ReadInv
    <3>3. \A y \in Landed \ {x} : row'[y] = row[y]
      BY <2>3 DEF Change, Landed, IInv, TypeOK
    <3> QED
      BY <3>1, <3>2, <3>3
  <2>5. row[k].version = call[c].version
    BY <2>3, <2>4 DEF Change, SeenVersion
  <2>6. /\ call[c].read <= row[k].version
        /\ call[c].read \in Nat /\ row[k].version \in Nat
    BY DEF IInv, ReadInv, TypeOK, Call, Request
  <2>7. call[c].read = row[k].version
    BY <2>5, <2>6
  <2> QED
    BY <2>7 DEF IInv, ReadInv
<1>2. Spec => [][Informed]_vars
  BY <1>1, Inductive, PTL DEF Spec
<1> QED
  BY <1>2 DEF ChangesWhatWasRead
=============================================================================
