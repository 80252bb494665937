--------------------------- MODULE ClientRequests ---------------------------
(***************************************************************************)
(* ClientRequestsService: departments submit requests for an agreement,    *)
(* and the requestor and Legal work on each other's answers.               *)
(*                                                                         *)
(* A submission carries a key of the client's and may be repeated, edited  *)
(* or not, at any time.  Each await outside a transaction is a step, and   *)
(* so is the choice of a lawyer inside one, which the assignment lock      *)
(* spans.  The other operations read the request first, check what they    *)
(* read and then change the row in one statement that names a version.     *)
(* That version is the caller's own: it is chosen before the request is    *)
(* read, and nobody compares it with what was read.                        *)
(*                                                                         *)
(* A repeated message is found by its identifier and changes nothing; the  *)
(* triage, the number and the wording of a request are left out.           *)
(***************************************************************************)
EXTENDS Integers, FiniteSets

CONSTANTS
  Keys,           \* submission keys, chosen by clients
  Clients,        \* people who submit
  Counsel,        \* people with the request:manage permission
  Leads,          \* the legal leads among them
  Files,          \* uploaded attachments; each belongs to its uploader
  Anyone,         \* the wish for whichever lawyer has least to do
  Submissions,    \* calls of create
  Form,           \* what each of them sends
  Calls,          \* calls of update, message and action in flight
  MaxVersion      \* bound: no change is made to a request at this version

ASSUME RequestsAssumption ==
  /\ Leads \subseteq Counsel
  /\ Anyone \notin Counsel
  /\ Form \in [Submissions -> [key: Keys, author: Clients, files: SUBSET Files,
                               wish: Counsel \cup {Anyone}]]
  /\ MaxVersion \in Nat

VARIABLES
  row,      \* IntakeRequest by submission key, with the stage of its Contract
  owner,    \* RequestAttachment: the request it was claimed for, or {}
  lock,     \* the advisory lock of automatic assignment: its holder, or {}
  sub,      \* calls of create in flight
  call      \* other calls in flight

vars == <<row, owner, lock, sub, call>>

Statuses == {"submitted", "in-progress", "waiting-on-client", "closed"}
Request == [from: Submissions, lawyer: Counsel, status: Statuses, version: Nat,
            stage: {"intake", "drafting"}]
Attempt == [pc: {"idle", "looked", "chosen", "answered"},
            lawyer: SUBSET Counsel, saw: SUBSET Keys]
(* The version the caller names, and what get() returned: lawyer, status, version. *)
Call == [key: SUBSET Keys, version: Nat,
         lawyer: SUBSET Counsel, status: SUBSET Statuses, read: Nat]

IdleAttempt == [pc |-> "idle", lawyer |-> {}, saw |-> {}]
IdleCall == [key |-> {}, version |-> 0, lawyer |-> {}, status |-> {}, read |-> 0]

Landed == DOMAIN row
Author(k) == Form[row[k].from].author
OpenOf(l) == {k \in Landed : row[k].lawyer = l /\ row[k].status # "closed"}
Automatic == {k \in Landed : Form[row[k].from].wish = Anyone}

Init ==
  /\ row = [k \in {} |-> 0]
  /\ owner = [f \in Files |-> {}]
  /\ lock = {}
  /\ sub = [s \in Submissions |-> IdleAttempt]
  /\ call = [c \in Calls |-> IdleCall]

-----------------------------------------------------------------------------
(* create *)

(* The same requestor sends the same payload again. *)
SameKey(s, k) == TRUE
SameForm(s, k) == Form[row[k].from] = Form[s]

(* replay: answer with the request the key already stands for, or refuse.  It
   is how create begins, and how its catch ends when the key has landed. *)
Replay(s) ==
  /\ sub[s].pc = "idle" /\ Form[s].key \in Landed
  /\ SameForm(s, Form[s].key)
  /\ sub' = [sub EXCEPT ![s].pc = "answered"]
  /\ UNCHANGED <<row, owner, lock, call>>

Look(s) ==
  /\ sub[s].pc = "idle" /\ Form[s].key \notin Landed
  /\ sub' = [sub EXCEPT ![s].pc = "looked"]
  /\ UNCHANGED <<row, owner, lock, call>>

LockIgnored == TRUE
LockFree == lock = {}

(* With the lock held, the lawyer with the fewest open requests is taken. *)
ChooseLeastBusy(s) ==
  /\ sub[s].pc = "looked" /\ Form[s].wish = Anyone
  /\ LockFree
  /\ lock' = {s}
  /\ \E l \in Counsel :
       /\ \A other \in Counsel : Cardinality(OpenOf(l)) <= Cardinality(OpenOf(other))
       /\ sub' = [sub EXCEPT ![s] = [pc |-> "chosen", lawyer |-> {l}, saw |-> Automatic]]
  /\ UNCHANGED <<row, owner, call>>

ChooseWished(s) ==
  /\ sub[s].pc = "looked" /\ Form[s].wish # Anyone
  /\ sub' = [sub EXCEPT ![s] = [@ EXCEPT !.pc = "chosen", !.lawyer = {Form[s].wish}]]
  /\ UNCHANGED <<row, owner, lock, call>>

Unclaimed(files) == {f \in files : owner[f] = {}}
SomeLeft(files) == files = {} \/ Unclaimed(files) # {}
AllLeft(files) == Unclaimed(files) = files

(* Request, contract, claimed attachments and the first notice commit. *)
Submit(s) ==
  LET k == Form[s].key IN
  /\ sub[s].pc = "chosen"
  /\ k \notin Landed                              \* unique submission key
  /\ AllLeft(Form[s].files)
  /\ \E l \in sub[s].lawyer :
       row' = [x \in Landed \cup {k} |->
                 IF x = k THEN [from |-> s, lawyer |-> l, status |-> "submitted",
                                version |-> 0, stage |-> "intake"]
                 ELSE row[x]]
  /\ owner' = [f \in Files |-> IF f \in Unclaimed(Form[s].files) THEN {k} ELSE owner[f]]
  /\ lock' = lock \ {s}
  /\ sub' = [sub EXCEPT ![s] = [IdleAttempt EXCEPT !.pc = "answered"]]
  /\ UNCHANGED call

(* COMMIT succeeded and the answer is lost, or the client asks again. *)
AnswerLost(s) ==
  /\ sub[s].pc = "answered"
  /\ sub' = [sub EXCEPT ![s] = IdleAttempt]
  /\ UNCHANGED <<row, owner, lock, call>>

(* A check, a unique key or the transaction fails; the lock goes with it. *)
SubmitFails(s) ==
  /\ sub[s].pc \in {"looked", "chosen"}
  /\ lock' = lock \ {s}
  /\ sub' = [sub EXCEPT ![s] = IdleAttempt]
  /\ UNCHANGED <<row, owner, call>>

-----------------------------------------------------------------------------
(* update, message, action *)

(* Anybody the request is in scope for; who it was is asked when it matters. *)
Read(c, k, v) ==
  /\ call[c] = IdleCall
  /\ call' = [call EXCEPT ![c] = [key |-> {k}, version |-> v, lawyer |-> {row[k].lawyer},
                                  status |-> {row[k].status}, read |-> row[k].version]]
  /\ UNCHANGED <<row, owner, lock, sub>>

CanManage(c, p) == p \in Leads \cup call[c].lawyer
NotClosed(c) == "closed" \notin call[c].status

SeenExists(c, k) == TRUE
SeenVersion(c, k) == row[k].version = call[c].version

(* The one statement that admits a change of request k by the version named. *)
Change(c, k, status, lawyer, stage) ==
  /\ k \in call[c].key
  /\ SeenVersion(c, k) /\ row[k].version < MaxVersion
  /\ row' = [row EXCEPT ![k] = [from |-> @.from, status |-> status, lawyer |-> lawyer,
                                version |-> @.version + 1, stage |-> stage]]
  /\ call' = [call EXCEPT ![c] = IdleCall]
  /\ UNCHANGED <<owner, lock, sub>>

Update(c, k, p, to) ==
  /\ CanManage(c, p)
  /\ Change(c, k, to, row[k].lawyer, row[k].stage)

Question(c, k, p) ==
  /\ CanManage(c, p) /\ NotClosed(c) /\ row[k].status # "closed"
  /\ Change(c, k, "waiting-on-client", row[k].lawyer, row[k].stage)

Reply(c, k, p) ==
  /\ p = Author(k) /\ NotClosed(c) /\ row[k].status # "closed"
  /\ Change(c, k, "in-progress", row[k].lawyer, row[k].stage)

(* A legal update writes back the status that was read. *)
Note(c, k, p) ==
  /\ CanManage(c, p) /\ NotClosed(c) /\ row[k].status # "closed"
  /\ \E before \in call[c].status : Change(c, k, before, row[k].lawyer, row[k].stage)

Accept(c, k, p) ==
  /\ CanManage(c, p) /\ NotClosed(c) /\ row[k].stage = "intake"
  /\ Change(c, k, "in-progress", row[k].lawyer, "drafting")

Close(c, k, p) ==
  /\ CanManage(c, p) /\ NotClosed(c) /\ row[k].stage = "intake"
  /\ Change(c, k, "closed", row[k].lawyer, row[k].stage)

Reassign(c, k, p, l) ==
  /\ CanManage(c, p) /\ NotClosed(c)
  /\ \E before \in call[c].status : Change(c, k, before, l, row[k].stage)

(* Refused: the row has changed, the check failed, or the client is gone. *)
Drop(c) ==
  /\ call[c] # IdleCall
  /\ call' = [call EXCEPT ![c] = IdleCall]
  /\ UNCHANGED <<row, owner, lock, sub>>

-----------------------------------------------------------------------------

Create(s) ==
  \/ Look(s) \/ Replay(s) \/ ChooseLeastBusy(s) \/ ChooseWished(s)
  \/ Submit(s) \/ AnswerLost(s) \/ SubmitFails(s)

Work(c, k, p) ==
  \/ \E to \in Statuses : Update(c, k, p, to)
  \/ Question(c, k, p) \/ Reply(c, k, p) \/ Note(c, k, p)
  \/ Accept(c, k, p) \/ Close(c, k, p)
  \/ \E l \in Counsel : Reassign(c, k, p, l)

Next ==
  \/ \E s \in Submissions : Create(s)
  \/ \E c \in Calls, k \in Landed, v \in 0..(MaxVersion - 1) : Read(c, k, v)
  \/ \E c \in Calls, k \in Landed, p \in Clients \cup Counsel : Work(c, k, p)
  \/ \E c \in Calls : Drop(c)

Spec == Init /\ [][Next]_vars

-----------------------------------------------------------------------------
(* Properties *)

TypeOK ==
  /\ Landed \subseteq Keys /\ row \in [Landed -> Request]
  /\ owner \in [Files -> SUBSET Keys]
  /\ lock \in SUBSET Submissions
  /\ sub \in [Submissions -> Attempt]
  /\ call \in [Calls -> Call]

(* A request on record has exactly the documents its form named: whatever two
   submissions claim at the same time, no document is shared between requests
   and no request is stored with a part of its documents. *)
FilesStayTogether ==
  \A k \in Landed : {f \in Files : k \in owner[f]} = Form[row[k].from].files

(* A submission that was answered stands for a stored request with exactly
   its own author and content, also when it was repeated, raced its own
   repetition, lost its answer or reused the key of another. *)
AnsweredWithItsOwn ==
  \A s \in Submissions :
    sub[s].pc = "answered" =>
      /\ Form[s].key \in Landed
      /\ Form[row[Form[s].key].from] = Form[s]

(* Automatic assignments are made one after the other: the lawyer is taken
   from counts that include every automatic assignment before this one. *)
AssignedInTurn ==
  [][\A s \in Submissions :
       /\ Form[s].key \in Landed' \ Landed
       /\ row'[Form[s].key].from = s
       /\ Form[s].wish = Anyone
       => sub[s].saw = Automatic]_vars

(* Nobody changes a request on the strength of what it used to be: when a call that
   names a version it had seen, or an earlier one, changes the request, the lawyer
   and the status it read before its transaction, by which it was admitted and which
   it may write back, are still those.  A call that names a version still to come is
   not held to it (update, message and action take the number as it is sent). *)
ChangesWhatWasRead ==
  [][\A c \in Calls : \A k \in call[c].key :
       /\ row'[k] # row[k] /\ call'[c] # call[c]
       /\ call[c].version <= call[c].read
       => call[c].lawyer = {row[k].lawyer} /\ call[c].status = {row[k].status}]_vars
=============================================================================
