----------------------------- MODULE AuditChain -----------------------------
(***************************************************************************)
(* The hash-chained audit trail of AuditService as its writers see it:     *)
(* several replicas append under one advisory lock, a commit may land and  *)
(* still be reported as a failure, appends made through record() are       *)
(* retried, appends made inside a business transaction are not.            *)
(*                                                                         *)
(* A hash is the content it was computed from (hashOf is injective for     *)
(* every purpose here), so two hashes are equal iff the chains below them  *)
(* are.                                                                    *)
(***************************************************************************)
EXTENDS Naturals, FiniteSetsExt

CONSTANTS
  Calls,      \* appends, one per business event
  Durable,    \* those made through record(), which retries
  Replicas,
  Home,       \* the replica each call runs on
  Retries,    \* AUDIT_WRITE_RETRIES
  None

ASSUME ChainAssumption ==
  /\ Durable \subseteq Calls
  /\ Home \in [Calls -> Replicas]
  /\ Retries \in Nat
  /\ None \notin Calls

VARIABLES
  rows,       \* the AuditEvent table, by seq
  anchor,     \* the single AuditAnchor row, or NoMark
  lock,       \* the call whose transaction holds the advisory lock
  call,       \* where each append stands
  draft,      \* the row its open transaction has inserted
  degraded    \* replicas that know of a lost event (persistDegraded)

vars == <<rows, anchor, lock, call, draft, degraded>>

Genesis == <<>>       \* what the first row is linked to
InTransaction == {"waiting", "locked", "staged"}
Settled == {"acked", "failed", "stopped"}

NoDraft == [seq |-> 0, row |-> None]
NoMark == [seq |-> 0, hash |-> None]   \* the table, or the anchor, is empty

Init ==
  /\ rows = <<>> /\ anchor = NoMark /\ lock = None
  /\ call = [c \in Calls |-> [pc |-> "idle", tries |-> 0]]
  /\ draft = [c \in Calls |-> NoDraft]
  /\ degraded = {}

-----------------------------------------------------------------------------

(* One id for all attempts of a call. *)
FreshId(c, attempt) == <<c, attempt>>
EventId(c, attempt) == c

HashOf(seq, id, event, prev) == <<seq, id, event, prev>>

TipSeq == Max(DOMAIN rows \cup {0})
UnlinkedTip == Genesis
TipHash == IF TipSeq = 0 THEN Genesis ELSE rows[TipSeq].hash

NewRow(c) ==
  LET id == EventId(c, call[c].tries) IN
  [id |-> id, event |-> c, prev |-> TipHash,
   hash |-> HashOf(TipSeq + 1, id, c, TipHash)]

AssumedLanded(c) == call[c].tries > 0
Landed(c) == \E s \in DOMAIN rows : rows[s].id = EventId(c, call[c].tries)

(* The transaction is opened and queues on the lock. *)
Start(c) ==
  /\ call[c].pc = "idle"
  /\ call' = [call EXCEPT ![c].pc = "waiting"]
  /\ UNCHANGED <<rows, anchor, lock, draft, degraded>>

LockIgnored == TRUE
LockFree == lock = None

Acquire(c) ==
  /\ call[c].pc = "waiting" /\ LockFree
  /\ lock' = c
  /\ call' = [call EXCEPT ![c].pc = "locked"]
  /\ UNCHANGED <<rows, anchor, draft, degraded>>

(* An earlier attempt committed this very event: answer from its row. *)
AlreadyLanded(c) ==
  /\ call[c].pc = "locked" /\ Landed(c)
  /\ call' = [call EXCEPT ![c].pc = "acked"]
  /\ lock' = None
  /\ UNCHANGED <<rows, anchor, draft, degraded>>

(* Tip, sequence number and hash are read and the row is inserted, uncommitted. *)
Stage(c) ==
  /\ call[c].pc = "locked" /\ ~Landed(c)
  /\ call' = [call EXCEPT ![c].pc = "staged"]
  /\ draft' = [draft EXCEPT ![c] = [seq |-> TipSeq + 1, row |-> NewRow(c)]]
  /\ UNCHANGED <<rows, anchor, lock, degraded>>

(* Row and anchor become visible together and the lock is released. *)
Land(c) ==
  /\ call[c].pc = "staged"
  /\ draft[c].seq \notin DOMAIN rows             \* seq is unique
  /\ rows' = [s \in DOMAIN rows \cup {draft[c].seq} |->
                IF s = draft[c].seq THEN draft[c].row ELSE rows[s]]
  /\ anchor' = [seq |-> draft[c].seq, hash |-> draft[c].row.hash]
  /\ lock' = None
  /\ draft' = [draft EXCEPT ![c] = NoDraft]

Commit(c) ==
  /\ Land(c)
  /\ call' = [call EXCEPT ![c].pc = "acked"]
  /\ UNCHANGED degraded

MayRetry(c) == c \in Durable /\ call[c].tries < Retries

TriesForgotten(c) == call[c].tries
TriesAfter(c) == call[c].tries + 1

(* appendDurable's loop; record() marks the replica once the loop gives up. *)
Rejected(c) ==
  IF MayRetry(c)
  THEN /\ call' = [call EXCEPT ![c].pc = "waiting", ![c].tries = TriesAfter(c)]
       /\ UNCHANGED degraded
  ELSE /\ call' = [call EXCEPT ![c].pc = "failed"]
       /\ degraded' = IF c \in Durable THEN degraded \cup {Home[c]} ELSE degraded

(* The commit lands but the client sees a dropped connection or a timeout. *)
CommitLost(c) == Land(c) /\ Rejected(c)

(* Lock timeout, database error or a rollback of the surrounding transaction. *)
Fail(c) ==
  /\ call[c].pc \in InTransaction
  /\ Rejected(c)
  /\ lock' = IF lock = c THEN None ELSE lock
  /\ draft' = [draft EXCEPT ![c] = NoDraft]
  /\ UNCHANGED <<rows, anchor>>

(* A replica goes down: its transactions roll back, its memory is gone. *)
Restart(r) ==
  /\ call' = [c \in Calls |->
       IF Home[c] = r /\ call[c].pc \in InTransaction
       THEN [call[c] EXCEPT !.pc = "stopped"] ELSE call[c]]
  /\ lock' = IF lock # None /\ Home[lock] = r THEN None ELSE lock
  /\ draft' = [c \in Calls |-> IF Home[c] = r THEN NoDraft ELSE draft[c]]
  /\ degraded' = degraded \ {r}
  /\ UNCHANGED <<rows, anchor>>

Attempt(c) ==
  \/ Acquire(c) \/ AlreadyLanded(c) \/ Stage(c)
  \/ Commit(c) \/ CommitLost(c) \/ Fail(c)

Next ==
  \/ \E c \in Calls : Start(c) \/ Attempt(c)
  \/ \E r \in Replicas : Restart(r)

Spec == Init /\ [][Next]_vars

(* Every database call is bounded by a timeout, so an open attempt moves on. *)
FairSpec == Spec /\ \A c \in Calls : WF_vars(Attempt(c))

-----------------------------------------------------------------------------
(* Properties *)

TypeOK ==
  /\ DOMAIN rows \subseteq Nat \ {0}
  /\ \A s \in DOMAIN rows : rows[s].event \in Calls
  /\ lock \in Calls \cup {None}
  /\ call \in [Calls -> [pc: {"idle"} \cup InTransaction \cup Settled, tries: 0..Retries]]
  /\ DOMAIN draft = Calls
  /\ degraded \in SUBSET Replicas

(* The committed rows are numbered 1..n without a gap, each carries the hash of
   the row below it and of its own content, and the anchor, written in the same
   transaction, names exactly the last of them. *)
ChainContiguous ==
  LET n == TipSeq IN
    /\ DOMAIN rows = 1..n
    /\ \A s \in 1..n :
         /\ rows[s].prev = IF s = 1 THEN Genesis ELSE rows[s - 1].hash
         /\ rows[s].hash = HashOf(s, rows[s].id, rows[s].event, rows[s].prev)
    /\ anchor = IF n = 0 THEN NoMark ELSE [seq |-> n, hash |-> rows[n].hash]

(* Concurrent appends queue on the lock instead of colliding: the number a
   transaction has inserted, and the hash it built on, are still the next ones
   when it commits, whatever other replicas did since it read the tip. *)
AppendsNeverCollide ==
  \A c \in Calls : call[c].pc = "staged" =>
    draft[c].seq = TipSeq + 1 /\ draft[c].row.prev = TipHash

(* One business event is one row, however often its commit was reported lost and
   retried. *)
EventOnce ==
  \A s, t \in DOMAIN rows : rows[s].event = rows[t].event => s = t

(* A caller that was told its event is recorded finds it in the trail. *)
AckedIsLogged ==
  \A c \in Calls : call[c].pc = "acked" => \E s \in DOMAIN rows : rows[s].event = c

(* The events in the order of their numbers, and who was told: the abstract log. *)
Trail == INSTANCE AuditLog WITH
           Events <- Calls,
           log    <- [s \in DOMAIN rows |-> rows[s].event],
           acked  <- {c \in Calls : call[c].pc = "acked"}

TrailSpec == Trail!Spec

(* No caller waits for ever: the retries are bounded and the lock is always
   released, also when its holder fails or its replica goes down. *)
EveryAppendSettles ==
  \A c \in Calls : call[c].pc \in InTransaction ~> call[c].pc \in Settled
=============================================================================
