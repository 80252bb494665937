----------------------------- MODULE AuditProofs -----------------------------
(***************************************************************************)
(* The audit chain is gapless, linked and anchored for any number of       *)
(* replicas, callers and retries, and it implements the append-only log.   *)
(* The argument is the lock discipline: at most one transaction is past    *)
(* the lock (LockInv), so what it read as the tip still is the tip when it *)
(* commits (StagedInv).                                                    *)
(***************************************************************************)
EXTENDS AuditVerify, SequenceTheorems, FiniteSetTheorems, TLAPS

(* Exactly the call that holds the lock is past it. *)
LockInv == \A c \in Calls : call[c].pc \in {"locked", "staged"} <=> lock = c

(* The callers' side of the invariant, which says nothing of the table. *)
CallsOK ==
  /\ lock \in Calls \cup {None}
  /\ call \in [Calls -> [pc: {"idle"} \cup InTransaction \cup Settled, tries: 0..Retries]]
  /\ DOMAIN draft = Calls
  /\ degraded \in SUBSET Replicas

(* An uncommitted row continues the chain and is not in the table yet. *)
StagedInv ==
  \A c \in Calls : call[c].pc = "staged" =>
    /\ draft[c].seq = TipSeq + 1
    /\ draft[c].row.id = c /\ draft[c].row.event = c
    /\ draft[c].row.prev = TipHash
    /\ draft[c].row.hash = HashOf(TipSeq + 1, c, c, TipHash)
    /\ \A s \in DOMAIN rows : rows[s].event # c

(* A row is named after its event. *)
IdInv == \A s \in DOMAIN rows : rows[s].id = rows[s].event

IInv ==
  /\ TypeOK
  /\ TipSeq \in Nat /\ ChainContiguous
  /\ LockInv /\ StagedInv /\ IdInv /\ EventOnce /\ AckedIsLogged

-----------------------------------------------------------------------------
(* The tip *)

LEMMA MaxOfInterval == \A n \in Nat : Max((1..n) \cup {0}) = n
<1> SUFFICES ASSUME NEW n \in Nat PROVE Max((1..n) \cup {0}) = n
  OBVIOUS
<1> DEFINE S == (1..n) \cup {0}
<1>1. n \in S /\ \A y \in S : n >= y
  OBVIOUS
<1>2. \A x \in S : (\A y \in S : x >= y) => x = n
  OBVIOUS
<1> QED
  BY <1>1, <1>2 DEF Max

(* Nothing but the rows decides where the tip is. *)
LEMMA TipStays ==
  ASSUME UNCHANGED rows
  PROVE  TipSeq' = TipSeq /\ TipHash' = TipHash
BY DEF TipSeq, TipHash

(* What a commit does to the table. *)
LEMMA LandExtends ==
  ASSUME IInv, NEW c \in Calls, Land(c)
  PROVE  /\ TipSeq \in Nat /\ DOMAIN rows = 1..TipSeq
         /\ DOMAIN rows' = 1..(TipSeq + 1)
         /\ TipSeq' = TipSeq + 1
         /\ \A s \in 1..TipSeq : rows'[s] = rows[s]
         /\ rows'[TipSeq + 1] = draft[c].row
         /\ anchor' = [seq |-> TipSeq + 1, hash |-> draft[c].row.hash]
         /\ lock' = None /\ lock = c /\ call[c].pc = "staged"
<1>1. TipSeq \in Nat /\ DOMAIN rows = 1..TipSeq
  BY DEF IInv, ChainContiguous
<1>2. call[c].pc = "staged" /\ draft[c].seq = TipSeq + 1 /\ lock = c
  BY DEF IInv, StagedInv, LockInv, Land
<1>3. DOMAIN rows' = 1..(TipSeq + 1)
  BY <1>1, <1>2 DEF Land
<1>4. TipSeq' = TipSeq + 1
  <2>1. TipSeq' = Max(DOMAIN rows' \cup {0})
    BY DEF TipSeq
  <2>2. TipSeq' = Max((1..(TipSeq + 1)) \cup {0})
    BY <1>3, <2>1
  <2>3. TipSeq + 1 \in Nat
    BY <1>1
  <2>4. Max((1..(TipSeq + 1)) \cup {0}) = TipSeq + 1
    BY <2>3, MaxOfInterval
  <2> QED
    BY <2>2, <2>4
<1>5. \A s \in 1..TipSeq : rows'[s] = rows[s]
  BY <1>1, <1>2 DEF Land
<1>6. rows'[TipSeq + 1] = draft[c].row
  BY <1>1, <1>2 DEF Land
<1> QED
  BY <1>1, <1>2, <1>3, <1>4, <1>5, <1>6 DEF Land

-----------------------------------------------------------------------------
(* How the calls change *)

(* The failed attempt of a call is tried again or given up. *)
LEMMA RejectedCall ==
  ASSUME CallsOK, NEW c \in Calls, Rejected(c)
  PROVE  /\ call' \in [Calls -> [pc: {"idle"} \cup InTransaction \cup Settled, tries: 0..Retries]]
         /\ call'[c].pc \in {"waiting", "failed"}
         /\ \A d \in Calls \ {c} : call'[d] = call[d]
         /\ degraded' \in SUBSET Replicas
BY ChainAssumption DEF CallsOK, Rejected, MayRetry, TriesAfter, InTransaction, Settled

(* A commit ends one transaction and leaves the other calls where they are. *)
LEMMA LandCalls ==
  ASSUME CallsOK, NEW c \in Calls, Land(c), Commit(c) \/ CommitLost(c)
  PROVE  /\ CallsOK'
         /\ call'[c].pc \in {"acked", "waiting", "failed"}
         /\ \A d \in Calls \ {c} : call'[d] = call[d]
<1>1. lock' \in Calls \cup {None} /\ DOMAIN draft' = Calls
  BY DEF CallsOK, Land
<1>2. CASE Commit(c)
  <2>1. call' = [call EXCEPT ![c].pc = "acked"] /\ UNCHANGED degraded
    BY <1>2 DEF Commit
  <2> QED
    BY <1>1, <2>1 DEF CallsOK, Settled
<1>3. CASE CommitLost(c)
  <2>1. Rejected(c)
    BY <1>3 DEF CommitLost
  <2> QED
    BY <1>1, <2>1, RejectedCall DEF CallsOK
<1> QED
  BY <1>2, <1>3

(* Whatever one call does, it leaves the others where they are, and the lock with
   the call that is past it. *)
LEMMA StepCalls ==
  ASSUME CallsOK, LockInv, Next
  PROVE  CallsOK' /\ LockInv'
<1>1. ASSUME NEW c \in Calls, Start(c) \/ Acquire(c) \/ AlreadyLanded(c) \/ Stage(c)
      PROVE  CallsOK' /\ LockInv'
  <2>1. CASE Start(c)
    BY <2>1 DEF Start, CallsOK, LockInv, InTransaction, Settled
  <2>2. CASE Acquire(c)
    BY <2>2, ChainAssumption DEF Acquire, LockFree, CallsOK, LockInv, InTransaction, Settled
  <2>3. CASE AlreadyLanded(c)
    BY <2>3, ChainAssumption DEF AlreadyLanded, CallsOK, LockInv, InTransaction, Settled
  <2>4. CASE Stage(c)
    BY <2>4 DEF Stage, CallsOK, LockInv, InTransaction, Settled
  <2> QED
    BY <1>1, <2>1, <2>2, <2>3, <2>4
<1>2. ASSUME NEW c \in Calls, Commit(c) \/ CommitLost(c) PROVE CallsOK' /\ LockInv'
  <2>1. Land(c)
    BY <1>2 DEF Commit, CommitLost
  <2>2. lock = c /\ lock' = None
    BY <2>1 DEF Land, LockInv
  <2>3. /\ CallsOK' /\ call'[c].pc \in {"acked", "waiting", "failed"}
        /\ \A d \in Calls \ {c} : call'[d] = call[d]
    BY <1>2, <2>1, LandCalls
  <2> QED
    BY <2>2, <2>3, ChainAssumption DEF LockInv
<1>3. ASSUME NEW c \in Calls, Fail(c) PROVE CallsOK' /\ LockInv'
  <2>1. Rejected(c) /\ lock' = IF lock = c THEN None ELSE lock
    BY <1>3 DEF Fail
  <2>2. DOMAIN draft' = Calls
    BY <1>3 DEF Fail, CallsOK
  <2> QED
    BY <2>1, <2>2, RejectedCall, ChainAssumption DEF CallsOK, LockInv
<1>4. ASSUME NEW r \in Replicas, Restart(r) PROVE CallsOK' /\ LockInv'
  BY <1>4, ChainAssumption DEF Restart, CallsOK, LockInv, InTransaction, Settled
<1> QED
  BY <1>1, <1>2, <1>3, <1>4 DEF Next, Attempt

LEMMA TypeIsCalls ==
  TypeOK <=> /\ DOMAIN rows \subseteq Nat \ {0}
             /\ \A s \in DOMAIN rows : rows[s].event \in Calls
             /\ CallsOK
BY DEF TypeOK, CallsOK

LEMMA StepType ==
  ASSUME IInv, Next
  PROVE  TypeOK' /\ LockInv'
<1>1. CallsOK /\ LockInv
  BY TypeIsCalls DEF IInv
<1>2. CallsOK' /\ LockInv'
  BY <1>1, StepCalls
<1>3. DOMAIN rows' \subseteq Nat \ {0} /\ \A s \in DOMAIN rows' : rows'[s].event \in Calls
  <2>1. CASE UNCHANGED rows
    BY <2>1 DEF IInv, TypeOK
  <2>2. ASSUME NEW c \in Calls, Land(c)
        PROVE  DOMAIN rows' \subseteq Nat \ {0} /\ \A s \in DOMAIN rows' : rows'[s].event \in Calls
    <3>1. draft[c].row.event \in Calls
      BY <2>2 DEF IInv, StagedInv, Land
    <3> QED
      BY <2>2, <3>1, LandExtends DEF IInv, TypeOK
  <2> QED
    BY <2>1, <2>2 DEF Next, Attempt, Start, Acquire, AlreadyLanded, Stage, Commit, CommitLost,
                      Fail, Restart
<1> QED
  BY <1>2, <1>3 DEF TypeOK, CallsOK

-----------------------------------------------------------------------------
(* The table *)

LEMMA LandChain ==
  ASSUME IInv, NEW c \in Calls, Land(c)
  PROVE  TipSeq' \in Nat /\ ChainContiguous'
<1> DEFINE n == TipSeq
<1>1. n \in Nat /\ TipSeq' = n + 1 /\ DOMAIN rows' = 1..(n + 1)
  BY LandExtends
<1>2. /\ draft[c].row.prev = TipHash
      /\ draft[c].row.id = c /\ draft[c].row.event = c
      /\ draft[c].row.hash = HashOf(n + 1, c, c, TipHash)
  BY DEF IInv, StagedInv, Land
<1>3. TipHash = IF n = 0 THEN Genesis ELSE rows[n].hash
  BY DEF TipHash
<1>4. \A s \in 1..(n + 1) :
        /\ rows'[s].prev = IF s = 1 THEN Genesis ELSE rows'[s - 1].hash
        /\ rows'[s].hash = HashOf(s, rows'[s].id, rows'[s].event, rows'[s].prev)
  <2> TAKE s \in 1..(n + 1)
  <2>1. CASE s = n + 1
    <3>1. n # 0 => n \in 1..n
      BY <1>1
    <3>2. rows'[n + 1] = draft[c].row /\ \A t \in 1..n : rows'[t] = rows[t]
      BY LandExtends
    <3> QED
      BY <1>1, <1>2, <1>3, <2>1, <3>1, <3>2
  <2>2. CASE s # n + 1
    <3>1. s \in 1..n /\ (s # 1 => s - 1 \in 1..n)
      BY <1>1, <2>2
    <3>2. /\ rows[s].prev = IF s = 1 THEN Genesis ELSE rows[s - 1].hash
          /\ rows[s].hash = HashOf(s, rows[s].id, rows[s].event, rows[s].prev)
      BY <3>1 DEF IInv, ChainContiguous
    <3>3. \A t \in 1..n : rows'[t] = rows[t]
      BY LandExtends
    <3> QED
      BY <3>1, <3>2, <3>3
  <2> QED
    BY <2>1, <2>2
<1>5. anchor' = [seq |-> n + 1, hash |-> rows'[n + 1].hash]
  BY LandExtends
<1> QED
  BY <1>1, <1>4, <1>5 DEF ChainContiguous, HashOf

LEMMA LandOnce ==
  ASSUME IInv, NEW c \in Calls, Land(c)
  PROVE  IdInv' /\ EventOnce'
<1> DEFINE n == TipSeq
<1>1. /\ n \in Nat /\ DOMAIN rows = 1..n /\ DOMAIN rows' = 1..(n + 1)
      /\ \A s \in 1..n : rows'[s] = rows[s]
      /\ rows'[n + 1] = draft[c].row
  BY LandExtends
<1>2. /\ draft[c].row.id = c /\ draft[c].row.event = c
      /\ \A s \in 1..n : rows[s].event # c
  BY <1>1 DEF IInv, StagedInv, Land
<1>3. \A s \in 1..(n + 1) : s = n + 1 \/ s \in 1..n
  BY <1>1
<1> QED
  BY <1>1, <1>2, <1>3 DEF IInv, IdInv, EventOnce

(* The event of the committed row is in the table, and no other is lost. *)
LEMMA LandLogs ==
  ASSUME IInv, NEW c \in Calls, Land(c)
  PROVE  /\ \E s \in DOMAIN rows' : rows'[s].event = c
         /\ \A d \in Calls : (\E s \in DOMAIN rows : rows[s].event = d)
                              => \E s \in DOMAIN rows' : rows'[s].event = d
<1>1. draft[c].row.event = c
  BY DEF IInv, StagedInv, Land
<1>2. TipSeq + 1 \in 1..(TipSeq + 1) /\ 1..TipSeq \subseteq 1..(TipSeq + 1)
  BY LandExtends
<1> QED
  BY <1>1, <1>2, LandExtends

LEMMA StepChain ==
  ASSUME IInv, Next
  PROVE  TipSeq' \in Nat /\ ChainContiguous' /\ IdInv' /\ EventOnce'
<1>1. CASE UNCHANGED <<rows, anchor>>
  BY <1>1, TipStays DEF IInv, ChainContiguous, IdInv, EventOnce
<1>2. ASSUME NEW c \in Calls, Land(c)
      PROVE  TipSeq' \in Nat /\ ChainContiguous' /\ IdInv' /\ EventOnce'
  BY <1>2, LandChain, LandOnce
<1> QED
  BY <1>1, <1>2 DEF Next, Attempt, Start, Acquire, AlreadyLanded, Stage, Commit, CommitLost,
                    Fail, Restart

LEMMA StepStaged ==
  ASSUME IInv, Next
  PROVE  StagedInv'
<1>1. ASSUME NEW c \in Calls, Start(c) \/ Acquire(c) \/ AlreadyLanded(c)
      PROVE  StagedInv'
  <2>1. UNCHANGED <<rows, draft>> /\ \A d \in Calls : call'[d].pc = "staged" => call[d].pc = "staged"
    BY <1>1 DEF IInv, TypeOK, Start, Acquire, AlreadyLanded
  <2> QED
    BY <2>1, TipStays DEF IInv, StagedInv
<1>2. ASSUME NEW c \in Calls, Stage(c) PROVE StagedInv'
  <2>1. UNCHANGED rows /\ TipSeq' = TipSeq /\ TipHash' = TipHash
    BY <1>2, TipStays DEF Stage
  <2>2. \A d \in Calls \ {c} : call'[d] = call[d] /\ draft'[d] = draft[d]
    BY <1>2 DEF Stage, IInv, TypeOK
  <2>3. draft'[c] = [seq |-> TipSeq + 1, row |-> NewRow(c)]
    BY <1>2 DEF Stage, IInv, TypeOK
  <2>4. \A s \in DOMAIN rows : rows[s].event # c
    BY <1>2 DEF Stage, Landed, EventId, IInv, IdInv
  <2> QED
    BY <2>1, <2>2, <2>3, <2>4 DEF IInv, StagedInv, NewRow, EventId
<1>3. ASSUME NEW c \in Calls, Land(c), Commit(c) \/ CommitLost(c) PROVE StagedInv'
  <2>1. \A d \in Calls : call'[d].pc # "staged"
    <3>1. lock' = None
      BY <1>3 DEF Land
    <3> QED
      BY <3>1, StepType, ChainAssumption DEF LockInv
  <2> QED
    BY <2>1 DEF StagedInv
<1>4. ASSUME NEW c \in Calls, Fail(c) PROVE StagedInv'
  <2>1. UNCHANGED rows /\ Rejected(c) /\ TypeOK
    BY <1>4 DEF Fail, IInv
  <2>2. \A d \in Calls \ {c} : draft'[d] = draft[d]
    BY <1>4 DEF Fail, IInv, TypeOK
  <2>3. call'[c].pc # "staged" /\ \A d \in Calls \ {c} : call'[d] = call[d]
    BY <2>1, RejectedCall, TypeIsCalls
  <2> QED
    BY <2>1, <2>2, <2>3, TipStays DEF IInv, StagedInv
<1>5. ASSUME NEW r \in Replicas, Restart(r) PROVE StagedInv'
  <2>1. \A d \in Calls : call'[d].pc = "staged" => call[d].pc = "staged" /\ draft'[d] = draft[d]
    BY <1>5 DEF Restart, InTransaction
  <2> QED
    BY <1>5, <2>1, TipStays DEF IInv, StagedInv, Restart
<1> QED
  BY <1>1, <1>2, <1>3, <1>4, <1>5 DEF Next, Attempt, Commit, CommitLost

LEMMA StepAcked ==
  ASSUME IInv, Next
  PROVE  AckedIsLogged'
<1>1. ASSUME NEW c \in Calls, Start(c) \/ Acquire(c) \/ Stage(c) PROVE AckedIsLogged'
  BY <1>1 DEF IInv, TypeOK, AckedIsLogged, Start, Acquire, Stage
<1>2. ASSUME NEW c \in Calls, AlreadyLanded(c) PROVE AckedIsLogged'
  <2>1. \E s \in DOMAIN rows : rows[s].event = c
    BY <1>2 DEF AlreadyLanded, Landed, EventId, IInv, IdInv
  <2> QED
    BY <1>2, <2>1 DEF IInv, TypeOK, AckedIsLogged, AlreadyLanded
<1>3. ASSUME NEW c \in Calls, Commit(c) PROVE AckedIsLogged'
  <2>1. \A d \in Calls \ {c} : call'[d] = call[d]
    BY <1>3 DEF Commit, IInv, TypeOK
  <2> QED
    BY <1>3, <2>1, LandLogs DEF Commit, IInv, AckedIsLogged
<1>4. ASSUME NEW c \in Calls, CommitLost(c) PROVE AckedIsLogged'
  <2>1. call'[c].pc # "acked" /\ \A d \in Calls \ {c} : call'[d] = call[d]
    BY <1>4, RejectedCall, TypeIsCalls DEF CommitLost, IInv
  <2> QED
    BY <1>4, <2>1, LandLogs DEF CommitLost, IInv, AckedIsLogged
<1>5. ASSUME NEW c \in Calls, Fail(c) PROVE AckedIsLogged'
  <2>1. call'[c].pc # "acked" /\ \A d \in Calls \ {c} : call'[d] = call[d]
    BY <1>5, RejectedCall, TypeIsCalls DEF Fail, IInv
  <2> QED
    BY <1>5, <2>1 DEF Fail, IInv, AckedIsLogged
<1>6. ASSUME NEW r \in Replicas, Restart(r) PROVE AckedIsLogged'
  BY <1>6 DEF Restart, IInv, TypeOK, AckedIsLogged
<1> QED
  BY <1>1, <1>2, <1>3, <1>4, <1>5, <1>6 DEF Next, Attempt

-----------------------------------------------------------------------------
(* The inductive invariant *)

LEMMA InitInvariant == Init => IInv
<1> SUFFICES ASSUME Init PROVE IInv
  OBVIOUS
<1>1. rows = <<>> /\ DOMAIN rows = {} /\ DOMAIN rows = 1..0
  BY DEF Init
<1>2. TipSeq = 0
  BY <1>1, MaxOfInterval DEF TipSeq
<1>3. TypeOK
  BY <1>1, ChainAssumption DEF Init, TypeOK
<1>4. LockInv /\ StagedInv /\ AckedIsLogged
  BY ChainAssumption DEF Init, LockInv, StagedInv, AckedIsLogged
<1> QED
  BY <1>1, <1>2, <1>3, <1>4 DEF Init, IInv, ChainContiguous, IdInv, EventOnce

LEMMA StepInvariant == IInv /\ [Next]_vars => IInv'
<1> SUFFICES ASSUME IInv, [Next]_vars PROVE IInv'
  OBVIOUS
<1>1. CASE Next
  BY <1>1, StepType, StepChain, StepStaged, StepAcked DEF IInv
<1>2. CASE UNCHANGED vars
  BY <1>2, TipStays DEF vars, IInv, TypeOK, ChainContiguous, LockInv, StagedInv, IdInv, EventOnce, AckedIsLogged
<1> QED
  BY <1>1, <1>2

THEOREM Invariance == Spec => []IInv
BY InitInvariant, StepInvariant, PTL DEF Spec

(* Types: AuditChain's variables keep their shape in every run. *)
THEOREM TypeCorrect == Spec => []TypeOK
BY Invariance, PTL DEF IInv

(* recordInTransaction: whatever replicas append, retry, roll back or restart, the
   committed table is 1..n, linked, and anchored at n. *)
THEOREM Contiguous == Spec => []ChainContiguous
BY Invariance, PTL DEF IInv

(* The advisory lock makes the tip a transaction read still the tip at commit. *)
THEOREM NeverCollide == Spec => []AppendsNeverCollide
<1>1. IInv => AppendsNeverCollide
  BY DEF IInv, StagedInv, AppendsNeverCollide
<1> QED
  BY <1>1, Invariance, PTL

(* appendDurable's stable id: one row for one business event. *)
THEOREM Once == Spec => []EventOnce
BY Invariance, PTL DEF IInv

(* A successful record() or recordInTransaction() is in the trail. *)
THEOREM Acked == Spec => []AckedIsLogged
BY Invariance, PTL DEF IInv

-----------------------------------------------------------------------------
(* Refinement: the chain is an append-only log *)

events == [s \in DOMAIN rows |-> rows[s].event]
told   == {c \in Calls : call[c].pc = "acked"}

LEMMA EventsIsSeq ==
  ASSUME IInv
  PROVE  events \in Seq(Calls) /\ Len(events) = TipSeq /\ DOMAIN events = 1..TipSeq
<1>1. TipSeq \in Nat /\ DOMAIN rows = 1..TipSeq
  BY DEF IInv, ChainContiguous
<1>2. \A s \in 1..TipSeq : rows[s].event \in Calls
  BY <1>1 DEF IInv, TypeOK
<1>3. events \in [1..TipSeq -> Calls]
  BY <1>1, <1>2 DEF events
<1> QED
  BY <1>1, <1>3, LenProperties DEF events

LEMMA LandAppends ==
  ASSUME IInv, IInv', NEW c \in Calls, Land(c)
  PROVE  /\ events' = Append(events, c)
         /\ c \notin {events[i] : i \in DOMAIN events}
<1> DEFINE n == TipSeq
<1>1. /\ n \in Nat /\ DOMAIN rows = 1..n /\ DOMAIN rows' = 1..(n + 1) /\ TipSeq' = n + 1
      /\ \A s \in 1..n : rows'[s] = rows[s]
      /\ rows'[n + 1] = draft[c].row
  BY LandExtends
<1>2. draft[c].row.event = c /\ \A s \in 1..n : rows[s].event # c
  BY <1>1 DEF IInv, StagedInv, Land
<1>3. events \in Seq(Calls) /\ Len(events) = n
  BY EventsIsSeq
<1>4. events' \in Seq(Calls) /\ Len(events') = n + 1
  <2>1. \A s \in 1..(n + 1) : rows'[s].event \in Calls
    BY <1>1 DEF IInv, TypeOK
  <2>2. events' = [s \in 1..(n + 1) |-> rows'[s].event]
    BY <1>1 DEF events
  <2>3. events' \in [1..(n + 1) -> Calls]
    BY <2>1, <2>2
  <2> QED
    BY <1>1, <2>3
<1>5. /\ Append(events, c) \in Seq(Calls) /\ Len(Append(events, c)) = n + 1
      /\ \A i \in 1..n : Append(events, c)[i] = events[i]
      /\ Append(events, c)[n + 1] = c
  BY <1>3, AppendProperties
<1>6. \A i \in 1..(n + 1) : events'[i] = Append(events, c)[i]
  <2> TAKE i \in 1..(n + 1)
  <2>1. CASE i = n + 1
    BY <1>1, <1>2, <1>5, <2>1 DEF events
  <2>2. CASE i # n + 1
    BY <1>1, <1>5, <2>2 DEF events
  <2> QED
    BY <2>1, <2>2
<1>7. events' = Append(events, c)
  BY <1>4, <1>5, <1>6, SeqEqual
<1>8. c \notin {events[i] : i \in DOMAIN events}
  BY <1>1, <1>2 DEF events
<1> QED
  BY <1>7, <1>8

LEMMA StepRefines ==
  ASSUME IInv, IInv', [Next]_vars
  PROVE  [Trail!Next]_<<events, told>>
<1>1. CASE UNCHANGED vars
  BY <1>1 DEF vars, events, told
<1>2. ASSUME NEW c \in Calls, Start(c) \/ Acquire(c) \/ Stage(c)
      PROVE  UNCHANGED <<events, told>>
  <2>1. UNCHANGED rows /\ \A d \in Calls : call'[d].pc = "acked" <=> call[d].pc = "acked"
    BY <1>2 DEF Start, Acquire, Stage, IInv, TypeOK
  <2> QED
    BY <2>1 DEF events, told
<1>3. ASSUME NEW c \in Calls, Fail(c) PROVE UNCHANGED <<events, told>>
  <2>1. call'[c].pc # "acked" /\ \A d \in Calls \ {c} : call'[d] = call[d]
    BY <1>3, RejectedCall, TypeIsCalls DEF Fail, IInv
  <2>2. call[c].pc # "acked" /\ UNCHANGED rows
    BY <1>3 DEF Fail, InTransaction
  <2> QED
    BY <2>1, <2>2 DEF events, told
<1>4. ASSUME NEW r \in Replicas, Restart(r) PROVE UNCHANGED <<events, told>>
  <2>1. UNCHANGED rows /\ \A d \in Calls : call'[d].pc = "acked" <=> call[d].pc = "acked"
    BY <1>4 DEF Restart, IInv, TypeOK, InTransaction
  <2> QED
    BY <2>1 DEF events, told
<1>5. ASSUME NEW c \in Calls, AlreadyLanded(c) PROVE Trail!Confirm(c)
  <2>1. told' = told \cup {c} /\ UNCHANGED events
    BY <1>5 DEF AlreadyLanded, IInv, TypeOK, events, told
  <2>2. c \in {events[i] : i \in DOMAIN events}
    BY <1>5 DEF AlreadyLanded, Landed, EventId, IInv, IdInv, events
  <2> QED
    BY <2>1, <2>2 DEF Trail!Confirm, Trail!Recorded, events, told
<1>6. ASSUME NEW c \in Calls, Commit(c) PROVE Trail!Append1(c)
  <2>1. events' = Append(events, c) /\ c \notin {events[i] : i \in DOMAIN events}
    BY <1>6, LandAppends DEF Commit
  <2>2. told' = told \cup {c}
    BY <1>6 DEF Commit, IInv, TypeOK, told
  <2> QED
    BY <2>1, <2>2 DEF Trail!Append1, Trail!Recorded, events, told
<1>7. ASSUME NEW c \in Calls, CommitLost(c) PROVE Trail!Append1(c)
  <2>1. events' = Append(events, c) /\ c \notin {events[i] : i \in DOMAIN events}
    BY <1>7, LandAppends DEF CommitLost
  <2>2. call'[c].pc # "acked" /\ \A d \in Calls \ {c} : call'[d] = call[d]
    BY <1>7, RejectedCall, TypeIsCalls DEF CommitLost, IInv
  <2>3. call[c].pc # "acked"
    BY <1>7 DEF CommitLost, Land
  <2>4. told' = told
    BY <2>2, <2>3 DEF told
  <2> QED
    BY <2>1, <2>4 DEF Trail!Append1, Trail!Recorded, events, told
<1> QED
  BY <1>1, <1>2, <1>3, <1>4, <1>5, <1>6, <1>7 DEF Next, Attempt, Trail!Next

LEMMA InitRefines == Init => Trail!Init
BY DEF Init, Trail!Init

(* AuditService keeps an append-only log: events enter it once, in order, are never
   removed, and a caller is told "recorded" only of an event that is in it. *)
THEOREM ImplementsLog == Spec => TrailSpec
<1>1. IInv /\ IInv' /\ [Next]_vars => [Trail!Next]_<<events, told>>
  BY StepRefines
<1> QED
  BY <1>1, InitRefines, Invariance, PTL DEF Spec, TrailSpec, Trail!Spec, events, told

-----------------------------------------------------------------------------
(* Verification: what holds of a table that is also tampered with *)

(* Some commit had this number. *)
Numbered(q) == \E i \in DOMAIN committed : committed[i].seq = q

WellFormed(r) == r = [id |-> r.id, event |-> r.event, prev |-> r.prev, hash |-> r.hash]

SelfHashed(q, r) == r.hash = HashOf(q, r.id, r.event, r.prev)

(* What a row numbered q is linked to: a row that was committed, and that is
   either gone, rewritten, or the one it names. *)
Follows(q, prev) ==
  /\ q = 1 => prev = Genesis
  /\ q > 1 => Numbered(q - 1)
  /\ q > 1 /\ q - 1 \in DOMAIN rows /\ rows[q - 1].event # None => prev = rows[q - 1].hash

TableInv ==
  /\ DOMAIN rows \subseteq Nat \ {0}
  /\ \E b \in Nat : \A s \in DOMAIN rows : s <= b
  /\ \A s \in DOMAIN rows :
       /\ Numbered(s) /\ WellFormed(rows[s]) /\ Follows(s, rows[s].prev)
       /\ rows[s].event # None => SelfHashed(s, rows[s])

(* An uncommitted row lies above the table, whatever was removed meanwhile. *)
DraftInv ==
  \A c \in Calls : call[c].pc = "staged" =>
    /\ draft[c].seq \in Nat \ {0} /\ \A s \in DOMAIN rows : s < draft[c].seq
    /\ draft[c].row.event = c
    /\ WellFormed(draft[c].row) /\ SelfHashed(draft[c].seq, draft[c].row)
    /\ Follows(draft[c].seq, draft[c].row.prev)

Latest == committed[Len(committed)]

HistoryInv ==
  /\ committed \in Seq({committed[i] : i \in DOMAIN committed})
  /\ \A i \in DOMAIN committed :
       /\ committed[i].seq \in Nat \ {0} /\ committed[i].row.event \in Calls
       /\ WellFormed(committed[i].row) /\ SelfHashed(committed[i].seq, committed[i].row)
  /\ anchor = IF committed = <<>> THEN NoMark
              ELSE [seq |-> Latest.seq, hash |-> Latest.row.hash]

CheckOK ==
  /\ DOMAIN check = {"pc", "total", "tip", "next", "prev", "verdict"}
  /\ check.pc \in {"idle", "counted", "tipped", "suffix", "walk", "done"}
  /\ flaky \in Nat

-----------------------------------------------------------------------------
(* Verification: what the reader has established *)

Complete == DOMAIN rows = 1..TipSeq

Linked(s) ==
  /\ rows[s].prev = IF s = 1 THEN Genesis ELSE rows[s - 1].hash
  /\ rows[s].hash = HashOf(s, rows[s].id, rows[s].event, rows[s].prev)

Anchored ==
  anchor # NoMark => /\ anchor.seq <= TipSeq
                     /\ anchor.seq = TipSeq => anchor.hash = TipHash

(* The first row the walk looks at. *)
WalkFrom == IF TipSeq > MaxVerify THEN TipSeq - MaxVerify + 1 ELSE 1

Walked(last) == \A s \in WalkFrom..last : Linked(s)

LinkAt(s) == IF s = 1 THEN Genesis ELSE rows[s - 1].hash

ReaderInv ==
  quiet /\ flaky = 0 =>
    /\ check.pc \in {"counted", "tipped"} =>
         check.total = Cardinality(DOMAIN rows) /\ check.next = 1 /\ check.prev = Genesis
    /\ check.pc = "tipped" =>
         check.tip = IF TipSeq = 0 THEN NoMark ELSE [seq |-> TipSeq, hash |-> TipHash]
    /\ check.pc \in {"suffix", "walk"} => check.tip.seq = TipSeq /\ Complete /\ Anchored
    /\ check.pc = "suffix" => TipSeq > MaxVerify
    /\ check.pc = "walk" =>
         /\ check.next \in WalkFrom..(TipSeq + 1) /\ check.prev = LinkAt(check.next)
         /\ Walked(check.next - 1)
    /\ check.pc = "done" /\ check.verdict = "intact" => Complete /\ Anchored /\ Walked(TipSeq)
    /\ check.pc = "done" /\ check.verdict = "empty" => DOMAIN rows = {} /\ anchor = NoMark

VerifyInv ==
  /\ CallsOK /\ LockInv /\ TableInv /\ DraftInv /\ HistoryInv
  /\ CheckOK /\ ReaderInv /\ AlarmIsReal

-----------------------------------------------------------------------------
(* Numbers and intervals *)

LEMMA LeastOf ==
  ASSUME NEW T, T \subseteq Nat, T # {}
  PROVE  \E m \in T : \A k \in T : m <= k
<1> DEFINE R == OpToRel(<, Nat)
<1>1. IsWellFoundedOn(R, Nat)
  BY NatLessThanWellFounded
<1> HIDE DEF R
<1>2. PICK m \in T : \A k \in T : ~(<<k, m>> \in R)
  BY <1>1, WFMin
<1>3. \A k \in T : k < m => <<k, m>> \in R
  BY DEF R, OpToRel
<1>4. \A k \in T : ~(k < m)
  BY <1>2, <1>3
<1> QED
  BY <1>4

LEMMA GreatestOf ==
  ASSUME NEW T, T \subseteq Nat, T # {}, NEW b \in Nat, \A k \in T : k <= b
  PROVE  \E m \in T : \A k \in T : k <= m
<1> DEFINE U == {x \in Nat : b - x \in T}
<1>1. \A k \in T : b - k \in U
  OBVIOUS
<1>2. U \subseteq Nat /\ U # {}
  BY <1>1
<1>3. PICK x \in U : \A y \in U : x <= y
  BY <1>2, LeastOf
<1> QED
  BY <1>1, <1>3

(* What is passed from each number of an interval to the one below it, and holds
   of the highest, holds of all of them. *)
LEMMA Downward ==
  ASSUME NEW S, NEW m \in Nat, NEW n \in Nat, m <= n => n \in S,
         \A k \in (m + 1)..n : k \in S => k - 1 \in S
  PROVE  m..n \subseteq S
<1> DEFINE T == {k \in m..n : k \notin S}
<1> SUFFICES ASSUME T # {} PROVE FALSE
  OBVIOUS
<1>1. T \subseteq Nat /\ \A k \in T : k <= n
  OBVIOUS
<1>2. PICK k \in T : \A j \in T : j <= k
  BY <1>1, GreatestOf
<1>3. k # n /\ k + 1 \in (m + 1)..n
  BY <1>2
<1>4. k + 1 \in S
  BY <1>2, <1>3
<1>5. k + 1 - 1 \in S
  BY <1>3, <1>4
<1> QED
  BY <1>2, <1>5

LEMMA MaxOf ==
  ASSUME NEW S, S \subseteq Nat, NEW m \in S, \A s \in S : s <= m
  PROVE  Max(S) = m
<1>1. \A x \in S : (\A y \in S : x >= y) => x = m
  OBVIOUS
<1>2. \A y \in S : m >= y
  OBVIOUS
<1> QED
  BY <1>1, <1>2 DEF Max

LEMMA CountFullInterval ==
  ASSUME NEW n \in Nat, NEW S \in SUBSET (1..n), Cardinality(S) = n
  PROVE  S = 1..n
<1>1. IsFiniteSet(1..n) /\ Cardinality(1..n) = n
  BY FS_Interval
<1> QED
  BY <1>1, FS_Subset

-----------------------------------------------------------------------------
(* Reading the table *)

LEMMA TipOf ==
  ASSUME TableInv
  PROVE  /\ TipSeq \in Nat /\ DOMAIN rows \subseteq 1..TipSeq
         /\ TipSeq # 0 => TipSeq \in DOMAIN rows
<1> DEFINE D == DOMAIN rows \cup {0}
<1>1. D \subseteq Nat /\ D # {}
  BY DEF TableInv
<1>2. PICK b \in Nat : \A s \in D : s <= b
  BY DEF TableInv
<1>3. PICK m \in D : \A s \in D : s <= m
  BY <1>1, <1>2, GreatestOf
<1>4. Max(D) = m
  BY <1>1, <1>3, MaxOf
<1>5. TipSeq = m
  BY <1>4 DEF TipSeq
<1>6. DOMAIN rows \subseteq 1..m
  BY <1>3 DEF TableInv
<1> QED
  BY <1>1, <1>3, <1>5, <1>6

(* verify's gap check: as many rows as the highest number says is every row. *)
LEMMA CountedIsComplete ==
  ASSUME TableInv
  PROVE  Cardinality(DOMAIN rows) = TipSeq <=> Complete
<1>1. TipSeq \in Nat /\ DOMAIN rows \subseteq 1..TipSeq
  BY TipOf
<1>2. Cardinality(1..TipSeq) = TipSeq
  BY <1>1, FS_Interval
<1> QED
  BY <1>1, <1>2, CountFullInterval DEF Complete

(* One query of eachPage over a complete table. *)
LEMMA PageOf ==
  ASSUME TableInv, Complete, check.next \in 1..(TipSeq + 1)
  PROVE  LET last == IF TipSeq < check.next + Page - 1 THEN TipSeq ELSE check.next + Page - 1 IN
         PageSeqs = check.next..last /\ Cardinality(PageSeqs) = last - check.next + 1
<1> DEFINE n == TipSeq
           a == check.next
           last == IF n < a + Page - 1 THEN n ELSE a + Page - 1
<1>1. n \in Nat /\ DOMAIN rows = 1..n /\ a \in 1..(n + 1) /\ Page \in Nat \ {0}
  BY TipOf, VerifyAssumption DEF Complete
<1>2. \A s \in a..n : Cardinality({t \in 1..n : a <= t /\ t <= s}) = s - a + 1
  <2> TAKE s \in a..n
  <2>1. {t \in 1..n : a <= t /\ t <= s} = a..s
    BY <1>1
  <2>2. a \in Int /\ s \in Int /\ ~(a > s)
    BY <1>1
  <2> HIDE DEF a
  <2>3. Cardinality(a..s) = s - a + 1
    BY <2>2, FS_Interval
  <2> QED
    BY <2>1, <2>3
<1>3. PageSeqs = {s \in 1..n : s >= a /\ Cardinality({t \in 1..n : a <= t /\ t <= s}) <= Page}
  BY <1>1 DEF PageSeqs
<1>4. PageSeqs = {s \in a..n : s - a + 1 <= Page}
  <2>1. \A s \in 1..n : s >= a => s \in a..n
    BY <1>1
  <2>2. a..n \subseteq 1..n /\ \A s \in a..n : s >= a
    BY <1>1
  <2> QED
    BY <1>2, <1>3, <2>1, <2>2
<1>5. PageSeqs = a..last
  BY <1>1, <1>4
<1>6. Cardinality(a..last) = last - a + 1
  <2>1. a \in Int /\ last \in Int /\ (a > last => last - a + 1 = 0)
    BY <1>1
  <2> HIDE DEF last, a
  <2> QED
    BY <2>1, FS_Interval
<1> QED
  BY <1>5, <1>6

(* What tampering can do to a row: nothing, or rewrite its content. *)
LEMMA DamagedRows ==
  ASSUME TableInv, Damage
  PROVE  /\ DOMAIN rows' \subseteq DOMAIN rows
         /\ \A t \in DOMAIN rows' :
              \/ rows'[t] = rows[t]
              \/ rows'[t].event = None /\ rows'[t].prev = rows[t].prev /\ WellFormed(rows'[t])
<1>1. PICK s \in DOMAIN rows : Lose(s) \/ \E rehash \in BOOLEAN : Rewrite(s, rehash)
  BY DEF Damage
<1>2. CASE Lose(s)
  BY <1>2 DEF Lose
<1>3. ASSUME NEW rehash \in BOOLEAN, Rewrite(s, rehash)
      PROVE  /\ DOMAIN rows' = DOMAIN rows
             /\ \A t \in DOMAIN rows \ {s} : rows'[t] = rows[t]
             /\ rows'[s].event = None /\ rows'[s].prev = rows[s].prev /\ WellFormed(rows'[s])
  <2> DEFINE old == rows[s]
             h == IF rehash THEN HashOf(s, old.id, None, old.prev) ELSE old.hash
  <2>1. old = [id |-> old.id, event |-> old.event, prev |-> old.prev, hash |-> old.hash]
    BY DEF TableInv, WellFormed
  <2>2. rows' = [rows EXCEPT ![s] = [[old EXCEPT !.event = None] EXCEPT !.hash = h]]
    BY <1>3 DEF Rewrite
  <2>3. rows'[s] = [[old EXCEPT !.event = None] EXCEPT !.hash = h]
    BY <2>2
  <2>4. rows'[s] = [id |-> old.id, event |-> None, prev |-> old.prev, hash |-> h]
    BY <2>1, <2>3
  <2> QED
    BY <2>2, <2>4 DEF WellFormed
<1> QED
  BY <1>1, <1>2, <1>3

LEMMA LastCommit ==
  ASSUME HistoryInv
  PROVE  /\ Len(committed) \in Nat /\ DOMAIN committed = 1..Len(committed)
         /\ committed # <<>> => Len(committed) \in DOMAIN committed
<1>1. Len(committed) \in Nat /\ DOMAIN committed = 1..Len(committed)
  BY LenProperties DEF HistoryInv
<1>2. committed # <<>> => Len(committed) # 0
  BY EmptySeq DEF HistoryInv
<1> QED
  BY <1>1, <1>2

(* Unless a committed row was touched, the table is the chain its writers built. *)
LEMMA UndamagedChain ==
  ASSUME TableInv, HistoryInv, ~Damaged
  PROVE  Complete /\ Anchored /\ \A s \in 1..TipSeq : Linked(s)
<1>1. \A i \in DOMAIN committed : Intact(committed[i]) /\ committed[i].row.event # None
  BY ChainAssumption DEF Damaged, HistoryInv
<1>2. \A s \in Nat : Numbered(s) => s \in DOMAIN rows /\ rows[s].event # None
  BY <1>1 DEF Numbered, Intact
<1>3. \A s \in DOMAIN rows : s > 1 => s - 1 \in DOMAIN rows /\ rows[s - 1].event # None
  <2> TAKE s \in DOMAIN rows
  <2> HAVE s > 1
  <2>1. s \in Nat /\ Numbered(s - 1)
    BY DEF TableInv, Follows
  <2> QED
    BY <1>2, <2>1
<1>4. TipSeq \in Nat /\ DOMAIN rows \subseteq 1..TipSeq /\ (TipSeq # 0 => TipSeq \in DOMAIN rows)
  BY TipOf
<1>5. Complete
  <2>1. 1 <= TipSeq => TipSeq \in DOMAIN rows
    BY <1>4
  <2>2. \A k \in 2..TipSeq : k \in DOMAIN rows => k - 1 \in DOMAIN rows
    BY <1>3, <1>4
  <2>3. 1 + 1 = 2
    OBVIOUS
  <2>4. 1..TipSeq \subseteq DOMAIN rows
    BY <1>4, <2>1, <2>2, <2>3, Downward
  <2> QED
    BY <1>4, <2>4 DEF Complete
<1>6. \A s \in 1..TipSeq : Linked(s)
  <2> TAKE s \in 1..TipSeq
  <2>1. s \in DOMAIN rows /\ s \in Nat /\ Numbered(s) /\ Follows(s, rows[s].prev)
    BY <1>4, <1>5 DEF Complete, TableInv
  <2>2. SelfHashed(s, rows[s])
    BY <1>2, <2>1 DEF TableInv
  <2>3. s > 1 => s - 1 \in DOMAIN rows /\ rows[s - 1].event # None
    BY <1>3, <2>1
  <2>4. s = 1 \/ s > 1
    BY <2>1
  <2>5. rows[s].prev = IF s = 1 THEN Genesis ELSE rows[s - 1].hash
    BY <2>1, <2>3, <2>4 DEF Follows
  <2> QED
    BY <2>2, <2>5 DEF Linked, SelfHashed
<1>7. Anchored
  <2> SUFFICES ASSUME anchor # NoMark PROVE Anchored
    BY DEF Anchored
  <2>1. committed # <<>> /\ anchor = [seq |-> Latest.seq, hash |-> Latest.row.hash]
    BY DEF HistoryInv
  <2>2. Intact(Latest)
    BY <1>1, <2>1, LastCommit DEF Latest
  <2>3. anchor.seq \in 1..TipSeq /\ anchor.hash = rows[anchor.seq].hash
    BY <1>4, <2>1, <2>2 DEF Intact
  <2> QED
    BY <1>4, <2>3 DEF Anchored, TipHash
<1> QED
  BY <1>5, <1>6, <1>7

-----------------------------------------------------------------------------
(* The writers, with tampering in between *)

(* A commit puts one row on top of the table and one entry into the history. *)
LEMMA LandCommits ==
  ASSUME HistoryInv, DraftInv, ChainStep, NEW c \in Calls, Land(c)
  PROVE  LET q == draft[c].seq  n == Len(committed) IN
         /\ q \in Nat \ {0} /\ \A s \in DOMAIN rows : s < q
         /\ DOMAIN rows' = DOMAIN rows \cup {q}
         /\ rows'[q] = draft[c].row /\ \A s \in DOMAIN rows : rows'[s] = rows[s]
         /\ committed' = Append(committed, [seq |-> q, row |-> draft[c].row])
         /\ n \in Nat /\ Len(committed') = n + 1
         /\ DOMAIN committed = 1..n /\ DOMAIN committed' = 1..(n + 1)
         /\ \A i \in 1..n : committed'[i] = committed[i]
         /\ committed'[n + 1] = [seq |-> q, row |-> draft[c].row]
         /\ committed' \in Seq({committed'[i] : i \in DOMAIN committed'})
<1> DEFINE q == draft[c].seq
           n == Len(committed)
           e == [seq |-> q, row |-> draft[c].row]
           S == {committed[i] : i \in DOMAIN committed} \cup {e}
<1>1. q \in Nat \ {0} /\ (\A s \in DOMAIN rows : s < q) /\ q \notin DOMAIN rows
  BY DEF DraftInv, Land
<1>2. /\ DOMAIN rows' = DOMAIN rows \cup {q}
      /\ rows'[q] = draft[c].row /\ \A s \in DOMAIN rows : rows'[s] = rows[s]
  BY <1>1 DEF Land
<1>3. committed' = Append(committed, e)
  BY <1>1, <1>2 DEF ChainStep
<1>4. committed \in Seq(S) /\ e \in S
  <2>1. DOMAIN committed = 1..n /\ n \in Nat
    BY LastCommit
  <2>2. committed = [i \in 1..n |-> committed[i]]
    BY <2>1 DEF HistoryInv
  <2>3. \A i \in 1..n : committed[i] \in S
    BY <2>1
  <2> QED
    BY <2>1, <2>2, <2>3, IsASeq
<1> HIDE DEF S, e
<1>5. /\ n \in Nat /\ DOMAIN committed = 1..n
      /\ committed' \in Seq(S) /\ Len(committed') = n + 1
      /\ \A i \in 1..n : committed'[i] = committed[i]
      /\ committed'[n + 1] = e
  BY <1>3, <1>4, AppendProperties, LastCommit
<1>6. DOMAIN committed' = 1..(n + 1)
  BY <1>5, LenProperties
<1>7. committed' \in Seq({committed'[i] : i \in DOMAIN committed'})
  <2>1. committed' = [i \in 1..(n + 1) |-> committed'[i]] /\ n + 1 \in Nat
    BY <1>5, <1>6
  <2>2. \A i \in 1..(n + 1) : committed'[i] \in {committed'[j] : j \in DOMAIN committed'}
    BY <1>6
  <2> QED
    BY <2>1, <2>2, IsASeq
<1> QED
  BY <1>1, <1>2, <1>3, <1>5, <1>6, <1>7 DEF e

(* Only a commit touches the table, the anchor or the history. *)
LEMMA ChainStepCases ==
  ASSUME ChainStep
  PROVE  \/ \E c \in Calls : Land(c)
         \/ UNCHANGED <<rows, anchor, committed>>
<1>1. UNCHANGED <<rows, anchor>> => UNCHANGED committed
  BY DEF ChainStep
<1> QED
  BY <1>1 DEF ChainStep, Next, Attempt, Start, Acquire, AlreadyLanded, Stage, Commit, CommitLost,
              Fail, Restart

LEMMA LandHistory ==
  ASSUME HistoryInv, DraftInv, ChainStep, NEW c \in Calls, Land(c)
  PROVE  HistoryInv'
<1> DEFINE n == Len(committed)
<1>1. /\ n \in Nat /\ Len(committed') = n + 1
      /\ DOMAIN committed = 1..n /\ DOMAIN committed' = 1..(n + 1)
      /\ \A i \in 1..n : committed'[i] = committed[i]
      /\ committed'[n + 1] = [seq |-> draft[c].seq, row |-> draft[c].row]
      /\ committed' \in Seq({committed'[i] : i \in DOMAIN committed'})
  BY LandCommits
<1>2. /\ draft[c].seq \in Nat \ {0} /\ draft[c].row.event \in Calls
      /\ WellFormed(draft[c].row) /\ SelfHashed(draft[c].seq, draft[c].row)
  BY DEF DraftInv, Land
<1>3. \A i \in 1..(n + 1) :
        /\ committed'[i].seq \in Nat \ {0} /\ committed'[i].row.event \in Calls
        /\ WellFormed(committed'[i].row) /\ SelfHashed(committed'[i].seq, committed'[i].row)
  <2> TAKE i \in 1..(n + 1)
  <2>1. CASE i = n + 1
    BY <1>1, <1>2, <2>1
  <2>2. CASE i # n + 1
    <3>1. i \in 1..n /\ committed'[i] = committed[i]
      BY <1>1, <2>2
    <3> QED
      BY <1>1, <3>1 DEF HistoryInv
  <2> QED
    BY <2>1, <2>2
<1>4. committed' # <<>>
  BY <1>1, EmptySeq
<1>5. anchor' = [seq |-> committed'[n + 1].seq, hash |-> committed'[n + 1].row.hash]
  BY <1>1 DEF Land
<1> QED
  BY <1>1, <1>3, <1>4, <1>5 DEF HistoryInv, Latest, WellFormed, SelfHashed, HashOf

LEMMA LandNumbered ==
  ASSUME HistoryInv, DraftInv, ChainStep, NEW c \in Calls, Land(c)
  PROVE  (\A k : k = draft[c].seq => Numbered(k)') /\ \A k : Numbered(k) => Numbered(k)'
<1> DEFINE n == Len(committed)
           q == draft[c].seq
<1>1. /\ n \in Nat /\ DOMAIN committed = 1..n /\ DOMAIN committed' = 1..(n + 1)
      /\ \A i \in 1..n : committed'[i] = committed[i]
      /\ committed'[n + 1] = [seq |-> q, row |-> draft[c].row]
  BY LandCommits
<1>2. n + 1 \in 1..(n + 1) /\ 1..n \subseteq 1..(n + 1)
  BY <1>1
<1>3. n + 1 \in DOMAIN committed' /\ committed'[n + 1].seq = q
  BY <1>1, <1>2
<1>4. \A i \in DOMAIN committed : i \in DOMAIN committed' /\ committed'[i].seq = committed[i].seq
  BY <1>1, <1>2
<1>5. \A k : Numbered(k) => Numbered(k)'
  BY <1>4 DEF Numbered
<1>6. ASSUME NEW k, k = q PROVE Numbered(k)'
  BY <1>3, <1>6 DEF Numbered
<1> QED
  BY <1>5, <1>6

LEMMA LandFollows ==
  ASSUME HistoryInv, DraftInv, ChainStep, NEW c \in Calls, Land(c),
         NEW q \in Nat, NEW p, q <= draft[c].seq, Follows(q, p)
  PROVE  Follows(q, p)'
<1>1. \A k : Numbered(k) => Numbered(k)'
  BY LandNumbered
<1>2. /\ draft[c].seq \in Nat
      /\ DOMAIN rows' = DOMAIN rows \cup {draft[c].seq}
      /\ \A s \in DOMAIN rows : rows'[s] = rows[s]
  BY LandCommits
<1>3. q - 1 \in DOMAIN rows' => q - 1 \in DOMAIN rows /\ rows'[q - 1] = rows[q - 1]
  BY <1>2
<1> QED
  BY <1>1, <1>3 DEF Follows

LEMMA LandTable ==
  ASSUME TableInv, HistoryInv, DraftInv, ChainStep, NEW c \in Calls, Land(c)
  PROVE  TableInv'
<1>1. PICK q, r : q = draft[c].seq /\ r = draft[c].row
  OBVIOUS
<1>2. /\ q \in Nat \ {0} /\ \A s \in DOMAIN rows : s < q
      /\ DOMAIN rows' = DOMAIN rows \cup {q}
      /\ rows'[q] = r /\ \A s \in DOMAIN rows : rows'[s] = rows[s]
  BY <1>1, LandCommits
<1>3. WellFormed(r) /\ SelfHashed(q, r) /\ Follows(q, r.prev)
  BY <1>1 DEF DraftInv, Land
<1>4. Numbered(q)' /\ \A k : Numbered(k) => Numbered(k)'
  BY <1>1, LandNumbered
<1>5. DOMAIN rows' \subseteq Nat \ {0} /\ \A s \in DOMAIN rows' : s <= q
  BY <1>2 DEF TableInv
<1>6. ASSUME NEW s \in DOMAIN rows'
      PROVE  /\ Numbered(s)' /\ WellFormed(rows'[s])
             /\ rows'[s].event # None => SelfHashed(s, rows'[s])
             /\ \A p : p = rows'[s].prev => Follows(s, p)'
  <2>1. CASE s = q
    <3>1. Follows(q, r.prev)'
      BY <1>1, <1>2, <1>3, LandFollows
    <3> QED
      BY <1>2, <1>3, <1>4, <2>1, <3>1
  <2>2. CASE s \in DOMAIN rows
    <3>1. /\ s \in Nat /\ s <= q /\ rows'[s] = rows[s]
          /\ Numbered(s) /\ WellFormed(rows[s]) /\ Follows(s, rows[s].prev)
          /\ rows[s].event # None => SelfHashed(s, rows[s])
      BY <1>2, <1>5, <2>2 DEF TableInv
    <3>2. PICK p : p = rows[s].prev
      OBVIOUS
    <3>3. Follows(s, p)'
      BY <1>1, <3>1, <3>2, LandFollows
    <3> QED
      BY <1>4, <3>1, <3>2, <3>3
  <2> QED
    BY <1>2, <2>1, <2>2
<1>7. \A s \in DOMAIN rows' : Follows(s, rows[s].prev)'
  BY <1>6 DEF Follows
<1> QED
  BY <1>2, <1>5, <1>6, <1>7 DEF TableInv, WellFormed, SelfHashed, HashOf

(* A transaction in progress, and what it inserted, survive only steps that leave
   the table alone: whoever commits holds the lock. *)
LEMMA StagedFrom ==
  ASSUME CallsOK, LockInv, Next, NEW c \in Calls, call'[c].pc = "staged"
  PROVE  \/ Stage(c)
         \/ call[c].pc = "staged" /\ draft'[c] = draft[c] /\ UNCHANGED rows
<1>1. ASSUME NEW d \in Calls, Start(d) \/ Acquire(d) \/ AlreadyLanded(d)
      PROVE  call[c].pc = "staged" /\ draft'[c] = draft[c] /\ UNCHANGED rows
  BY <1>1 DEF CallsOK, Start, Acquire, AlreadyLanded
<1>2. ASSUME NEW d \in Calls, Stage(d), d # c
      PROVE  call[c].pc = "staged" /\ draft'[c] = draft[c] /\ UNCHANGED rows
  BY <1>2 DEF CallsOK, Stage
<1>3. ASSUME NEW d \in Calls, Land(d) PROVE FALSE
  <2>1. lock' = None /\ LockInv'
    BY <1>3, StepCalls DEF Land
  <2> QED
    BY <2>1, ChainAssumption DEF LockInv
<1>4. ASSUME NEW d \in Calls, Fail(d)
      PROVE  call[c].pc = "staged" /\ draft'[c] = draft[c] /\ UNCHANGED rows
  <2>1. call'[d].pc # "staged" /\ \A e \in Calls \ {d} : call'[e] = call[e]
    BY <1>4, RejectedCall DEF Fail
  <2> QED
    BY <1>4, <2>1 DEF CallsOK, Fail
<1>5. ASSUME NEW r \in Replicas, Restart(r)
      PROVE  call[c].pc = "staged" /\ draft'[c] = draft[c] /\ UNCHANGED rows
  BY <1>5 DEF CallsOK, Restart, InTransaction
<1> QED
  BY <1>1, <1>2, <1>3, <1>4, <1>5 DEF Next, Attempt, Commit, CommitLost

(* The row a transaction inserts continues the table it read. *)
LEMMA StageDraft ==
  ASSUME CallsOK, TableInv, NEW c \in Calls, Stage(c)
  PROVE  /\ draft'[c].seq \in Nat \ {0} /\ \A s \in DOMAIN rows : s < draft'[c].seq
         /\ draft'[c].row.event = c
         /\ WellFormed(draft'[c].row) /\ SelfHashed(draft'[c].seq, draft'[c].row)
         /\ Follows(draft'[c].seq, draft'[c].row.prev)
<1>1. draft'[c] = [seq |-> TipSeq + 1, row |-> NewRow(c)]
  BY DEF Stage, CallsOK
<1>2. /\ TipSeq \in Nat /\ \A s \in DOMAIN rows : s < TipSeq + 1
      /\ TipSeq # 0 => TipSeq \in DOMAIN rows /\ Numbered(TipSeq)
  BY TipOf DEF TableInv
<1>3. /\ NewRow(c).event = c /\ NewRow(c).prev = TipHash
      /\ WellFormed(NewRow(c)) /\ SelfHashed(TipSeq + 1, NewRow(c))
  BY DEF NewRow, WellFormed, SelfHashed, EventId
<1>4. Follows(TipSeq + 1, TipHash)
  <2>1. CASE TipSeq = 0
    BY <2>1 DEF Follows, TipHash
  <2>2. CASE TipSeq # 0
    <3>1. TipSeq + 1 > 1 /\ TipSeq + 1 - 1 = TipSeq
      BY <1>2, <2>2
    <3> QED
      BY <1>2, <2>2, <3>1 DEF Follows, TipHash
  <2> QED
    BY <2>1, <2>2
<1> QED
  BY <1>1, <1>2, <1>3, <1>4

(* The same rows and the same history carry the same links. *)
LEMMA FollowsStays ==
  ASSUME UNCHANGED <<rows, committed>>, NEW q, NEW p
  PROVE  Follows(q, p)' <=> Follows(q, p)
BY DEF Follows, Numbered

LEMMA StepDraft ==
  ASSUME CallsOK, LockInv, TableInv, DraftInv, ChainStep
  PROVE  DraftInv'
<1> SUFFICES ASSUME NEW c \in Calls, call'[c].pc = "staged"
             PROVE  /\ draft'[c].seq \in Nat \ {0} /\ \A s \in DOMAIN rows' : s < draft'[c].seq
                    /\ draft'[c].row.event = c
                    /\ WellFormed(draft'[c].row) /\ SelfHashed(draft'[c].seq, draft'[c].row)
                    /\ \A q, p : q = draft'[c].seq /\ p = draft'[c].row.prev => Follows(q, p)'
  BY DEF DraftInv, WellFormed, SelfHashed, HashOf, Follows
<1>1. \/ Stage(c)
      \/ call[c].pc = "staged" /\ draft'[c] = draft[c] /\ UNCHANGED rows
  BY StagedFrom DEF ChainStep
<1>2. UNCHANGED <<rows, committed>>
  BY <1>1 DEF ChainStep, Stage
<1>3. /\ draft'[c].seq \in Nat \ {0} /\ \A s \in DOMAIN rows : s < draft'[c].seq
      /\ draft'[c].row.event = c
      /\ WellFormed(draft'[c].row) /\ SelfHashed(draft'[c].seq, draft'[c].row)
      /\ Follows(draft'[c].seq, draft'[c].row.prev)
  BY <1>1, StageDraft DEF DraftInv
<1>4. \A q, p : q = draft'[c].seq /\ p = draft'[c].row.prev => Follows(q, p)
  BY <1>3
<1> QED
  BY <1>2, <1>3, <1>4, FollowsStays

LEMMA DamagedFollows ==
  ASSUME TableInv, Damage, NEW q \in Nat, NEW p, Follows(q, p)
  PROVE  Follows(q, p)'
<1>1. \A k : Numbered(k) => Numbered(k)'
  BY DEF Damage, Numbered
<1>2. q - 1 \in DOMAIN rows' /\ rows'[q - 1].event # None
        => q - 1 \in DOMAIN rows /\ rows'[q - 1] = rows[q - 1]
  BY DamagedRows
<1> QED
  BY <1>1, <1>2 DEF Follows

LEMMA DamagedTable ==
  ASSUME TableInv, Damage
  PROVE  TableInv'
<1>1. /\ DOMAIN rows' \subseteq DOMAIN rows
      /\ \A t \in DOMAIN rows' :
           \/ rows'[t] = rows[t]
           \/ rows'[t].event = None /\ rows'[t].prev = rows[t].prev /\ WellFormed(rows'[t])
  BY DamagedRows
<1>2. \A k : Numbered(k) => Numbered(k)'
  BY DEF Damage, Numbered
<1>3. ASSUME NEW s \in DOMAIN rows'
      PROVE  /\ Numbered(s)' /\ WellFormed(rows'[s])
             /\ rows'[s].event # None => SelfHashed(s, rows'[s])
             /\ \A p : p = rows'[s].prev => Follows(s, p)'
  <2>1. /\ s \in Nat /\ Numbered(s) /\ WellFormed(rows[s]) /\ Follows(s, rows[s].prev)
        /\ rows[s].event # None => SelfHashed(s, rows[s])
    BY <1>1 DEF TableInv
  <2>2. PICK p : p = rows[s].prev
    OBVIOUS
  <2>3. Follows(s, p)'
    BY <2>1, <2>2, DamagedFollows
  <2> QED
    BY <1>1, <1>2, <2>1, <2>2, <2>3
<1>4. \A s \in DOMAIN rows' : Follows(s, rows[s].prev)'
  BY <1>3 DEF Follows
<1>5. DOMAIN rows' \subseteq Nat \ {0} /\ \E b \in Nat : \A s \in DOMAIN rows' : s <= b
  BY <1>1 DEF TableInv
<1> QED
  BY <1>3, <1>4, <1>5 DEF TableInv, WellFormed, SelfHashed, HashOf

LEMMA DamagedDraft ==
  ASSUME TableInv, DraftInv, Damage
  PROVE  DraftInv'
<1> SUFFICES ASSUME NEW c \in Calls, call'[c].pc = "staged"
             PROVE  /\ draft'[c].seq \in Nat \ {0} /\ \A s \in DOMAIN rows' : s < draft'[c].seq
                    /\ draft'[c].row.event = c
                    /\ WellFormed(draft'[c].row) /\ SelfHashed(draft'[c].seq, draft'[c].row)
                    /\ \A q, p : q = draft'[c].seq /\ p = draft'[c].row.prev => Follows(q, p)'
  BY DEF DraftInv, WellFormed, SelfHashed, HashOf, Follows
<1>1. call[c].pc = "staged" /\ UNCHANGED draft
  BY DEF Damage, Lose, Rewrite
<1>2. /\ draft[c].seq \in Nat \ {0} /\ \A s \in DOMAIN rows : s < draft[c].seq
      /\ draft[c].row.event = c
      /\ WellFormed(draft[c].row) /\ SelfHashed(draft[c].seq, draft[c].row)
      /\ Follows(draft[c].seq, draft[c].row.prev)
  BY <1>1 DEF DraftInv
<1>3. PICK q, p : q = draft[c].seq /\ p = draft[c].row.prev
  OBVIOUS
<1>4. Follows(q, p)'
  BY <1>2, <1>3, DamagedFollows
<1> QED
  BY <1>1, <1>2, <1>3, <1>4, DamagedRows

-----------------------------------------------------------------------------
(* The reader *)

(* Nothing the reader or the alarm says changes while the tables stand still. *)
LEMMA TablesStay ==
  ASSUME UNCHANGED <<rows, anchor, committed>>
  PROVE  /\ TipSeq' = TipSeq /\ TipHash' = TipHash
         /\ Complete' = Complete /\ Anchored' = Anchored /\ Damaged' = Damaged
         /\ WalkFrom' = WalkFrom
         /\ \A s : LinkAt(s)' = LinkAt(s) /\ Linked(s)' = Linked(s)
<1>1. TipSeq' = TipSeq /\ TipHash' = TipHash
  BY TipStays
<1>2. Complete' = Complete /\ Anchored' = Anchored /\ WalkFrom' = WalkFrom
  BY <1>1 DEF Complete, Anchored, WalkFrom
<1>3. Damaged' = Damaged
  BY DEF Damaged, Intact
<1>4. \A s : LinkAt(s)' = LinkAt(s) /\ Linked(s)' = Linked(s)
  BY DEF LinkAt, Linked, HashOf
<1> QED
  BY <1>1, <1>2, <1>3, <1>4

(* While the verification can call the tables undisturbed, writers left them alone. *)
LEMMA QuietStep ==
  ASSUME DraftInv, ChainStep, quiet'
  PROVE  quiet /\ UNCHANGED <<rows, anchor, committed, check, flaky>>
<1>1. quiet /\ UNCHANGED <<rows, check, flaky>> /\ UNCHANGED committed
  BY DEF ChainStep
<1>2. ASSUME NEW c \in Calls, Land(c) PROVE FALSE
  BY <1>1, <1>2 DEF Land
<1> QED
  BY <1>1, <1>2, ChainStepCases

LEMMA CheckTyped ==
  ASSUME CheckOK, VerifyNext
  PROVE  CheckOK'
<1> USE DEF CheckOK
<1>0. DOMAIN IdleCheck = {"pc", "total", "tip", "next", "prev", "verdict"}
  BY DEF IdleCheck
<1>1. \A v : DOMAIN Verdict(v) = DOMAIN IdleCheck /\ Verdict(v).pc = "done"
  BY <1>0 DEF Verdict
<1>2. CASE VerifyStart
  <2>1. flaky' \in Nat
    BY <1>2 DEF VerifyStart
  <2>2. \A n : /\ DOMAIN [IdleCheck EXCEPT !.pc = "counted", !.total = n] = DOMAIN IdleCheck
              /\ [IdleCheck EXCEPT !.pc = "counted", !.total = n].pc = "counted"
    BY <1>0
  <2>3. /\ DOMAIN [IdleCheck EXCEPT !.pc = "counted"] = DOMAIN IdleCheck
        /\ [IdleCheck EXCEPT !.pc = "counted"].pc = "counted"
    BY <1>0
  <2>4. \/ check' = Verdict("degraded")
        \/ \E n : check' = [IdleCheck EXCEPT !.pc = "counted", !.total = n]
        \/ check' = [IdleCheck EXCEPT !.pc = "counted"]
    BY <1>2 DEF VerifyStart
  <2> QED
    BY <1>0, <1>1, <2>1, <2>2, <2>3, <2>4
<1>3. CASE VerifyTip
  <2>1. flaky' \in Nat
    BY <1>3 DEF VerifyTip, Swallow
  <2>2. \/ \E m : check' = [check EXCEPT !.pc = "tipped", !.tip = m]
        \/ check' = [check EXCEPT !.pc = "tipped"]
    BY <1>3 DEF VerifyTip
  <2> QED
    BY <2>1, <2>2
<1>4. CASE VerifyAnchor
  <2>1. flaky' \in Nat
    BY <1>4 DEF VerifyAnchor, Swallow
  <2>2. \E mark : check' = AfterAnchor(mark)
    BY <1>4 DEF VerifyAnchor
  <2> QED
    BY <1>0, <1>1, <2>1, <2>2 DEF AfterAnchor
<1>5. CASE VerifySuffix
  BY <1>5 DEF VerifySuffix
<1>6. CASE VerifyPage
  BY <1>0, <1>1, <1>6 DEF VerifyPage
<1>7. CASE VerifyUnreadable
  BY <1>0, <1>1, <1>7 DEF VerifyUnreadable
<1> QED
  BY <1>2, <1>3, <1>4, <1>5, <1>6, <1>7 DEF VerifyNext

LEMMA VerdictIs ==
  ASSUME NEW v
  PROVE  Verdict(v).pc = "done" /\ Verdict(v).verdict = v
BY DEF Verdict, IdleCheck

(* What the reader must see for an answer to be right. *)
Attested(c) ==
  /\ c.verdict = "intact" => Complete /\ Anchored /\ Walked(TipSeq)
  /\ c.verdict = "empty" => DOMAIN rows = {} /\ anchor = NoMark
  /\ c.verdict \in {"missing", "mismatch", "gaps", "broken"} => Damaged

(* An answer given while the tables stand still is right if it is attested. *)
LEMMA Answered ==
  ASSUME UNCHANGED <<rows, anchor, committed>>, check'.pc = "done",
         quiet' /\ flaky' = 0 => Attested(check')
  PROVE  ReaderInv' /\ AlarmIsReal'
<1>1. check'.pc \notin {"counted", "tipped", "suffix", "walk"}
  OBVIOUS
<1>2. /\ TipSeq' = TipSeq /\ Complete' = Complete /\ Anchored' = Anchored /\ Damaged' = Damaged
      /\ WalkFrom' = WalkFrom /\ \A s : Linked(s)' = Linked(s)
  BY TablesStay
<1>3. (Walked(TipSeq))' <=> Walked(TipSeq)
  BY <1>2 DEF Walked
<1>4. AlarmIsReal'
  BY <1>2 DEF Attested, AlarmIsReal, Undisturbed
<1>5. ReaderInv'
  BY <1>1, <1>2, <1>3 DEF Attested, ReaderInv
<1> QED
  BY <1>4, <1>5

(* A verification still under way has raised no alarm. *)
LEMMA UnderWay ==
  ASSUME check'.pc # "done"
  PROVE  AlarmIsReal'
BY DEF AlarmIsReal, Undisturbed

LEMMA StartReads ==
  ASSUME VerifyStart
  PROVE  ReaderInv' /\ AlarmIsReal'
<1>1. UNCHANGED <<rows, anchor, committed>>
  BY DEF VerifyStart, vars
<1>2. CASE check' = Verdict("degraded")
  BY <1>1, <1>2, VerdictIs, Answered DEF Attested
<1>3. CASE check' = [IdleCheck EXCEPT !.pc = "counted", !.total = Cardinality(DOMAIN rows)]
  <2>1. /\ check'.pc = "counted" /\ check'.total = Cardinality(DOMAIN rows')
        /\ check'.next = 1 /\ check'.prev = Genesis
    BY <1>1, <1>3 DEF IdleCheck
  <2> QED
    BY <2>1, UnderWay DEF ReaderInv, Genesis
<1>4. CASE check' = [IdleCheck EXCEPT !.pc = "counted"] /\ flaky' = 1
  <2>1. check'.pc = "counted" /\ flaky' # 0
    BY <1>4 DEF IdleCheck
  <2> QED
    BY <2>1, UnderWay DEF ReaderInv
<1> QED
  BY <1>2, <1>3, <1>4 DEF VerifyStart

LEMMA TipReads ==
  ASSUME CheckOK, ReaderInv, VerifyTip
  PROVE  ReaderInv' /\ AlarmIsReal'
<1>1. UNCHANGED <<rows, anchor, committed>> /\ UNCHANGED quiet /\ check.pc = "counted"
  BY DEF VerifyTip, vars
<1>2. check'.pc = "tipped"
  BY DEF VerifyTip, CheckOK
<1>3. CASE flaky' = flaky /\ check' = [check EXCEPT !.pc = "tipped",
             !.tip = IF TipSeq = 0 THEN NoMark ELSE [seq |-> TipSeq, hash |-> TipHash]]
  <2>1. /\ check'.total = check.total /\ check'.next = check.next /\ check'.prev = check.prev
        /\ check'.tip = IF TipSeq = 0 THEN NoMark ELSE [seq |-> TipSeq, hash |-> TipHash]
    BY <1>3 DEF CheckOK
  <2>2. TipSeq' = TipSeq /\ TipHash' = TipHash
    BY <1>1, TablesStay
  <2> QED
    BY <1>1, <1>2, <1>3, <2>1, <2>2, UnderWay DEF ReaderInv, NoMark, Genesis
<1>4. CASE Swallow
  <2>1. flaky' # 0
    BY <1>4 DEF Swallow, CheckOK
  <2> QED
    BY <1>2, <2>1, UnderWay DEF ReaderInv
<1> QED
  BY <1>3, <1>4 DEF VerifyTip

(* The count, the tip and the anchor: verify's early answers are right, and what
   passes them is gapless and reaches the anchor. *)
LEMMA AnchorReads ==
  ASSUME CheckOK, TableInv, HistoryInv, ReaderInv, VerifyAnchor
  PROVE  ReaderInv' /\ AlarmIsReal'
<1>1. UNCHANGED <<rows, anchor, committed>> /\ UNCHANGED quiet /\ check.pc = "tipped"
  BY DEF VerifyAnchor, vars
<1>2. PICK mark : check' = AfterAnchor(mark) /\ (flaky' = 0 => mark = anchor /\ flaky = 0)
  BY DEF VerifyAnchor, Swallow, CheckOK
<1> DEFINE next == [check EXCEPT !.pc = IF check.tip.seq > MaxVerify THEN "suffix" ELSE "walk"]
<1>3. \/ \E v : check' = Verdict(v)
      \/ check' = next
  BY <1>2 DEF AfterAnchor
<1>4. /\ next.pc = IF check.tip.seq > MaxVerify THEN "suffix" ELSE "walk"
      /\ next.tip = check.tip /\ next.next = check.next /\ next.prev = check.prev
  BY DEF CheckOK
<1>5. ASSUME quiet' /\ flaky' = 0
      PROVE  /\ mark = anchor /\ check.total = Cardinality(DOMAIN rows)
             /\ check.next = 1 /\ check.prev = Genesis
             /\ check.tip = IF TipSeq = 0 THEN NoMark ELSE [seq |-> TipSeq, hash |-> TipHash]
             /\ check.tip.seq = TipSeq
  <2>1. /\ mark = anchor /\ check.total = Cardinality(DOMAIN rows)
        /\ check.next = 1 /\ check.prev = Genesis
        /\ check.tip = IF TipSeq = 0 THEN NoMark ELSE [seq |-> TipSeq, hash |-> TipHash]
    BY <1>1, <1>2, <1>5 DEF ReaderInv
  <2> QED
    BY <2>1 DEF NoMark
<1>6. anchor # NoMark => anchor.seq \in Nat \ {0}
  <2> SUFFICES ASSUME anchor # NoMark PROVE anchor.seq \in Nat \ {0}
    OBVIOUS
  <2>1. committed # <<>> /\ anchor = [seq |-> Latest.seq, hash |-> Latest.row.hash]
    BY DEF HistoryInv
  <2>2. Latest.seq \in Nat \ {0}
    BY <2>1, LastCommit DEF Latest, HistoryInv
  <2> QED
    BY <2>1, <2>2
<1>7. TipSeq \in Nat
  BY TipOf
<1>8. ASSUME NEW v, check' = Verdict(v) PROVE ReaderInv' /\ AlarmIsReal'
  <2>1. check'.pc = "done" /\ check'.verdict = v
    BY <1>8, VerdictIs
  <2>2. ASSUME quiet' /\ flaky' = 0 PROVE Attested(check')
    <3>1. \/ mark # NoMark /\ check.tip.seq < mark.seq /\ v = "missing"
          \/ mark # NoMark /\ check.tip.seq = mark.seq /\ check.tip.hash # mark.hash /\ v = "mismatch"
          \/ mark = NoMark /\ check.total = 0 /\ v = "empty"
          \/ Gaps /\ v = "gaps"
      <4>1. check'.pc = "done" /\ check'.verdict = v /\ next.pc # "done"
        BY <1>4, <2>1
      <4> QED
        BY <1>2, <4>1, VerdictIs DEF AfterAnchor
    <3>2. ~Damaged => Complete /\ Anchored
      BY UndamagedChain
    <3>3. CASE anchor # NoMark /\ TipSeq < anchor.seq /\ v = "missing"
      BY <1>6, <1>7, <2>1, <3>2, <3>3 DEF Attested, Anchored
    <3>4. CASE anchor # NoMark /\ TipSeq = anchor.seq /\ TipHash # anchor.hash /\ v = "mismatch"
      BY <2>1, <3>2, <3>4 DEF Attested, Anchored
    <3>5. CASE anchor = NoMark /\ Cardinality(DOMAIN rows) = 0 /\ v = "empty"
      <4>1. IsFiniteSet(1..TipSeq) /\ DOMAIN rows \subseteq 1..TipSeq
        BY <1>7, TipOf, FS_Interval
      <4>2. DOMAIN rows = {}
        BY <3>5, <4>1, FS_Subset, FS_EmptySet
      <4> QED
        BY <2>1, <3>5, <4>2 DEF Attested
    <3>6. CASE Cardinality(DOMAIN rows) # TipSeq /\ v = "gaps"
      BY <2>1, <3>2, <3>6, CountedIsComplete DEF Attested
    <3>7. mark = anchor /\ check.total = Cardinality(DOMAIN rows) /\ check.tip.seq = TipSeq
      BY <1>5, <2>2
    <3>8. anchor # NoMark /\ TipSeq = anchor.seq => check.tip.hash = TipHash
      BY <1>5, <1>6, <2>2
    <3> QED
      BY <3>1, <3>3, <3>4, <3>5, <3>6, <3>7, <3>8 DEF Gaps
  <2> QED
    BY <1>1, <2>1, <2>2, Answered
<1>9. CASE check' = next
  <2>1. check'.pc \in {"suffix", "walk"}
    BY <1>4, <1>9
  <2>2. ASSUME quiet' /\ flaky' = 0
        PROVE  /\ check'.tip.seq = TipSeq /\ check'.next = 1 /\ check'.prev = Genesis
               /\ check'.pc = IF TipSeq > MaxVerify THEN "suffix" ELSE "walk"
               /\ Complete /\ Anchored
    <3>1. /\ check'.tip.seq = TipSeq /\ check'.next = 1 /\ check'.prev = Genesis
          /\ check'.pc = IF TipSeq > MaxVerify THEN "suffix" ELSE "walk"
      BY <1>4, <1>5, <1>9, <2>2
    <3>2. /\ ~(mark # NoMark /\ check.tip.seq < mark.seq)
          /\ ~(mark # NoMark /\ check.tip.seq = mark.seq /\ check.tip.hash # mark.hash)
          /\ ~Gaps
      BY <1>2, <2>1, VerdictIs DEF AfterAnchor
    <3>3. Complete
      BY <1>5, <2>2, <3>2, CountedIsComplete DEF Gaps
    <3>4. Anchored
      BY <1>5, <1>6, <1>7, <2>2, <3>2 DEF Anchored
    <3> QED
      BY <3>1, <3>3, <3>4
  <2>3. TipSeq > MaxVerify \/ WalkFrom = 1
    BY DEF WalkFrom
  <2>4. /\ TipSeq' = TipSeq /\ Complete' = Complete /\ Anchored' = Anchored
        /\ WalkFrom' = WalkFrom
    BY <1>1, TablesStay
  <2>5. (Walked(0))' /\ LinkAt(1)' = Genesis
    <3>1. WalkFrom \in Nat \ {0}
      BY <1>7, VerifyAssumption DEF WalkFrom
    <3> QED
      BY <2>4, <3>1 DEF Walked, LinkAt, Genesis
  <2>6. ReaderInv'
    <3> SUFFICES ASSUME quiet' /\ flaky' = 0
                 PROVE  /\ check'.tip.seq = TipSeq' /\ Complete' /\ Anchored'
                        /\ check'.pc = "suffix" => TipSeq' > MaxVerify
                        /\ check'.pc = "walk" =>
                             /\ check'.next \in (WalkFrom')..(TipSeq' + 1)
                             /\ check'.prev = LinkAt(check.next)' /\ Walked(check.next - 1)'
      BY <2>1 DEF ReaderInv
    <3>1. check'.pc = "suffix" => TipSeq > MaxVerify
      BY <2>2
    <3>2. check'.pc = "walk" => check'.next = 1 /\ check'.prev = Genesis /\ WalkFrom = 1
      BY <2>2, <2>3
    <3>3. check'.pc = "walk" => check'.next - 1 = 0
      BY <3>2
    <3> QED
      BY <1>7, <2>2, <2>4, <2>5, <3>1, <3>2, <3>3 DEF Walked, LinkAt
  <2> QED
    BY <2>1, <2>6, UnderWay
<1> QED
  BY <1>3, <1>8, <1>9

(* The walk over a long trail starts from the row below the bound. *)
LEMMA SuffixReads ==
  ASSUME CheckOK, TableInv, ReaderInv, VerifySuffix
  PROVE  ReaderInv' /\ AlarmIsReal'
<1>1. UNCHANGED <<rows, anchor, committed>> /\ UNCHANGED <<quiet, flaky>> /\ check.pc = "suffix"
  BY DEF VerifySuffix, vars
<1>2. check'.pc = "walk" /\ check'.tip = check.tip
  BY DEF VerifySuffix, CheckOK
<1>3. ReaderInv'
  <2> SUFFICES ASSUME quiet' /\ flaky' = 0
               PROVE  /\ check'.tip.seq = TipSeq' /\ Complete' /\ Anchored'
                      /\ check'.next \in (WalkFrom')..(TipSeq' + 1)
                      /\ check'.prev = LinkAt(check.next)' /\ Walked(check.next - 1)'
    BY <1>2 DEF ReaderInv
  <2> DEFINE before == TipSeq - MaxVerify
  <2>1. check.tip.seq = TipSeq /\ Complete /\ Anchored /\ TipSeq > MaxVerify
    BY <1>1 DEF ReaderInv
  <2>2. /\ TipSeq \in Nat /\ MaxVerify \in Nat \ {0}
        /\ before \in 1..TipSeq /\ before + 1 = WalkFrom /\ before \in DOMAIN rows
    BY <2>1, TipOf, VerifyAssumption DEF WalkFrom, Complete
  <2>3. check' = [check EXCEPT !.pc = "walk", !.next = SuffixStart(before), !.prev = rows[before].hash]
    BY <2>1, <2>2 DEF VerifySuffix
  <2>4. check'.next = WalkFrom /\ check'.prev = rows[before].hash
    BY <2>2, <2>3 DEF SuffixStart, CheckOK
  <2>5. LinkAt(WalkFrom) = rows[before].hash
    <3>1. WalkFrom # 1 /\ WalkFrom - 1 = before
      BY <2>2
    <3> QED
      BY <3>1 DEF LinkAt
  <2>6. /\ TipSeq' = TipSeq /\ Complete' = Complete /\ Anchored' = Anchored
        /\ WalkFrom' = WalkFrom /\ \A s : LinkAt(s)' = LinkAt(s)
    BY <1>1, TablesStay
  <2>7. check'.tip.seq = TipSeq' /\ Complete' /\ Anchored'
    BY <1>2, <2>1, <2>6
  <2>8. check'.next \in (WalkFrom')..(TipSeq' + 1)
    BY <2>2, <2>4, <2>6
  <2>9. Walked(check.next - 1)'
    BY <2>2, <2>4, <2>6 DEF Walked
  <2>10. check'.prev = LinkAt(check.next)'
    BY <2>4, <2>5, <2>6 DEF LinkAt
  <2> QED
    BY <2>7, <2>8, <2>9, <2>10
<1> QED
  BY <1>2, <1>3, UnderWay

LEMMA LinkAbove ==
  \A k \in Nat : k # 0 => LinkAt(k + 1) = rows[k].hash
<1> TAKE k \in Nat
<1> HAVE k # 0
<1>1. k + 1 # 1 /\ k + 1 - 1 = k
  OBVIOUS
<1> QED
  BY <1>1 DEF LinkAt

(* One page: a page that does not fit the chain is damage, and one that does
   extends what has been walked. *)
LEMMA PageReads ==
  ASSUME CheckOK, TableInv, HistoryInv, ReaderInv, VerifyPage
  PROVE  ReaderInv' /\ AlarmIsReal'
<1>1. UNCHANGED <<rows, anchor, committed>> /\ UNCHANGED <<quiet, flaky>> /\ check.pc = "walk"
  BY DEF VerifyPage, vars
<1> DEFINE a == check.next
           last == IF TipSeq < a + Page - 1 THEN TipSeq ELSE a + Page - 1
           on == [check EXCEPT !.next = Max(PageSeqs) + 1, !.prev = rows[Max(PageSeqs)].hash]
<1>2. TipSeq \in Nat /\ WalkFrom \in Nat \ {0} /\ Page \in Nat \ {0}
  BY TipOf, VerifyAssumption DEF WalkFrom
<1>3. ASSUME quiet' /\ flaky' = 0
      PROVE  /\ check.tip.seq = TipSeq /\ Complete /\ Anchored
             /\ a \in WalkFrom..(TipSeq + 1) /\ check.prev = LinkAt(a) /\ Walked(a - 1)
             /\ PageSeqs = a..last /\ Cardinality(PageSeqs) = last - a + 1
             /\ last \in Nat /\ last <= TipSeq
  <2>1. /\ check.tip.seq = TipSeq /\ Complete /\ Anchored
        /\ a \in WalkFrom..(TipSeq + 1) /\ check.prev = LinkAt(a) /\ Walked(a - 1)
    BY <1>1, <1>3 DEF ReaderInv
  <2>2. a \in 1..(TipSeq + 1)
    BY <1>2, <2>1
  <2>3. PageSeqs = a..last /\ Cardinality(PageSeqs) = last - a + 1
    BY <2>1, <2>2, PageOf
  <2> QED
    BY <1>2, <2>1, <2>2, <2>3
<1>4. ASSUME quiet' /\ flaky' = 0, PageSound
      PROVE  Walked(last)
  <2>1. \A s \in a..last : Linked(s)
    <3> TAKE s \in a..last
    <3>1. /\ rows[s].prev = IF s = a THEN check.prev ELSE rows[s - 1].hash
          /\ rows[s].hash = HashOf(s, rows[s].id, rows[s].event, rows[s].prev)
      BY <1>3, <1>4 DEF PageSound
    <3>2. s # a => s # 1
      BY <1>2, <1>3, <1>4
    <3> QED
      BY <1>3, <1>4, <3>1, <3>2 DEF Linked, LinkAt
  <2>2. \A s \in WalkFrom..last : s \in WalkFrom..(a - 1) \/ s \in a..last
    BY <1>2, <1>3, <1>4
  <2> QED
    BY <1>3, <1>4, <2>1, <2>2 DEF Walked
<1>5. CASE ~PageSound
  <2>1. check'.pc = "done" /\ check'.verdict = "broken"
    BY <1>5, VerdictIs DEF VerifyPage
  <2>2. ASSUME quiet' /\ flaky' = 0, ~Damaged PROVE PageSound
    <3>1. \A s \in 1..TipSeq : Linked(s)
      BY <2>2, UndamagedChain
    <3>2. PageSeqs = a..(a + Cardinality(PageSeqs) - 1)
      BY <1>2, <1>3, <2>2
    <3>3. \A s \in PageSeqs : s \in 1..TipSeq /\ (s # a => s # 1)
      BY <1>2, <1>3, <2>2
    <3>4. \A s \in PageSeqs : Linked(s) /\ (s # a => s # 1)
      BY <3>1, <3>3
    <3>5. check.prev = LinkAt(a)
      BY <1>3, <2>2
    <3> QED
      BY <3>2, <3>4, <3>5 DEF PageSound, Linked, LinkAt
  <2> QED
    BY <1>1, <1>5, <2>1, <2>2, Answered DEF Attested
<1>6. CASE PageSound /\ Cardinality(PageSeqs) < Page
  <2>1. check'.pc = "done" /\ check'.verdict = "intact"
    BY <1>6, VerdictIs DEF VerifyPage
  <2>2. ASSUME quiet' /\ flaky' = 0 PROVE Complete /\ Anchored /\ Walked(TipSeq)
    <3>1. last = TipSeq
      BY <1>2, <1>3, <1>6, <2>2
    <3> QED
      BY <1>3, <1>4, <1>6, <2>2, <3>1
  <2> QED
    BY <1>1, <2>1, <2>2, Answered DEF Attested
<1>7. CASE PageSound /\ ~(Cardinality(PageSeqs) < Page)
  <2>1. check' = on
    BY <1>7 DEF VerifyPage
  <2>2. /\ check'.pc = "walk" /\ check'.tip = check.tip
        /\ check'.next = Max(PageSeqs) + 1 /\ check'.prev = rows[Max(PageSeqs)].hash
    BY <1>1, <2>1 DEF CheckOK
  <2>3. ReaderInv'
    <3> SUFFICES ASSUME quiet' /\ flaky' = 0
                 PROVE  /\ check'.tip.seq = TipSeq' /\ Complete' /\ Anchored'
                        /\ check'.next \in (WalkFrom')..(TipSeq' + 1)
                        /\ check'.prev = LinkAt(check.next)' /\ Walked(check.next - 1)'
      BY <2>2 DEF ReaderInv
    <3>1. last \in a..last /\ a \in Nat
      BY <1>2, <1>3, <1>7
    <3>2. Max(PageSeqs) = last
      <4>1. PageSeqs \subseteq Nat /\ last \in PageSeqs /\ \A s \in PageSeqs : s <= last
        BY <1>3, <3>1
      <4> HIDE DEF last
      <4> QED
        BY <4>1, MaxOf
    <3>3. check'.next = last + 1 /\ check'.prev = LinkAt(last + 1)
      <4>1. last \in Nat /\ last # 0
        BY <1>2, <1>3, <3>1
      <4> HIDE DEF last
      <4>2. LinkAt(last + 1) = rows[last].hash
        BY <4>1, LinkAbove
      <4> QED
        BY <2>2, <3>2, <4>2
    <3>4. /\ TipSeq' = TipSeq /\ Complete' = Complete /\ Anchored' = Anchored /\ WalkFrom' = WalkFrom
          /\ \A s : LinkAt(s)' = LinkAt(s) /\ Linked(s)' = Linked(s)
      BY <1>1, TablesStay
    <3>5. check'.tip.seq = TipSeq' /\ Complete' /\ Anchored'
      BY <1>3, <2>2, <3>4
    <3>6. check'.next \in (WalkFrom')..(TipSeq' + 1) /\ check'.next - 1 = last
      BY <1>2, <1>3, <3>1, <3>3, <3>4
    <3>7. Walked(check.next - 1)'
      BY <1>4, <1>7, <3>4, <3>6 DEF Walked
    <3>8. check'.prev = LinkAt(check.next)'
      BY <3>3, <3>4 DEF LinkAt
    <3> QED
      BY <3>5, <3>6, <3>7, <3>8
  <2> QED
    BY <2>2, <2>3, UnderWay
<1> QED
  BY <1>5, <1>6, <1>7

-----------------------------------------------------------------------------
(* The invariant of verification *)

LEMMA InitVerifies == VerifyInit => VerifyInv
<1> SUFFICES ASSUME VerifyInit PROVE VerifyInv
  OBVIOUS
<1>1. rows = <<>> /\ DOMAIN rows = {} /\ committed = <<>> /\ DOMAIN committed = {}
  BY DEF VerifyInit, Init
<1>2. CallsOK /\ LockInv /\ DraftInv
  BY ChainAssumption DEF VerifyInit, Init, CallsOK, LockInv, DraftInv
<1>3. TableInv
  BY <1>1 DEF TableInv
<1>4. HistoryInv
  BY <1>1, EmptySeq DEF HistoryInv, VerifyInit, Init
<1>5. check.pc = "idle" /\ CheckOK
  BY DEF VerifyInit, CheckOK, IdleCheck
<1>6. ReaderInv /\ AlarmIsReal
  BY <1>5 DEF ReaderInv, AlarmIsReal, Undisturbed
<1> QED
  BY <1>2, <1>3, <1>4, <1>5, <1>6 DEF VerifyInv

(* What the writers' side of the invariant speaks of has not changed. *)
LEMMA WritersRest ==
  ASSUME VerifyInv, UNCHANGED <<rows, anchor, lock, call, draft, degraded, committed>>
  PROVE  CallsOK' /\ LockInv' /\ TableInv' /\ DraftInv' /\ HistoryInv'
<1> USE DEF VerifyInv, WellFormed, SelfHashed, HashOf
<1>1. CallsOK' /\ LockInv'
  BY DEF CallsOK, LockInv
<1>2. TableInv'
  BY DEF TableInv, Numbered, Follows
<1>3. DraftInv'
  BY DEF DraftInv, Numbered, Follows
<1>4. HistoryInv'
  BY DEF HistoryInv, Latest
<1> QED
  BY <1>1, <1>2, <1>3, <1>4

(* What the reader has seen has not changed, or it knows that it has. *)
LEMMA ReaderRests ==
  ASSUME VerifyInv,
         quiet' => quiet /\ UNCHANGED <<rows, anchor, committed, check, flaky>>
  PROVE  ReaderInv' /\ AlarmIsReal'
<1>1. CASE quiet'
  <2>1. quiet /\ UNCHANGED <<rows, anchor, committed, check, flaky>>
    BY <1>1
  <2>2. /\ TipSeq' = TipSeq /\ TipHash' = TipHash /\ WalkFrom' = WalkFrom
        /\ Complete' = Complete /\ Anchored' = Anchored /\ Damaged' = Damaged
        /\ \A s : Linked(s)' = Linked(s)
    BY <2>1, TablesStay
  <2>3. AlarmIsReal'
    BY <1>1, <2>1, <2>2 DEF VerifyInv, AlarmIsReal, Undisturbed
  <2>4. /\ (Walked(TipSeq))' = Walked(TipSeq) /\ Walked(check.next - 1)' = Walked(check.next - 1)
        /\ LinkAt(check.next)' = LinkAt(check.next)
    BY <2>1, <2>2 DEF Walked, LinkAt
  <2>5. ReaderInv'
    BY <1>1, <2>1, <2>2, <2>4 DEF VerifyInv, ReaderInv, NoMark, Genesis
  <2> QED
    BY <2>3, <2>5
<1>2. CASE ~quiet'
  BY <1>2 DEF ReaderInv, AlarmIsReal, Undisturbed
<1> QED
  BY <1>1, <1>2

LEMMA ChainVerifies ==
  ASSUME VerifyInv, ChainStep
  PROVE  VerifyInv'
<1> USE DEF VerifyInv
<1>1. CallsOK' /\ LockInv'
  BY StepCalls DEF ChainStep
<1>2. DraftInv'
  BY StepDraft
<1>3. CheckOK'
  BY DEF ChainStep, CheckOK
<1>4. TableInv' /\ HistoryInv'
  <2>1. CASE UNCHANGED <<rows, anchor, committed>>
    BY <2>1 DEF TableInv, HistoryInv, Latest, Numbered, Follows, WellFormed, SelfHashed, HashOf
  <2>2. ASSUME NEW c \in Calls, Land(c) PROVE TableInv' /\ HistoryInv'
    BY <2>2, LandTable, LandHistory
  <2> QED
    BY <2>1, <2>2, ChainStepCases
<1>5. ReaderInv' /\ AlarmIsReal'
  BY QuietStep, ReaderRests
<1> QED
  BY <1>1, <1>2, <1>3, <1>4, <1>5

LEMMA DamageVerifies ==
  ASSUME VerifyInv, Damage
  PROVE  VerifyInv'
<1> USE DEF VerifyInv
<1>1. UNCHANGED <<anchor, lock, call, draft, degraded, committed, check, flaky>> /\ ~quiet'
  BY DEF Damage, Lose, Rewrite
<1>2. CallsOK' /\ LockInv'
  BY <1>1 DEF CallsOK, LockInv
<1>3. TableInv' /\ DraftInv'
  BY DamagedTable, DamagedDraft
<1>4. HistoryInv' /\ CheckOK'
  BY <1>1 DEF HistoryInv, Latest, CheckOK, WellFormed, SelfHashed, HashOf
<1>5. ReaderInv' /\ AlarmIsReal'
  BY <1>1, ReaderRests
<1> QED
  BY <1>2, <1>3, <1>4, <1>5

LEMMA UnreadableReads ==
  ASSUME VerifyUnreadable
  PROVE  ReaderInv' /\ AlarmIsReal'
<1>1. UNCHANGED <<rows, anchor, committed>> /\ check' = Verdict("unreadable")
  BY DEF VerifyUnreadable, vars
<1> QED
  BY <1>1, VerdictIs, Answered DEF Attested

LEMMA VerifyVerifies ==
  ASSUME VerifyInv, VerifyNext
  PROVE  VerifyInv'
<1>1. UNCHANGED <<rows, anchor, lock, call, draft, degraded, committed>>
  BY DEF VerifyNext, VerifyStart, VerifyTip, VerifyAnchor, VerifySuffix, VerifyPage,
         VerifyUnreadable, vars
<1>2. CheckOK'
  BY CheckTyped DEF VerifyInv
<1>3. ReaderInv' /\ AlarmIsReal'
  BY StartReads, TipReads, AnchorReads, SuffixReads, PageReads, UnreadableReads
     DEF VerifyInv, VerifyNext
<1> QED
  BY <1>1, <1>2, <1>3, WritersRest DEF VerifyInv

LEMMA StepVerifies == VerifyInv /\ [AllNext]_allVars => VerifyInv'
<1> SUFFICES ASSUME VerifyInv, [AllNext]_allVars PROVE VerifyInv'
  OBVIOUS
<1>1. CASE AllNext
  BY <1>1, ChainVerifies, DamageVerifies, VerifyVerifies DEF AllNext
<1>2. CASE UNCHANGED allVars
  <2>1. UNCHANGED <<rows, anchor, lock, call, draft, degraded, check, quiet, flaky, committed>>
    BY <1>2 DEF allVars, vars, readerVars
  <2>2. CheckOK' /\ ReaderInv' /\ AlarmIsReal'
    BY <2>1, ReaderRests DEF VerifyInv, CheckOK
  <2> QED
    BY <2>1, <2>2, WritersRest DEF VerifyInv
<1> QED
  BY <1>1, <1>2

THEOREM VerifyInvariance == VerifySpec => []VerifyInv
BY InitVerifies, StepVerifies, PTL DEF VerifySpec

(* An alarm of an undisturbed verify() is never false: as long as no committed row
   was removed or rewritten, however the verification and the writers interleave
   and whatever was lost and written again before, none of its four tampering
   verdicts is given. *)
THEOREM AlarmsAreReal == VerifySpec => []AlarmIsReal
BY VerifyInvariance, PTL DEF VerifyInv

-----------------------------------------------------------------------------
(* An attested trail is complete *)

(* The hash of the tip vouches for every row of the walked suffix: two linked,
   self-hashed chains that end in the same hash are the same chain. *)
LEMMA TipVouches ==
  ASSUME TableInv, HistoryInv, BuiltOnTruth, Complete, Anchored, Walked(TipSeq)
  PROVE  \A i \in DOMAIN committed :
           /\ committed[i].seq \in DOMAIN rows
           /\ committed[i].seq + MaxVerify > TipSeq => Intact(committed[i])
<1> SUFFICES ASSUME committed # <<>>
             PROVE  \A i \in DOMAIN committed :
                      /\ committed[i].seq \in DOMAIN rows
                      /\ committed[i].seq + MaxVerify > TipSeq => Intact(committed[i])
  OBVIOUS
<1> DEFINE n == Len(committed)
<1>1. /\ n \in Nat \ {0} /\ DOMAIN committed = 1..n /\ n \in DOMAIN committed
      /\ \A i \in 1..n : committed[i].seq = i
  BY LastCommit DEF BuiltOnTruth
<1>2. anchor.seq = n /\ anchor.hash = committed[n].row.hash /\ anchor # NoMark
  <2>1. anchor = [seq |-> committed[n].seq, hash |-> committed[n].row.hash]
    BY DEF HistoryInv, Latest
  <2> QED
    BY <1>1, <2>1 DEF NoMark
<1>3. TipSeq = n /\ rows[n].hash = committed[n].row.hash
  <2>1. TipSeq \in Nat /\ n <= TipSeq /\ (n = TipSeq => anchor.hash = TipHash)
    BY <1>2, TipOf DEF Anchored
  <2>2. TipSeq \in DOMAIN rows
    <3> HIDE DEF n
    <3>1. TipSeq \in 1..TipSeq
      BY <1>1, <2>1
    <3> QED
      BY <3>1 DEF Complete
  <2>3. TipSeq \in 1..n
    BY <1>1, <2>2 DEF TableInv, Numbered
  <2> HIDE DEF n
  <2>4. n \in Nat \ {0} /\ TipSeq \in Nat /\ n <= TipSeq /\ TipSeq \in 1..n
    BY <1>1, <2>1, <2>3
  <2>5. TipSeq = n
    BY <2>4
  <2> QED
    BY <1>1, <1>2, <2>1, <2>5 DEF TipHash
<1> HIDE DEF n
<1>4. /\ WalkFrom \in 1..n /\ \A i \in 1..n : i + MaxVerify > n <=> i >= WalkFrom
      /\ \A s \in WalkFrom..n : Linked(s)
  BY <1>1, <1>3, VerifyAssumption DEF WalkFrom, Walked
<1> DEFINE S == {k \in 1..n : rows[k].hash = committed[k].row.hash}
<1>5. ASSUME NEW k \in WalkFrom..n, k \in S
      PROVE  /\ rows[k].prev = committed[k].row.prev
             /\ Intact(committed[k])
  <2>1. k \in 1..n /\ k \in DOMAIN rows /\ k \in DOMAIN committed /\ committed[k].seq = k
    BY <1>1, <1>3, <1>5 DEF Complete
  <2>2. /\ rows[k].hash = <<k, rows[k].id, rows[k].event, rows[k].prev>>
        /\ WellFormed(rows[k])
    BY <1>4, <2>1 DEF Linked, HashOf, TableInv
  <2>3. /\ committed[k].row.hash = <<k, committed[k].row.id, committed[k].row.event, committed[k].row.prev>>
        /\ WellFormed(committed[k].row)
    BY <2>1 DEF HistoryInv, SelfHashed, HashOf
  <2>4. /\ rows[k].id = committed[k].row.id /\ rows[k].event = committed[k].row.event
        /\ rows[k].prev = committed[k].row.prev /\ rows[k].hash = committed[k].row.hash
    BY <1>5, <2>2, <2>3
  <2>5. rows[k] = committed[k].row
    BY <2>2, <2>3, <2>4 DEF WellFormed
  <2> QED
    BY <2>1, <2>4, <2>5 DEF Intact
<1>6. WalkFrom..n \subseteq S
  <2>1. n \in S
    BY <1>1, <1>3
  <2>2. ASSUME NEW k \in (WalkFrom + 1)..n, k \in S PROVE k - 1 \in S
    <3>1. k \in WalkFrom..n /\ k - 1 \in 1..n /\ k > 1 /\ k # 1 /\ k \in 1..n
      BY <1>1, <1>4, <2>2
    <3>2. rows[k].prev = committed[k].row.prev
      BY <1>5, <2>2, <3>1
    <3>3. rows[k].prev = rows[k - 1].hash
      BY <1>4, <3>1 DEF Linked
    <3>4. committed[k].row.prev = committed[k - 1].row.hash
      BY <1>1, <3>1 DEF BuiltOnTruth
    <3> QED
      BY <3>1, <3>2, <3>3, <3>4
  <2>3. WalkFrom \in Nat /\ n \in Nat
    BY <1>1, <1>4
  <2> HIDE DEF S
  <2> QED
    BY <2>1, <2>2, <2>3, Downward
<1> QED
  <2> TAKE i \in DOMAIN committed
  <2>1. i \in 1..n /\ committed[i].seq = i /\ i \in DOMAIN rows
    BY <1>1, <1>3 DEF Complete
  <2>2. ASSUME i + MaxVerify > TipSeq PROVE Intact(committed[i])
    <3>1. i \in WalkFrom..n
      BY <1>1, <1>3, <1>4, <2>1, <2>2
    <3> QED
      BY <1>5, <1>6, <3>1
  <2> QED
    BY <2>1, <2>2

(* verify() attests a trail only if every event ever committed is still in it, and
   those of the walked suffix are unaltered: the count, the anchor and the walk
   together leave no loss unseen, for any bound on the walk and any page size. *)
THEOREM IntactComplete == VerifySpec => []IntactIsComplete
<1>1. VerifyInv => IntactIsComplete
  <2> SUFFICES ASSUME VerifyInv, Undisturbed, check.verdict \in {"intact", "empty"}, BuiltOnTruth
               PROVE  \A i \in DOMAIN committed :
                        /\ committed[i].seq \in DOMAIN rows
                        /\ committed[i].seq + MaxVerify > TipSeq => Intact(committed[i])
    BY DEF IntactIsComplete
  <2>1. CASE check.verdict = "intact"
    <3>1. Complete /\ Anchored /\ Walked(TipSeq)
      BY <2>1 DEF VerifyInv, ReaderInv, Undisturbed
    <3> QED
      BY <3>1, TipVouches DEF VerifyInv
  <2>2. CASE check.verdict = "empty"
    <3>1. anchor = NoMark
      BY <2>2 DEF VerifyInv, ReaderInv, Undisturbed
    <3>2. committed = <<>>
      <4> SUFFICES ASSUME committed # <<>> PROVE FALSE
        OBVIOUS
      <4>1. Latest.seq \in Nat \ {0}
        BY LastCommit DEF VerifyInv, HistoryInv, Latest
      <4>2. anchor.seq = Latest.seq
        BY DEF VerifyInv, HistoryInv
      <4> QED
        BY <3>1, <4>1, <4>2 DEF NoMark
    <3> QED
      BY <3>2
  <2> QED
    BY <2>1, <2>2
<1> QED
  BY <1>1, VerifyInvariance, PTL
=============================================================================
