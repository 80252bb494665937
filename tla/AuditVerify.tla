----------------------------- MODULE AuditVerify -----------------------------
(***************************************************************************)
(* AuditService.verify against a chain that is being written: verification *)
(* takes no lock and no snapshot, so its queries (count, tip, anchor, the  *)
(* row before the suffix, then one page at a time) each see the table as   *)
(* it is at that moment.  The tip and anchor queries turn a read error     *)
(* into "no row" and the count query turns it into 0.                      *)
(*                                                                         *)
(* Rows may also be removed or rewritten behind the service's back, which  *)
(* is what verification exists to report.                                  *)
(***************************************************************************)
EXTENDS AuditChain, Sequences

CONSTANTS
  Reader,      \* the replica that answers GET /audit/verify
  MaxVerify,   \* AUDIT_VERIFY_MAX_EVENTS
  Page,        \* PAGE, rows per query
  MaxDamage,   \* bound: rows removed or rewritten from outside
  MaxFlaky     \* bound: read errors turned into an answer

ASSUME VerifyAssumption ==
  /\ Reader \in Replicas
  /\ MaxVerify \in Nat \ {0} /\ Page \in Nat \ {0}
  /\ MaxDamage \in Nat /\ MaxFlaky \in Nat

VARIABLES
  check,       \* the running or last verification
  committed,   \* history: every [seq, row] ever committed, in that order
  damage,      \* history: rows touched from outside
  quiet,       \* history: nothing changed since the verification began
  flaky        \* history: read errors swallowed by this verification

readerVars == <<check, quiet, flaky>>
allVars == <<vars, readerVars, committed, damage>>

IdleCheck == [pc |-> "idle", total |-> 0, tip |-> NoMark, next |-> 1,
              prev |-> Genesis, verdict |-> "none"]
Verdict(v) == [IdleCheck EXCEPT !.pc = "done", !.verdict = v]

VerifyInit ==
  /\ Init
  /\ check = IdleCheck /\ quiet = TRUE /\ flaky = 0
  /\ committed = <<>> /\ damage = 0

-----------------------------------------------------------------------------
(* Verification *)

Swallow == flaky < MaxFlaky /\ flaky' = flaky + 1

VerifyStart ==
  /\ check.pc \in {"idle", "done"}
  /\ quiet' = TRUE
  /\ \/ /\ Reader \in degraded
        /\ check' = Verdict("degraded") /\ flaky' = 0
     \/ /\ Reader \notin degraded
        /\ \/ check' = [IdleCheck EXCEPT !.pc = "counted", !.total = Cardinality(DOMAIN rows)]
              /\ flaky' = 0
           \/ check' = [IdleCheck EXCEPT !.pc = "counted"]
              /\ MaxFlaky > 0 /\ flaky' = 1
  /\ UNCHANGED <<vars, committed, damage>>

VerifyTip ==
  /\ check.pc = "counted"
  /\ \/ check' = [check EXCEPT !.pc = "tipped",
                    !.tip = IF TipSeq = 0 THEN NoMark ELSE [seq |-> TipSeq, hash |-> TipHash]]
        /\ UNCHANGED flaky
     \/ check' = [check EXCEPT !.pc = "tipped"] /\ Swallow
  /\ UNCHANGED <<vars, quiet, committed, damage>>

(* A row below the highest number is missing. *)
GapsUnchecked == FALSE
Gaps == check.total # check.tip.seq

(* What verify answers once it holds the count, the tip and the anchor. *)
AfterAnchor(mark) ==
  IF mark # NoMark /\ check.tip.seq < mark.seq THEN Verdict("missing")
  ELSE IF mark # NoMark /\ check.tip.seq = mark.seq /\ check.tip.hash # mark.hash THEN Verdict("mismatch")
  ELSE IF mark = NoMark /\ check.total = 0 THEN Verdict("empty")
  ELSE IF Gaps THEN Verdict("gaps")
  ELSE [check EXCEPT !.pc = IF check.tip.seq > MaxVerify THEN "suffix" ELSE "walk"]

VerifyAnchor ==
  /\ check.pc = "tipped"
  /\ \/ check' = AfterAnchor(anchor) /\ UNCHANGED flaky
     \/ check' = AfterAnchor(NoMark) /\ Swallow
  /\ UNCHANGED <<vars, quiet, committed, damage>>

SuffixRepeatsRow(before) == before
SuffixStart(before) == before + 1

(* Only the last MaxVerify rows are walked, from the hash of the row before. *)
VerifySuffix ==
  LET before == check.tip.seq - MaxVerify IN
  /\ check.pc = "suffix"
  /\ check' = IF before \in DOMAIN rows
              THEN [check EXCEPT !.pc = "walk", !.next = SuffixStart(before), !.prev = rows[before].hash]
              ELSE [check EXCEPT !.pc = "walk"]
  /\ UNCHANGED <<vars, quiet, flaky, committed, damage>>

PageSeqs ==
  {s \in DOMAIN rows : s >= check.next /\
     Cardinality({t \in DOMAIN rows : check.next <= t /\ t <= s}) <= Page}

PageSound ==
  /\ PageSeqs = check.next..(check.next + Cardinality(PageSeqs) - 1)
  /\ \A s \in PageSeqs :
       /\ rows[s].prev = IF s = check.next THEN check.prev ELSE rows[s - 1].hash
       /\ rows[s].hash = HashOf(s, rows[s].id, rows[s].event, rows[s].prev)

VerifyPage ==
  /\ check.pc = "walk"
  /\ check' =
       IF ~PageSound THEN Verdict("broken")
       ELSE IF Cardinality(PageSeqs) < Page THEN Verdict("intact")
       ELSE [check EXCEPT !.next = Max(PageSeqs) + 1, !.prev = rows[Max(PageSeqs)].hash]
  /\ UNCHANGED <<vars, quiet, flaky, committed, damage>>

(* A failing page query is reported, a failing suffix query is thrown. *)
VerifyUnreadable ==
  /\ check.pc \in {"suffix", "walk"}
  /\ check' = Verdict("unreadable")
  /\ UNCHANGED <<vars, quiet, flaky, committed, damage>>

VerifyNext ==
  VerifyStart \/ VerifyTip \/ VerifyAnchor \/ VerifySuffix \/ VerifyPage \/ VerifyUnreadable

-----------------------------------------------------------------------------
(* The writers, and what happens to the table from outside *)

ChainStep ==
  /\ Next
  /\ IF rows' = rows THEN UNCHANGED committed
     ELSE \E s \in DOMAIN rows' \ DOMAIN rows :
            committed' = Append(committed, [seq |-> s, row |-> rows'[s]])
  /\ quiet' = (quiet /\ rows' = rows /\ degraded' = degraded)
  /\ UNCHANGED <<check, flaky, damage>>

Lose(s) ==
  /\ rows' = [t \in DOMAIN rows \ {s} |-> rows[t]]
  /\ UNCHANGED <<anchor, lock, call, draft, degraded>>

(* The content is rewritten, and perhaps its own hash made to fit. *)
Rewrite(s, rehash) ==
  /\ rows' = [rows EXCEPT ![s].event = None,
                          ![s].hash = IF rehash THEN HashOf(s, rows[s].id, None, rows[s].prev) ELSE @]
  /\ UNCHANGED <<anchor, lock, call, draft, degraded>>

Damage ==
  /\ damage < MaxDamage
  /\ \E s \in DOMAIN rows : Lose(s) \/ \E rehash \in BOOLEAN : Rewrite(s, rehash)
  /\ damage' = damage + 1
  /\ quiet' = FALSE
  /\ UNCHANGED <<check, flaky, committed>>

AllNext == ChainStep \/ VerifyNext \/ Damage

VerifySpec == VerifyInit /\ [][AllNext]_allVars

-----------------------------------------------------------------------------
(* Properties *)

Intact(x) == x.seq \in DOMAIN rows /\ rows[x.seq] = x.row

Damaged == \E i \in DOMAIN committed : ~Intact(committed[i])

(* No commit was built on a tip that had itself been removed or rewritten: the
   i-th of them got the number i and was linked to the one before. *)
BuiltOnTruth ==
  \A i \in DOMAIN committed :
    /\ committed[i].seq = i
    /\ i > 1 => committed[i].row.prev = committed[i - 1].row.hash

Undisturbed == check.pc = "done" /\ quiet /\ flaky = 0

(* An attested trail is complete: if nothing moved under the verification and no
   query failed, "intact" means that every event ever committed is still there,
   those of the walked suffix unaltered - even when the walk is bounded and the
   loss lies below it (the count against the highest seq). *)
IntactIsComplete ==
  Undisturbed /\ check.verdict \in {"intact", "empty"} /\ BuiltOnTruth =>
    \A i \in DOMAIN committed :
      /\ committed[i].seq \in DOMAIN rows
      /\ committed[i].seq + MaxVerify > TipSeq => Intact(committed[i])

(* And an undisturbed verification that reports tampering is right. *)
AlarmIsReal ==
  Undisturbed /\ check.verdict \in {"missing", "mismatch", "gaps", "broken"} => Damaged
=============================================================================
