---------------------------- MODULE Negotiation ----------------------------
(***************************************************************************)
(* Negotiating ONE agreement with invited guests: NegotiationService, with *)
(* the operations of AgreementsService, IngestionService and               *)
(* WorkflowService that create documents or move the stage meanwhile.      *)
(*                                                                         *)
(* Every transaction under the Contract row lock is one action.  invite,   *)
(* share and agreed wait for the AI review, and respond for the scanner,   *)
(* before their transaction: what they read first waits in `prep' and      *)
(* `reply'.  A lawyer's request carries the lifecycle revision it was made *)
(* at.  Once the revision moves, such a request can only be refused: the   *)
(* model forgets it with the increment (Bump), so a request that still is  *)
(* in `prep' is one whose revision check succeeds.                         *)
(*                                                                         *)
(* Documents are numbered in creation order and each records a contract    *)
(* version, so a document number stands for the version too.  Whether a    *)
(* guest holds a session is the business of GuestAccess: here anybody with *)
(* active access may have one.                                             *)
(*                                                                         *)
(* invite, share and Legal's replies also write a GuestDelivery row per    *)
(* guest concerned, in the same transaction.  The row waits for the mail   *)
(* worker and decides nothing here, nor does what becomes of it: it is     *)
(* given up, for one, when the invitation has run out by the time it is to *)
(* be posted (Outdated of ClaimedWork), and access then revives the guest  *)
(* without another mail.                                                   *)
(***************************************************************************)
EXTENDS Naturals, Sequences, FiniteSets

CONSTANTS
  Guests,       \* invitations, each with its client-chosen identifier
  Lawyers,      \* concurrent requests of the legal team
  Comments,     \* identifiers of comments and of questions to the client
  Legal,        \* the author of Legal's documents
  MaxDocs       \* bound: no document is saved once there are this many

ASSUME NegotiationAssumption == Legal \notin Guests /\ MaxDocs \in Nat

VARIABLES
  stage, needsNew, agreedDoc, progress, routed,   \* Contract and its ApprovalRouting
  docs, clean,                                    \* Document, AgreementDraft
  rounds, inv, responses, comments,               \* NegotiationRound, GuestInvitation, ...
  prep, reply                                     \* requests in flight

contractVars == <<stage, needsNew, agreedDoc, progress, routed>>
docVars == <<docs, clean>>
roomVars == <<rounds, inv, responses, comments>>
vars == <<contractVars, docVars, roomVars, prep, reply>>

Stages == {"drafting", "review", "negotiation", "agreed", "signature"}
Progress == {"none", "with-counterparty", "legal-review", "changes-received",
             "ready-to-share", "agreed-pending", "complete"}
Authors == Guests \cup {Legal}
Grants == {"respond", "read"}           \* with or without allowRedline/allowUpload
Invitation == [access: Grants \cup {"none", "expired", "revoked"}, round: Nat, accepted: Nat]
Response == [guest: Guests, round: Nat, doc: Nat, base: Nat,
             state: {"received", "reviewed"}, answer: Nat]
NoInvitation == [access |-> "none", round |-> 0, accepted |-> 0]
NoReply == [doc |-> 0, base |-> 0]

Latest == Len(docs)
Active == {g \in Guests : inv[g].access \in Grants}
MayRespond(g) == inv[g].access = "respond"
Open(rs) == {r \in rs : r.state = "received"}

Init ==
  /\ stage = "drafting" /\ needsNew = FALSE /\ agreedDoc = 0
  /\ progress = "none" /\ routed = FALSE
  /\ docs = <<>> /\ clean = FALSE
  /\ rounds = <<>> /\ inv = [g \in Guests |-> NoInvitation]
  /\ responses = {} /\ comments = [c \in Comments |-> "none"]
  /\ prep = [l \in Lawyers |-> 0]
  /\ reply = [g \in Guests |-> NoReply]

(* lifecycleRevision: { increment: 1 }, against the check in `legal'. *)
Bump == prep' = [l \in Lawyers |-> 0]

-----------------------------------------------------------------------------
(* Legal's own work on the document *)

(* recordVersion: the new document is the current version. *)
Record(by) ==
  /\ Latest < MaxDocs
  /\ docs' = Append(docs, by)
  /\ needsNew' = FALSE

(* `clean': the draft row is a copy of the newest document that may be shared; a
   save that keeps Word's internals is not one. *)
SaveDraft(share) ==
  /\ stage \in {"drafting", "review", "negotiation"} /\ ~routed
  /\ Record(Legal)
  /\ clean' = share
  /\ progress' = IF stage = "negotiation" THEN "legal-review" ELSE progress
  /\ Bump
  /\ UNCHANGED <<stage, agreedDoc, routed, roomVars, reply>>

(* An upload becomes the newest document and leaves the draft behind. *)
Upload ==
  /\ stage # "agreed" /\ ~routed
  /\ Record(Legal)
  /\ clean' = FALSE
  /\ Bump
  /\ UNCHANGED <<stage, agreedDoc, progress, routed, roomVars, reply>>

Transition(to) ==
  /\ stage \in {"drafting", "review"} /\ ~routed
  /\ to = "review" => ~needsNew /\ Latest # 0
  /\ stage' = to
  /\ Bump
  /\ UNCHANGED <<needsNew, agreedDoc, progress, routed, docVars, roomVars, reply>>

(* routeInApp and its panel's decision, step by step in AgreementLifecycle. *)
Approval(outcome) ==
  /\ stage \in {"review", "agreed"} /\ ~needsNew /\ ~routed /\ Latest # 0
  /\ agreedDoc # 0 => agreedDoc = Latest
  /\ stage' = outcome /\ routed' = TRUE
  /\ Bump
  /\ UNCHANGED <<needsNew, agreedDoc, progress, docVars, roomVars, reply>>

(* revise clears the agreed form and the round of approval, nothing of the room. *)
Revise ==
  /\ stage = "agreed" \/ routed
  /\ stage' = "drafting" /\ needsNew' = TRUE /\ agreedDoc' = 0 /\ routed' = FALSE
  /\ Bump
  /\ UNCHANGED <<progress, docVars, roomVars, reply>>

-----------------------------------------------------------------------------
(* Sharing: invite, share and agreed read, wait for the review, and commit *)

(* The client has the current workspace before it and its revision is checked;
   the AI review of that document is awaited.  A review of an older document
   cannot be taken for it: the commit looks at both again. *)
Begin(l) ==
  /\ prep[l] = 0 /\ Latest # 0
  /\ prep' = [prep EXCEPT ![l] = Latest]
  /\ UNCHANGED <<contractVars, docVars, roomVars, reply>>

Abort(l) ==
  /\ prep[l] # 0
  /\ prep' = [prep EXCEPT ![l] = 0]
  /\ UNCHANGED <<contractVars, docVars, roomVars, reply>>

(* The request's revision, document and review are those of now. *)
Current(l) == prep[l] # 0 /\ prep[l] = Latest

NothingOpenIsAssumed == TRUE
NothingOpen == Open(responses) = {}

CleanCopy == clean

(* currentRound's refusals. *)
Shareable ==
  /\ stage \in {"review", "negotiation"} /\ ~needsNew /\ ~routed
  /\ CleanCopy
  /\ NothingOpen

(* The round of the newest document: found, or created with the next number. *)
RoundsWith(d) == IF \E n \in DOMAIN rounds : rounds[n] = d THEN rounds ELSE Append(rounds, d)
RoundOf(d) == CHOOSE n \in DOMAIN RoundsWith(d) : RoundsWith(d)[n] = d

Shared(l) ==
  /\ rounds' = RoundsWith(Latest)
  /\ stage' = "negotiation" /\ progress' = "with-counterparty"
  /\ Bump
  /\ UNCHANGED <<needsNew, agreedDoc, routed, docVars, responses, comments, reply>>

Invite(l, g, grant) ==
  /\ Current(l)
  /\ inv[g].access = "none"                    \* else the saved invitation is returned
  /\ Shareable
  /\ inv' = [inv EXCEPT ![g] = [access |-> grant, round |-> RoundOf(Latest), accepted |-> 0]]
  /\ Shared(l)

KeptAcceptance(i, n) == [i EXCEPT !.round = n]
MovedTo(i, n) == [i EXCEPT !.round = n, !.accepted = 0]

Share(l) ==
  LET n == RoundOf(Latest)
      moved == {g \in Active : inv[g].round # n} IN
  /\ Current(l)
  /\ Shareable
  /\ Active # {}
  /\ inv' = [g \in Guests |-> IF g \in moved THEN MovedTo(inv[g], n) ELSE inv[g]]
  /\ Shared(l)

EveryoneAcceptedSome == Active # {} /\ \A g \in Active : inv[g].accepted # 0
EveryoneAccepted == Active # {} /\ \A g \in Active : inv[g].accepted = Latest

Agree(l) ==
  /\ Current(l)
  /\ stage = "negotiation" /\ ~needsNew
  /\ EveryoneAccepted
  /\ NothingOpen
  /\ \A c \in Comments : comments[c] # "open"
  /\ stage' = "agreed" /\ agreedDoc' = Latest /\ progress' = "complete"
  /\ Bump
  /\ UNCHANGED <<needsNew, routed, docVars, roomVars, reply>>

ResolvedByLegal(r) == docs[Latest] = Legal /\ Latest > r.doc

(* Legal has answered a response with a newer version of its own. *)
Review(r) ==
  /\ r \in responses
  /\ ResolvedByLegal(r)
  /\ stage = "negotiation"
  /\ responses' = (responses \ {r}) \cup {[r EXCEPT !.state = "reviewed", !.answer = Latest]}
  /\ progress' = "ready-to-share"
  /\ Bump
  /\ UNCHANGED <<stage, needsNew, agreedDoc, routed, docVars, rounds, inv, comments,
                 reply>>

-----------------------------------------------------------------------------
(* Access: no revision is involved *)

(* access: also brings an expired invitation back; never a revoked one. *)
Access(g, grant) ==
  /\ inv[g].access \in Grants \cup {"expired"}
  /\ inv' = [inv EXCEPT ![g].access = grant]
  /\ UNCHANGED <<contractVars, docVars, rounds, responses, comments, prep, reply>>

Expire(g) ==
  /\ g \in Active
  /\ inv' = [inv EXCEPT ![g].access = "expired"]
  /\ UNCHANGED <<contractVars, docVars, rounds, responses, comments, prep, reply>>

Revoke(g) ==
  /\ inv[g].access # "none"
  /\ inv' = [inv EXCEPT ![g].access = "revoked"]
  /\ UNCHANGED <<contractVars, docVars, rounds, responses, comments, prep, reply>>

-----------------------------------------------------------------------------
(* The guest's room *)

(* guestWrite: the agreement is negotiated and the guest writes about the
   version its invitation now shows. *)
GuestWrite(g, d) == g \in Active /\ stage = "negotiation" /\ rounds[inv[g].round] = d

FirstText(g) == rounds[1]
ShownText(g) == rounds[inv[g].round]

(* respond authenticates, reads the shared sections to compare with, and has the
   bytes scanned.  The document it answers is named by the page, which may show
   an earlier round. *)
RespondRead(g) ==
  /\ MayRespond(g) /\ reply[g] = NoReply
  /\ \E n \in 1..inv[g].round :
       reply' = [reply EXCEPT ![g] = [doc |-> rounds[n], base |-> ShownText(g)]]
  /\ UNCHANGED <<contractVars, docVars, roomVars, prep>>

RespondAbort(g) ==
  /\ reply[g] # NoReply
  /\ reply' = [reply EXCEPT ![g] = NoReply]
  /\ UNCHANGED <<contractVars, docVars, roomVars, prep>>

Answered(g) == \E r \in responses : r.guest = g /\ r.round = inv[g].round

LatestAssumed(g) == TRUE
StillLatest(g) == reply[g].doc = Latest

Respond(g) ==
  /\ reply[g] # NoReply
  /\ MayRespond(g) /\ GuestWrite(g, reply[g].doc)
  /\ ~Answered(g)                             \* else the same answer, or a conflict
  /\ StillLatest(g)
  /\ Record(g)
  /\ clean' = TRUE
  /\ responses' = responses \cup {[guest |-> g, round |-> inv[g].round, doc |-> Latest + 1,
                         base |-> reply[g].base, state |-> "received", answer |-> 0]}
  /\ progress' = "changes-received"
  /\ reply' = [reply EXCEPT ![g] = NoReply]
  /\ Bump
  /\ UNCHANGED <<stage, agreedDoc, routed, rounds, inv, comments>>

Accept(g) ==
  /\ Latest # 0 /\ GuestWrite(g, Latest)
  /\ ~Answered(g)
  /\ inv[g].accepted # Latest                 \* else already recorded
  /\ inv' = [inv EXCEPT ![g].accepted = Latest]
  /\ progress' = IF \A h \in Active \ {g} : inv[h].accepted = Latest
                 THEN "agreed-pending" ELSE "with-counterparty"
  /\ Bump
  /\ UNCHANGED <<stage, needsNew, agreedDoc, routed, docVars, rounds, responses, comments,
                 reply>>

GuestComment(g, c) ==
  /\ g \in Active /\ GuestWrite(g, rounds[inv[g].round])
  /\ comments[c] = "none"                     \* else the saved one is returned
  /\ comments' = [comments EXCEPT ![c] = "open"]
  /\ UNCHANGED <<contractVars, docVars, rounds, inv, responses, prep, reply>>

(* A reply in a round that guests were shown. *)
LegalComment(c, n) ==
  /\ stage = "negotiation" /\ n \in DOMAIN rounds
  /\ comments[c] = "none"                     \* else the saved one is returned
  /\ comments' = [comments EXCEPT ![c] = "open"]
  /\ UNCHANGED <<contractVars, docVars, rounds, inv, responses, prep, reply>>

(* An internal comment, or a question put to the requesting client. *)
RaiseInside(c) ==
  /\ Latest # 0
  /\ comments[c] = "none"                     \* else the saved one is returned
  /\ comments' = [comments EXCEPT ![c] = "open"]
  /\ UNCHANGED <<contractVars, docVars, rounds, inv, responses, prep, reply>>

ResolveComment(c, to) ==
  /\ comments[c] # "none"
  /\ comments' = [comments EXCEPT ![c] = to]
  /\ UNCHANGED <<contractVars, docVars, rounds, inv, responses, prep, reply>>

-----------------------------------------------------------------------------

LawyerSteps(l) ==
  \/ Begin(l) \/ Abort(l) \/ Share(l) \/ Agree(l)
  \/ \E g \in Guests, grant \in Grants : Invite(l, g, grant)

GuestSteps(g) ==
  \/ RespondRead(g) \/ RespondAbort(g) \/ Respond(g) \/ Accept(g)
  \/ \E c \in Comments : GuestComment(g, c)
  \/ \E grant \in Grants : Access(g, grant)
  \/ Expire(g) \/ Revoke(g)

CommentSteps(c) ==
  \/ \E n \in 1..MaxDocs : LegalComment(c, n)
  \/ RaiseInside(c)
  \/ \E to \in {"open", "resolved"} : ResolveComment(c, to)

Next ==
  \/ \E share \in BOOLEAN : SaveDraft(share)
  \/ Upload \/ Revise
  \/ \E to \in {"drafting", "review"} : Transition(to)
  \/ \E outcome \in {"signature", "review"} : Approval(outcome)
  \/ \E r \in responses : Review(r)
  \/ \E l \in Lawyers : LawyerSteps(l)
  \/ \E g \in Guests : GuestSteps(g)
  \/ \E c \in Comments : CommentSteps(c)

Spec == Init /\ [][Next]_vars

-----------------------------------------------------------------------------
(* Properties *)

TypeOK ==
  /\ stage \in Stages /\ needsNew \in BOOLEAN /\ routed \in BOOLEAN
  /\ agreedDoc \in Nat /\ progress \in Progress
  /\ docs \in Seq(Authors) /\ clean \in BOOLEAN
  /\ rounds \in Seq(1..Latest)
  /\ inv \in [Guests -> Invitation]
  /\ \A g \in Guests : inv[g].round \in 0..Len(rounds)
  /\ responses \in SUBSET Response
  /\ comments \in [Comments -> {"none", "open", "resolved"}]
  /\ prep \in [Lawyers -> 0..Latest]
  /\ reply \in [Guests -> [doc: Nat, base: Nat]]

(* What guests are shown is Legal's: a shared round is never a counterparty's own
   proposal, although a response becomes the newest document and the draft
   (currentRound against respond, reviewed and the edits in between). *)
SharedIsLegal == \A n \in DOMAIN rounds : docs[rounds[n]] = Legal

(* An acceptance on record is of the document the guest's invitation shows now:
   moving a guest to another round takes an earlier acceptance back. *)
AcceptedWasShown ==
  \A g \in Guests : inv[g].accepted # 0 =>
    /\ inv[g].round # 0 /\ inv[g].accepted = rounds[inv[g].round]

(* The agreed form is the newest document, was shared, was accepted by somebody
   who was shown it, and nobody ever proposed changes to it; no response waits
   for Legal, and none comes while the form stands. *)
AgreedFormStands ==
  stage = "agreed" =>
    /\ agreedDoc = Latest /\ ~needsNew
    /\ \E n \in DOMAIN rounds : rounds[n] = agreedDoc
    /\ \E g \in Guests : inv[g].accepted = agreedDoc
    /\ Open(responses) = {}
    /\ \A r \in responses : rounds[r.round] # agreedDoc

(* At most one response waits for Legal, whoever answers at the same moment: the
   first one makes a newer document, and the others answered an older one. *)
OneOpenResponse == \A r, s \in Open(responses) : r = s

(* A response is compared with the text of the round it answers, although that
   text is read before the scan and the round is looked up again after it. *)
ComparedWithItsRound == \A r \in responses : r.base = rounds[r.round]
=============================================================================
