-------------------------- MODULE NegotiationProofs --------------------------
(***************************************************************************)
(* The safety of a negotiation for any number of guests, lawyers, comments *)
(* and documents.  Rounds, responses and documents rise together: a round  *)
(* shows the newest document, a response is newer than the round it        *)
(* answers, and while a response waits nothing newer is shown.             *)
(***************************************************************************)
EXTENDS Negotiation, SequenceTheorems, TLAPS

(* A later round shows a later document. *)
RoundsRise == \A m, n \in DOMAIN rounds : m < n => rounds[m] < rounds[n]

(* A guest that was ever invited is shown a round. *)
ShownInv == \A g \in Guests : inv[g].access # "none" => inv[g].round # 0

(* A response is a document, newer than the one it answers. *)
ResponseInv ==
  \A r \in responses :
    /\ r.round \in DOMAIN rounds
    /\ r.doc <= Latest /\ rounds[r.round] < r.doc

(* While a response waits, nothing newer is shown. *)
WaitingInv == \A r \in Open(responses) : \A n \in DOMAIN rounds : rounds[n] < r.doc

(* A newest document that is not Legal's is a response that waits. *)
LatestInv ==
  Latest # 0 => docs[Latest] = Legal \/ \E r \in Open(responses) : r.doc = Latest

(* What a guest compares with is no older than what the page shows. *)
ReplyInv == \A g \in Guests : reply[g].doc <= reply[g].base /\ reply[g].base <= Latest

RoomInv == RoundsRise /\ ShownInv /\ ResponseInv /\ WaitingInv /\ LatestInv /\ ReplyInv

IInv ==
  /\ TypeOK /\ RoomInv
  /\ SharedIsLegal /\ AcceptedWasShown /\ AgreedFormStands /\ OneOpenResponse
  /\ ComparedWithItsRound

(* The type invariant in parts: what is small, and what is shared. *)
SmallType ==
  /\ stage \in Stages /\ needsNew \in BOOLEAN /\ routed \in BOOLEAN
  /\ agreedDoc \in Nat /\ progress \in Progress /\ clean \in BOOLEAN
  /\ comments \in [Comments -> {"none", "open", "resolved"}]

SeqType == docs \in Seq(Authors) /\ rounds \in Seq(1..Latest)

RoomType ==
  /\ inv \in [Guests -> Invitation]
  /\ \A g \in Guests : inv[g].round \in 0..Len(rounds)
  /\ responses \in SUBSET Response

CallType ==
  /\ prep \in [Lawyers -> 0..Latest]
  /\ reply \in [Guests -> [doc: Nat, base: Nat]]

LEMMA Typed == TypeOK <=> SmallType /\ SeqType /\ RoomType /\ CallType
  BY DEF TypeOK, SmallType, SeqType, RoomType, CallType

LEMMA TypedNext == SmallType' /\ SeqType' /\ RoomType' /\ CallType' => TypeOK'
  BY DEF TypeOK, SmallType, SeqType, RoomType, CallType

LEMMA InitInv == Init => IInv
<1> SUFFICES ASSUME Init PROVE IInv
  OBVIOUS
<1>1. Latest = 0 /\ Len(rounds) = 0 /\ DOMAIN rounds = {}
  BY DEF Init, Latest
<1>2. SmallType
  BY DEF Init, SmallType, Stages, Progress
<1>3. SeqType
  BY EmptySeq DEF Init, SeqType
<1>4. NoInvitation \in Invitation /\ NoInvitation.access = "none"
      /\ NoInvitation.round = 0 /\ NoInvitation.accepted = 0
  BY DEF NoInvitation, Invitation
<1>5. \A g \in Guests : inv[g] = NoInvitation
  BY DEF Init
<1>6. RoomType
  BY <1>1, <1>4, <1>5 DEF Init, RoomType
<1>7. CallType
  BY <1>1 DEF Init, CallType, NoReply
<1>8. \A g \in Guests : reply[g].doc = 0 /\ reply[g].base = 0
  BY DEF Init, NoReply
<1>9. RoomInv
  BY <1>1, <1>4, <1>5, <1>8
  DEF Init, RoomInv, RoundsRise, ShownInv, ResponseInv, WaitingInv, LatestInv, ReplyInv, Open
<1>10. AcceptedWasShown
  BY <1>4, <1>5 DEF AcceptedWasShown
<1>11. SharedIsLegal /\ AgreedFormStands /\ OneOpenResponse /\ ComparedWithItsRound
  BY <1>1 DEF Init, SharedIsLegal, AgreedFormStands, OneOpenResponse, ComparedWithItsRound, Open
<1> QED
  BY <1>2, <1>3, <1>6, <1>7, <1>9, <1>10, <1>11, Typed DEF IInv

-----------------------------------------------------------------------------
(* Documents and rounds *)

LEMMA Lengths ==
  ASSUME TypeOK
  PROVE  /\ Latest \in Nat /\ DOMAIN docs = 1..Latest
         /\ Len(rounds) \in Nat /\ DOMAIN rounds = 1..Len(rounds)
         /\ \A n \in DOMAIN rounds : rounds[n] \in 1..Latest
<1>1. docs \in Seq(Authors) /\ rounds \in Seq(1..Latest)
  BY DEF TypeOK
<1>2. Latest \in Nat /\ DOMAIN docs = 1..Latest
  BY <1>1, LenProperties DEF Latest
<1>3. /\ Len(rounds) \in Nat /\ DOMAIN rounds = 1..Len(rounds)
      /\ \A n \in 1..Len(rounds) : rounds[n] \in 1..Latest
  BY <1>1, LenProperties, ElementOfSeq
<1> QED
  BY <1>2, <1>3

(* A new document becomes the newest and leaves the others as they are. *)
LEMMA RecordFacts ==
  ASSUME TypeOK, NEW by \in Authors, Record(by)
  PROVE  /\ Latest' = Latest + 1 /\ docs'[Latest'] = by
         /\ \A i \in 1..Latest : docs'[i] = docs[i]
         /\ docs' \in Seq(Authors)
         /\ rounds \in Seq(1..Latest')
<1>1. docs \in Seq(Authors) /\ Latest \in Nat
  BY Lengths DEF TypeOK
<1>2. docs' = Append(docs, by)
  BY DEF Record
<1>3. /\ docs' \in Seq(Authors)
      /\ Len(docs') = Len(docs) + 1
      /\ \A i \in 1..Len(docs) : docs'[i] = docs[i]
      /\ docs'[Len(docs) + 1] = by
  BY <1>1, <1>2, AppendProperties
<1>4. Latest = Len(docs) /\ Latest' = Len(docs')
  BY DEF Latest
<1>5. 1..Latest \subseteq 1..Latest'
  BY <1>1, <1>3, <1>4
<1>6. rounds \in Seq(1..Latest')
  BY <1>5, SeqMonotonic DEF TypeOK
<1> QED
  BY <1>3, <1>4, <1>6

(* The round that shows the newest document is there or comes next. *)
LEMMA RoundFacts ==
  ASSUME TypeOK, RoundsRise, Latest # 0
  PROVE  /\ RoundsWith(Latest) \in Seq(1..Latest)
         /\ Len(rounds) <= Len(RoundsWith(Latest))
         /\ Len(RoundsWith(Latest)) \in Nat
         /\ DOMAIN RoundsWith(Latest) = 1..Len(RoundsWith(Latest))
         /\ \A i \in DOMAIN rounds : RoundsWith(Latest)[i] = rounds[i]
         /\ \A i \in DOMAIN RoundsWith(Latest) :
              RoundsWith(Latest)[i] = Latest \/ i \in DOMAIN rounds
         /\ \A i, j \in DOMAIN RoundsWith(Latest) :
              i < j => RoundsWith(Latest)[i] < RoundsWith(Latest)[j]
         /\ RoundOf(Latest) \in DOMAIN RoundsWith(Latest)
         /\ RoundsWith(Latest)[RoundOf(Latest)] = Latest
<1> DEFINE rs == RoundsWith(Latest)
<1>1. /\ Latest \in Nat /\ Len(rounds) \in Nat /\ DOMAIN rounds = 1..Len(rounds)
      /\ \A n \in DOMAIN rounds : rounds[n] \in 1..Latest
      /\ rounds \in Seq(1..Latest)
  BY Lengths DEF TypeOK
<1>2. CASE \E n \in DOMAIN rounds : rounds[n] = Latest
  <2>1. rs = rounds
    BY <1>2 DEF RoundsWith
  <2>2. \E n \in DOMAIN rs : rs[n] = Latest
    BY <1>2, <2>1
  <2>3. RoundOf(Latest) \in DOMAIN rs /\ rs[RoundOf(Latest)] = Latest
    BY <2>2 DEF RoundOf
  <2> QED
    BY <1>1, <2>1, <2>3 DEF RoundsRise
<1>3. CASE ~\E n \in DOMAIN rounds : rounds[n] = Latest
  <2>1. rs = Append(rounds, Latest)
    BY <1>3 DEF RoundsWith
  <2>2. Latest \in 1..Latest
    BY <1>1
  <2>3. /\ rs \in Seq(1..Latest) /\ Len(rs) = Len(rounds) + 1
        /\ \A i \in 1..Len(rounds) : rs[i] = rounds[i]
        /\ rs[Len(rounds) + 1] = Latest
    BY <1>1, <2>1, <2>2, AppendProperties
  <2>4. DOMAIN rs = 1..Len(rs)
    BY <2>3, LenProperties
  <2>5. Len(rs) \in DOMAIN rs /\ rs[Len(rs)] = Latest
    BY <1>1, <2>3, <2>4
  <2>6. \E n \in DOMAIN rs : rs[n] = Latest
    BY <2>5
  <2>7. RoundOf(Latest) \in DOMAIN rs /\ rs[RoundOf(Latest)] = Latest
    BY <2>6 DEF RoundOf
  <2>8. \A i, j \in DOMAIN rs : i < j => rs[i] < rs[j]
    <3> SUFFICES ASSUME NEW i \in DOMAIN rs, NEW j \in DOMAIN rs, i < j PROVE rs[i] < rs[j]
      OBVIOUS
    <3>1. i \in DOMAIN rounds /\ rs[i] = rounds[i]
      BY <1>1, <2>3, <2>4
    <3>2. CASE j \in DOMAIN rounds
      BY <1>1, <2>3, <3>1, <3>2 DEF RoundsRise
    <3>3. CASE j \notin DOMAIN rounds
      <4>1. rs[j] = Latest
        BY <1>1, <2>3, <2>4, <3>3
      <4>2. rounds[i] # Latest /\ rounds[i] \in 1..Latest
        BY <1>1, <1>3, <3>1
      <4> QED
        BY <1>1, <3>1, <4>1, <4>2
    <3> QED
      BY <3>2, <3>3
  <2>9. \A i \in DOMAIN rs : rs[i] = Latest \/ i \in DOMAIN rounds
    BY <1>1, <2>3, <2>4
  <2> HIDE DEF rs
  <2> QED
    BY <1>1, <2>3, <2>4, <2>7, <2>8, <2>9 DEF rs
<1> QED
  BY <1>2, <1>3

-----------------------------------------------------------------------------
(* Steps that touch neither the documents nor the room *)

LEMMA QuietStep ==
  ASSUME IInv, SmallType', CallType', ReplyInv',
         docs' = docs, rounds' = rounds, inv' = inv, responses' = responses,
         stage' = "agreed" =>
           stage = "agreed" /\ agreedDoc' = agreedDoc /\ needsNew' = needsNew
  PROVE  IInv'
<1> Latest' = Latest
  BY DEF Latest
<1>1. SeqType' /\ RoomType'
  BY DEF IInv, TypeOK, SeqType, RoomType
<1>2. TypeOK'
  BY <1>1, TypedNext
<1>3. RoomInv'
  BY DEF IInv, RoomInv, RoundsRise, ShownInv, ResponseInv, WaitingInv, LatestInv, Open
<1>4. AgreedFormStands'
  BY DEF IInv, AgreedFormStands, Open
<1>5. SharedIsLegal' /\ AcceptedWasShown'
  BY DEF IInv, SharedIsLegal, AcceptedWasShown
<1>6. OneOpenResponse' /\ ComparedWithItsRound'
  BY DEF IInv, OneOpenResponse, ComparedWithItsRound, Open
<1> QED
  BY <1>2, <1>3, <1>4, <1>5, <1>6 DEF IInv

LEMMA ContractStep ==
  ASSUME IInv,
         \/ \E to \in {"drafting", "review"} : Transition(to)
         \/ \E outcome \in {"signature", "review"} : Approval(outcome)
         \/ Revise
  PROVE  IInv'
<1>1. /\ docs' = docs /\ Latest' = Latest /\ rounds' = rounds /\ inv' = inv
      /\ responses' = responses
      /\ reply' = reply /\ clean' = clean /\ comments' = comments
      /\ progress' = progress /\ prep' = [l \in Lawyers |-> 0]
  BY DEF Latest, Transition, Approval, Revise, docVars, roomVars, Bump
<1>2. /\ stage' \in {"drafting", "review", "signature"}
      /\ agreedDoc' = agreedDoc \/ agreedDoc' = 0
  BY DEF Transition, Approval, Revise
<1>3. needsNew' \in BOOLEAN /\ routed' \in BOOLEAN
  BY DEF Transition, Approval, Revise, IInv, TypeOK
<1>4. SmallType'
  BY <1>1, <1>2, <1>3 DEF IInv, TypeOK, SmallType, Stages
<1>5. CallType'
  BY <1>1, Lengths DEF IInv, TypeOK, CallType
<1>6. ReplyInv'
  BY <1>1 DEF IInv, RoomInv, ReplyInv
<1> QED
  BY <1>1, <1>2, <1>4, <1>5, <1>6, QuietStep

(* A request reads, or is forgotten. *)
LEMMA WaitStep ==
  ASSUME IInv,
         \/ \E l \in Lawyers : Begin(l) \/ Abort(l)
         \/ \E g \in Guests : RespondRead(g) \/ RespondAbort(g)
  PROVE  IInv'
<1>1. /\ docs' = docs /\ Latest' = Latest /\ rounds' = rounds /\ inv' = inv
      /\ responses' = responses
      /\ clean' = clean /\ comments' = comments /\ stage' = stage
      /\ progress' = progress /\ needsNew' = needsNew /\ agreedDoc' = agreedDoc
      /\ routed' = routed
  BY DEF Latest, Begin, Abort, RespondRead, RespondAbort, contractVars, docVars, roomVars
<1>2. SmallType'
  BY <1>1 DEF IInv, TypeOK, SmallType
<1>3. CallType' /\ ReplyInv'
  <2>1. ASSUME NEW l \in Lawyers, Begin(l) \/ Abort(l) PROVE CallType' /\ ReplyInv'
    <3>1. reply' = reply
      BY <2>1 DEF Begin, Abort
    <3>2. 0 \in 0..Latest /\ Latest \in 0..Latest
      BY Lengths DEF IInv
    <3>3. prep' \in [Lawyers -> 0..Latest]
      BY <2>1, <3>2 DEF Begin, Abort, IInv, TypeOK
    <3> QED
      BY <1>1, <3>1, <3>3 DEF IInv, TypeOK, CallType, RoomInv, ReplyInv
  <2>2. ASSUME NEW g \in Guests, RespondRead(g) PROVE CallType' /\ ReplyInv'
    <3>1. PICK n \in 1..inv[g].round :
            reply' = [reply EXCEPT ![g] = [doc |-> rounds[n], base |-> ShownText(g)]]
      BY <2>2 DEF RespondRead
    <3>2. /\ inv[g].round \in 0..Len(rounds) /\ Len(rounds) \in Nat
          /\ DOMAIN rounds = 1..Len(rounds) /\ Latest \in Nat
          /\ \A m \in DOMAIN rounds : rounds[m] \in 1..Latest
      BY Lengths DEF IInv, TypeOK
    <3>3. n \in DOMAIN rounds /\ inv[g].round \in DOMAIN rounds /\ n <= inv[g].round
      BY <3>2
    <3>4. /\ rounds[n] <= ShownText(g) /\ ShownText(g) <= Latest
          /\ rounds[n] \in Nat /\ ShownText(g) \in Nat
      BY <3>2, <3>3 DEF IInv, RoomInv, RoundsRise, ShownText
    <3>5. prep' = prep
      BY <2>2 DEF RespondRead
    <3>6. /\ reply'[g].doc = rounds[n] /\ reply'[g].base = ShownText(g)
          /\ \A h \in Guests \ {g} : reply'[h] = reply[h]
      BY <3>1 DEF IInv, TypeOK
    <3>7. reply' \in [Guests -> [doc: Nat, base: Nat]]
      BY <3>1, <3>4 DEF IInv, TypeOK
    <3>8. ReplyInv'
      BY <1>1, <3>4, <3>6 DEF IInv, RoomInv, ReplyInv
    <3> QED
      BY <1>1, <3>5, <3>7, <3>8 DEF IInv, TypeOK, CallType
  <2>3. ASSUME NEW g \in Guests, RespondAbort(g) PROVE CallType' /\ ReplyInv'
    <3>1. /\ prep' = prep /\ reply' \in [Guests -> [doc: Nat, base: Nat]]
          /\ reply'[g].doc = 0 /\ reply'[g].base = 0
          /\ \A h \in Guests \ {g} : reply'[h] = reply[h]
      BY <2>3 DEF RespondAbort, NoReply, IInv, TypeOK
    <3>2. Latest \in Nat
      BY Lengths DEF IInv
    <3> QED
      <4>1. CallType'
        BY <1>1, <3>1 DEF IInv, TypeOK, CallType
      <4>2. ReplyInv'
        BY <1>1, <3>1, <3>2 DEF IInv, RoomInv, ReplyInv
      <4> QED
        BY <4>1, <4>2
  <2> QED
    BY <2>1, <2>2, <2>3
<1> QED
  BY <1>1, <1>2, <1>3, QuietStep

LEMMA CommentStep ==
  ASSUME IInv, NEW c \in Comments,
         CommentSteps(c) \/ \E g \in Guests : GuestComment(g, c)
  PROVE  IInv'
<1>1. /\ docs' = docs /\ Latest' = Latest /\ rounds' = rounds /\ inv' = inv
      /\ responses' = responses
      /\ clean' = clean /\ stage' = stage /\ progress' = progress
      /\ needsNew' = needsNew /\ agreedDoc' = agreedDoc /\ routed' = routed
      /\ prep' = prep /\ reply' = reply
  BY DEF Latest, CommentSteps, LegalComment, RaiseInside, ResolveComment, GuestComment,
         contractVars, docVars
<1>2. PICK to \in {"open", "resolved"} : comments' = [comments EXCEPT ![c] = to]
  BY DEF CommentSteps, LegalComment, RaiseInside, ResolveComment, GuestComment
<1>3. comments' \in [Comments -> {"none", "open", "resolved"}]
  BY <1>2 DEF IInv, TypeOK
<1>4. SmallType'
  BY <1>1, <1>3 DEF IInv, TypeOK, SmallType
<1>5. CallType' /\ ReplyInv'
  BY <1>1 DEF IInv, TypeOK, CallType, RoomInv, ReplyInv
<1> QED
  BY <1>1, <1>4, <1>5, QuietStep

-----------------------------------------------------------------------------
(* Legal's work *)

LEMMA SaveStep ==
  ASSUME IInv, Upload \/ \E share \in BOOLEAN : SaveDraft(share)
  PROVE  IInv'
<1>1. /\ Record(Legal) /\ stage' = stage /\ stage # "agreed"
      /\ rounds' = rounds /\ inv' = inv /\ responses' = responses
      /\ reply' = reply /\ comments' = comments /\ agreedDoc' = agreedDoc /\ routed' = routed
      /\ prep' = [l \in Lawyers |-> 0]
  BY DEF Upload, SaveDraft, roomVars, Bump
<1>2. clean' \in BOOLEAN /\ needsNew' = FALSE
  BY DEF Upload, SaveDraft, Record
<1>3. progress' \in Progress
  BY DEF Upload, SaveDraft, IInv, TypeOK, Progress
<1>4. Legal \in Authors
  BY DEF Authors
<1>5. /\ Latest' = Latest + 1 /\ docs'[Latest'] = Legal
      /\ \A i \in 1..Latest : docs'[i] = docs[i]
      /\ docs' \in Seq(Authors) /\ rounds' \in Seq(1..Latest')
  BY <1>1, <1>4, RecordFacts DEF IInv, TypeOK
<1>6. /\ Latest \in Nat /\ DOMAIN rounds = 1..Len(rounds)
      /\ \A n \in DOMAIN rounds : rounds[n] \in 1..Latest
  BY Lengths DEF IInv
<1>7. SmallType'
  BY <1>1, <1>2, <1>3 DEF IInv, TypeOK, SmallType
<1>8. CallType'
  BY <1>1, <1>5, <1>6 DEF IInv, TypeOK, CallType
<1>9. TypeOK'
  <2>1. SeqType' /\ RoomType'
    BY <1>1, <1>5, <1>7, <1>8 DEF IInv, TypeOK, SeqType, RoomType
  <2> QED
    BY <1>1, <1>5, <1>7, <1>8, <2>1, TypedNext
<1>10. RoundsRise' /\ ShownInv' /\ WaitingInv'
  BY <1>1 DEF IInv, RoomInv, RoundsRise, ShownInv, WaitingInv, Open
<1>11. ResponseInv'
  <2>1. \A r \in responses : r.doc \in Nat
    BY DEF IInv, TypeOK, Response
  <2> QED
    BY <1>1, <1>5, <1>6, <2>1 DEF IInv, RoomInv, ResponseInv
<1>12. LatestInv'
  BY <1>5 DEF LatestInv
<1>13. ReplyInv'
  BY <1>1, <1>5, <1>6 DEF IInv, TypeOK, RoomInv, ReplyInv
<1>14. SharedIsLegal'
  BY <1>1, <1>5, <1>6 DEF IInv, SharedIsLegal
<1>15. AcceptedWasShown' /\ OneOpenResponse' /\ ComparedWithItsRound'
  BY <1>1 DEF IInv, AcceptedWasShown, OneOpenResponse, ComparedWithItsRound, Open
<1>16. AgreedFormStands'
  BY <1>1 DEF AgreedFormStands
<1> QED
  BY <1>9, <1>10, <1>11, <1>12, <1>13, <1>14, <1>15, <1>16 DEF IInv, RoomInv

(* The agreed form is the document everybody was shown and accepted. *)
LEMMA AgreeStep ==
  ASSUME IInv, NEW l \in Lawyers, Agree(l)
  PROVE  IInv'
<1>1. /\ docs' = docs /\ Latest' = Latest /\ rounds' = rounds /\ inv' = inv
      /\ responses' = responses
      /\ clean' = clean /\ comments' = comments /\ routed' = routed
      /\ reply' = reply /\ needsNew' = needsNew /\ ~needsNew
      /\ stage' = "agreed" /\ agreedDoc' = Latest /\ progress' = "complete"
      /\ prep' = [k \in Lawyers |-> 0]
  BY DEF Latest, Agree, docVars, roomVars, Bump
<1>2. Latest \in Nat /\ Latest # 0
  BY Lengths DEF IInv, TypeOK, Agree, Current
<1>3. PICK g \in Guests : inv[g].accepted = Latest
  BY DEF Agree, EveryoneAccepted, Active
<1>4. /\ inv[g].round \in DOMAIN rounds /\ rounds[inv[g].round] = Latest
  <2>1. inv[g].round # 0 /\ rounds[inv[g].round] = Latest
    BY <1>2, <1>3 DEF IInv, AcceptedWasShown
  <2>2. inv[g].round \in 0..Len(rounds) /\ DOMAIN rounds = 1..Len(rounds) /\ Len(rounds) \in Nat
    BY Lengths DEF IInv, TypeOK
  <2> QED
    BY <2>1, <2>2
<1>5. \A r \in responses : rounds[r.round] # Latest
  <2> SUFFICES ASSUME NEW r \in responses PROVE rounds[r.round] # Latest
    OBVIOUS
  <2>1. rounds[r.round] < r.doc /\ r.doc <= Latest /\ r.round \in DOMAIN rounds
    BY DEF IInv, RoomInv, ResponseInv
  <2>2. r.doc \in Nat /\ rounds[r.round] \in Nat
    BY <2>1, Lengths DEF IInv, TypeOK, Response
  <2> QED
    BY <1>2, <2>1, <2>2
<1>6. Open(responses) = {}
  BY DEF Agree, NothingOpen
<1>7. AgreedFormStands'
  BY <1>1, <1>3, <1>4, <1>5, <1>6 DEF AgreedFormStands
<1>8. SmallType'
  BY <1>1, <1>2 DEF IInv, TypeOK, SmallType, Stages, Progress
<1>9. CallType'
  BY <1>1, <1>2 DEF IInv, TypeOK, CallType
<1>10. TypeOK'
  <2>1. SeqType' /\ RoomType'
    BY <1>1, <1>8, <1>9 DEF IInv, TypeOK, SeqType, RoomType
  <2> QED
    BY <1>1, <1>8, <1>9, <2>1, TypedNext
<1>11. RoomInv'
  BY <1>1
  DEF IInv, RoomInv, RoundsRise, ShownInv, ResponseInv, WaitingInv, LatestInv, ReplyInv, Open
<1>12. SharedIsLegal' /\ AcceptedWasShown' /\ OneOpenResponse'
       /\ ComparedWithItsRound'
  BY <1>1
  DEF IInv, SharedIsLegal, AcceptedWasShown, OneOpenResponse, ComparedWithItsRound, Open
<1> QED
  BY <1>7, <1>10, <1>11, <1>12 DEF IInv

LEMMA ReviewStep ==
  ASSUME IInv, NEW r \in responses, Review(r)
  PROVE  IInv'
<1> DEFINE done == [r EXCEPT !.state = "reviewed", !.answer = Latest]
<1>1. /\ docs' = docs /\ Latest' = Latest /\ rounds' = rounds /\ inv' = inv
      /\ reply' = reply
      /\ clean' = clean /\ comments' = comments /\ routed' = routed /\ stage' = stage
      /\ needsNew' = needsNew /\ agreedDoc' = agreedDoc /\ stage = "negotiation"
      /\ progress' = "ready-to-share" /\ prep' = [l \in Lawyers |-> 0]
      /\ responses' = (responses \ {r}) \cup {done} /\ docs[Latest] = Legal
  BY DEF Latest, Review, Bump, ResolvedByLegal, docVars
<1>2. Latest \in Nat
  BY Lengths DEF IInv
<1>3. /\ done \in Response /\ done.state = "reviewed" /\ done.guest = r.guest
      /\ done.round = r.round /\ done.doc = r.doc /\ done.base = r.base
  BY <1>2 DEF IInv, TypeOK, Response
<1> HIDE DEF done
<1>4. Open(responses') \subseteq Open(responses)
  BY <1>1, <1>3 DEF Open
<1>5. SmallType'
  BY <1>1 DEF IInv, TypeOK, SmallType, Progress
<1>6. CallType'
  BY <1>1, <1>2 DEF IInv, TypeOK, CallType
<1>7. TypeOK'
  <2>1. SeqType' /\ RoomType'
    BY <1>1, <1>3, <1>5, <1>6 DEF IInv, TypeOK, SeqType, RoomType
  <2> QED
    BY <1>1, <1>3, <1>5, <1>6, <2>1, TypedNext
<1>8. ResponseInv' /\ ComparedWithItsRound'
  BY <1>1, <1>3 DEF IInv, RoomInv, ResponseInv, ComparedWithItsRound
<1>9. WaitingInv' /\ OneOpenResponse'
  BY <1>1, <1>4 DEF IInv, RoomInv, WaitingInv, OneOpenResponse
<1>10. RoundsRise' /\ ShownInv' /\ LatestInv' /\ ReplyInv'
  BY <1>1 DEF IInv, RoomInv, RoundsRise, ShownInv, LatestInv, ReplyInv
<1>11. SharedIsLegal' /\ AcceptedWasShown'
  BY <1>1 DEF IInv, SharedIsLegal, AcceptedWasShown
<1>12. AgreedFormStands'
  BY <1>1 DEF AgreedFormStands
<1> QED
  BY <1>7, <1>8, <1>9, <1>10, <1>11, <1>12 DEF IInv, RoomInv

-----------------------------------------------------------------------------
(* Sharing *)

(* What inviting and sharing have in common: the newest document is shown, nobody
   waits for Legal, and whoever is shown another round has accepted nothing of it. *)
LEMMA SharedStep ==
  ASSUME IInv, NEW l \in Lawyers, Current(l), Shareable, Shared(l),
         inv' \in [Guests -> Invitation],
         \A g \in Guests :
           \/ inv'[g] = inv[g]
           \/ inv'[g].round = RoundOf(Latest) /\ inv'[g].accepted = 0
  PROVE  IInv'
<1>1. /\ docs' = docs /\ Latest' = Latest /\ responses' = responses
      /\ rounds' = RoundsWith(Latest)
      /\ comments' = comments /\ reply' = reply /\ clean' = clean /\ needsNew' = needsNew
      /\ agreedDoc' = agreedDoc /\ routed' = routed /\ stage' = "negotiation"
      /\ progress' = "with-counterparty" /\ prep' = [k \in Lawyers |-> 0]
  BY DEF Latest, Shared, Bump, docVars
<1>2. Latest \in Nat /\ Latest # 0 /\ Open(responses) = {} /\ docs[Latest] = Legal
  <2>1. Latest \in Nat /\ Latest # 0
    BY Lengths DEF IInv, Current
  <2>2. Open(responses) = {}
    BY DEF Shareable, NothingOpen
  <2> QED
    BY <2>1, <2>2 DEF IInv, RoomInv, LatestInv
<1>3. /\ rounds' \in Seq(1..Latest)
      /\ Len(rounds) <= Len(rounds') /\ Len(rounds') \in Nat /\ Len(rounds) \in Nat
      /\ DOMAIN rounds' = 1..Len(rounds') /\ DOMAIN rounds = 1..Len(rounds)
      /\ \A i \in DOMAIN rounds : rounds'[i] = rounds[i]
      /\ \A i \in DOMAIN rounds' : rounds'[i] = Latest \/ i \in DOMAIN rounds
      /\ \A i, j \in DOMAIN rounds' : i < j => rounds'[i] < rounds'[j]
      /\ RoundOf(Latest) \in DOMAIN rounds'
  BY <1>1, <1>2, RoundFacts, Lengths DEF IInv, RoomInv
<1>4. SmallType'
  BY <1>1 DEF IInv, TypeOK, SmallType, Stages, Progress
<1>5. CallType'
  BY <1>1, <1>2 DEF IInv, TypeOK, CallType
<1>6. \A g \in Guests : inv'[g].round \in 0..Len(rounds')
  BY <1>3 DEF IInv, TypeOK
<1>7. TypeOK'
  <2>1. SeqType' /\ RoomType'
    BY <1>1, <1>3, <1>4, <1>5, <1>6 DEF IInv, TypeOK, SeqType, RoomType
  <2> QED
    BY <1>1, <1>3, <1>4, <1>5, <1>6, <2>1, TypedNext
<1>8. RoundsRise' /\ ReplyInv' /\ LatestInv'
  BY <1>1, <1>3 DEF IInv, RoomInv, RoundsRise, ReplyInv, LatestInv
<1>9. ShownInv'
  BY <1>3 DEF IInv, RoomInv, ShownInv
<1>10. WaitingInv' /\ OneOpenResponse'
  BY <1>1, <1>2 DEF WaitingInv, OneOpenResponse
<1>11. ResponseInv' /\ ComparedWithItsRound'
  BY <1>1, <1>3 DEF IInv, RoomInv, ResponseInv, ComparedWithItsRound
<1>12. SharedIsLegal'
  BY <1>1, <1>2, <1>3 DEF IInv, SharedIsLegal
<1>13. AcceptedWasShown'
  <2> SUFFICES ASSUME NEW g \in Guests, inv'[g].accepted # 0
               PROVE  inv'[g].round # 0 /\ inv'[g].accepted = rounds'[inv'[g].round]
    BY DEF AcceptedWasShown
  <2>1. inv'[g] = inv[g]
    OBVIOUS
  <2>2. inv[g].round # 0 /\ inv[g].accepted = rounds[inv[g].round]
    BY <2>1 DEF IInv, AcceptedWasShown
  <2>3. inv[g].round \in DOMAIN rounds
    BY <1>3, <2>2 DEF IInv, TypeOK
  <2> QED
    BY <1>3, <2>1, <2>2, <2>3
<1>14. AgreedFormStands'
  BY <1>1 DEF AgreedFormStands
<1> QED
  BY <1>7, <1>8, <1>9, <1>10, <1>11, <1>12, <1>13, <1>14 DEF IInv, RoomInv

(* The round shown is a number, so what is stored about it is typed. *)
LEMMA RoundNumber ==
  ASSUME IInv, NEW l \in Lawyers, Current(l)
  PROVE  RoundOf(Latest) \in Nat
<1>1. Latest # 0
  BY DEF Current
<1>2. RoundOf(Latest) \in 1..Len(RoundsWith(Latest)) /\ Len(RoundsWith(Latest)) \in Nat
  BY <1>1, RoundFacts DEF IInv, RoomInv
<1> QED
  BY <1>2

LEMMA InviteStep ==
  ASSUME IInv, NEW l \in Lawyers, NEW g \in Guests, NEW grant \in Grants, Invite(l, g, grant)
  PROVE  IInv'
<1> DEFINE n == RoundOf(Latest)
           new == [access |-> grant, round |-> n, accepted |-> 0]
<1>1. Current(l) /\ Shareable /\ Shared(l) /\ inv' = [inv EXCEPT ![g] = new]
  BY DEF Invite
<1>2. n \in Nat
  BY <1>1, RoundNumber
<1>3. new \in Invitation /\ new.round = n /\ new.accepted = 0
  BY <1>2 DEF Invitation, Grants
<1>4. inv' \in [Guests -> Invitation] /\ inv'[g] = new
      /\ \A h \in Guests \ {g} : inv'[h] = inv[h]
  BY <1>1, <1>3 DEF IInv, TypeOK
<1> HIDE DEF new, n
<1>5. \A h \in Guests :
        inv'[h] = inv[h] \/ (inv'[h].round = n /\ inv'[h].accepted = 0)
  BY <1>3, <1>4
<1> QED
  BY <1>1, <1>4, <1>5, SharedStep DEF n

LEMMA ShareStep ==
  ASSUME IInv, NEW l \in Lawyers, Share(l)
  PROVE  IInv'
<1> DEFINE n == RoundOf(Latest)
           moved == {g \in Active : inv[g].round # n}
<1>1. Current(l) /\ Shareable /\ Shared(l)
      /\ inv' = [g \in Guests |-> IF g \in moved THEN MovedTo(inv[g], n) ELSE inv[g]]
  BY DEF Share
<1>2. n \in Nat
  BY <1>1, RoundNumber
<1>3. moved \subseteq Guests
  BY DEF Active
<1>4. \A g \in Guests : MovedTo(inv[g], n) \in Invitation
                        /\ MovedTo(inv[g], n).round = n /\ MovedTo(inv[g], n).accepted = 0
  BY <1>2 DEF IInv, TypeOK, MovedTo, Invitation
<1>5. inv' \in [Guests -> Invitation]
  BY <1>1, <1>4 DEF IInv, TypeOK
<1> HIDE DEF moved, n
<1>6. \A g \in Guests :
        inv'[g] = inv[g] \/ (inv'[g].round = n /\ inv'[g].accepted = 0)
  BY <1>1, <1>4
<1> QED
  BY <1>1, <1>5, <1>6, SharedStep DEF n

-----------------------------------------------------------------------------
(* Guests *)

(* An invitation changes its access only. *)
LEMMA AccessStep ==
  ASSUME IInv, NEW g \in Guests,
         Expire(g) \/ Revoke(g) \/ \E grant \in Grants : Access(g, grant)
  PROVE  IInv'
<1>1. /\ docs' = docs /\ Latest' = Latest /\ rounds' = rounds /\ responses' = responses
      /\ reply' = reply
      /\ clean' = clean /\ comments' = comments /\ routed' = routed /\ stage' = stage
      /\ needsNew' = needsNew /\ agreedDoc' = agreedDoc /\ progress' = progress
      /\ prep' = prep
  BY DEF Latest, Expire, Revoke, Access, contractVars, docVars
<1>2. PICK to \in Grants \cup {"expired", "revoked"} :
        inv' = [inv EXCEPT ![g].access = to] /\ inv[g].access # "none"
  BY DEF Expire, Revoke, Access, Active, Grants
<1>3. /\ inv' \in [Guests -> Invitation]
      /\ inv'[g].access = to /\ inv'[g].round = inv[g].round
      /\ inv'[g].accepted = inv[g].accepted
      /\ \A h \in Guests \ {g} : inv'[h] = inv[h]
  BY <1>2 DEF IInv, TypeOK, Invitation
<1>4. SmallType' /\ CallType'
  BY <1>1 DEF IInv, TypeOK, SmallType, CallType
<1>5. TypeOK'
  <2>1. SeqType' /\ RoomType'
    BY <1>1, <1>3, <1>4 DEF IInv, TypeOK, SeqType, RoomType
  <2> QED
    BY <1>1, <1>3, <1>4, <2>1, TypedNext
<1>6. RoomInv'
  <2>1. ShownInv'
    BY <1>2, <1>3 DEF IInv, RoomInv, ShownInv
  <2> QED
    BY <1>1, <2>1
    DEF IInv, RoomInv, RoundsRise, ResponseInv, WaitingInv, LatestInv, ReplyInv, Open
<1>7. AcceptedWasShown'
  BY <1>1, <1>3 DEF IInv, AcceptedWasShown
<1>8. AgreedFormStands'
  BY <1>1, <1>3 DEF IInv, AgreedFormStands, Open
<1>9. SharedIsLegal' /\ OneOpenResponse' /\ ComparedWithItsRound'
  BY <1>1 DEF IInv, SharedIsLegal, OneOpenResponse, ComparedWithItsRound, Open
<1> QED
  BY <1>5, <1>6, <1>7, <1>8, <1>9 DEF IInv, RoomInv

LEMMA AcceptStep ==
  ASSUME IInv, NEW g \in Guests, Accept(g)
  PROVE  IInv'
<1>1. /\ docs' = docs /\ Latest' = Latest /\ rounds' = rounds /\ responses' = responses
      /\ reply' = reply
      /\ clean' = clean /\ comments' = comments /\ routed' = routed /\ stage' = stage
      /\ needsNew' = needsNew /\ agreedDoc' = agreedDoc
      /\ stage = "negotiation" /\ prep' = [l \in Lawyers |-> 0]
      /\ progress' \in {"agreed-pending", "with-counterparty"}
  BY DEF Latest, Accept, GuestWrite, Bump, docVars
<1>2. /\ inv' = [inv EXCEPT ![g].accepted = Latest] /\ g \in Active
      /\ rounds[inv[g].round] = Latest
  BY DEF Accept, GuestWrite
<1>3. Latest \in Nat
  BY Lengths DEF IInv
<1>4. /\ inv' \in [Guests -> Invitation]
      /\ \A h \in Guests : inv'[h].access = inv[h].access /\ inv'[h].round = inv[h].round
      /\ inv'[g].accepted = Latest
      /\ \A h \in Guests \ {g} : inv'[h] = inv[h]
  BY <1>2, <1>3 DEF IInv, TypeOK, Invitation
<1>5. inv[g].round # 0
  BY <1>2 DEF IInv, RoomInv, ShownInv, Active, Grants
<1>6. SmallType' /\ CallType'
  BY <1>1, <1>3 DEF IInv, TypeOK, SmallType, CallType, Progress
<1>7. TypeOK'
  <2>1. SeqType' /\ RoomType'
    BY <1>1, <1>4, <1>6 DEF IInv, TypeOK, SeqType, RoomType
  <2> QED
    BY <1>1, <1>4, <1>6, <2>1, TypedNext
<1>8. AcceptedWasShown'
  BY <1>1, <1>2, <1>4, <1>5 DEF IInv, AcceptedWasShown
<1>9. RoomInv'
  BY <1>1, <1>4
  DEF IInv, RoomInv, RoundsRise, ShownInv, ResponseInv, WaitingInv, LatestInv, ReplyInv, Open
<1>10. SharedIsLegal' /\ OneOpenResponse' /\ ComparedWithItsRound' /\ AgreedFormStands'
  BY <1>1
  DEF IInv, SharedIsLegal, OneOpenResponse, ComparedWithItsRound, AgreedFormStands, Open
<1> QED
  BY <1>7, <1>8, <1>9, <1>10 DEF IInv

(* A response to the newest document becomes the newest document; that no other
   waits follows from the round it answers. *)
LEMMA RespondStep ==
  ASSUME IInv, NEW g \in Guests, Respond(g)
  PROVE  IInv'
<1> DEFINE new == [guest |-> g, round |-> inv[g].round, doc |-> Latest + 1,
                   base |-> reply[g].base, state |-> "received", answer |-> 0]
<1>1. /\ Record(g) /\ rounds' = rounds /\ inv' = inv /\ stage' = stage
      /\ stage = "negotiation" /\ agreedDoc' = agreedDoc /\ routed' = routed
      /\ comments' = comments /\ clean' = TRUE /\ progress' = "changes-received"
      /\ responses' = responses \cup {new}
      /\ reply' = [reply EXCEPT ![g] = NoReply] /\ prep' = [l \in Lawyers |-> 0]
  BY DEF Respond, GuestWrite, Bump
<1>2. /\ g \in Active /\ rounds[inv[g].round] = Latest /\ reply[g].doc = Latest
  BY DEF Respond, GuestWrite, StillLatest
<1>3. /\ Latest' = Latest + 1 /\ docs'[Latest'] = g
      /\ \A i \in 1..Latest : docs'[i] = docs[i]
      /\ docs' \in Seq(Authors) /\ rounds' \in Seq(1..Latest')
  BY <1>1, RecordFacts DEF IInv, TypeOK, Authors
<1>4. /\ Latest \in Nat /\ Len(rounds) \in Nat /\ DOMAIN rounds = 1..Len(rounds)
      /\ \A n \in DOMAIN rounds : rounds[n] \in 1..Latest
  BY Lengths DEF IInv
<1>5. inv[g].round \in DOMAIN rounds
  <2>1. inv[g].round # 0
    BY <1>2 DEF IInv, RoomInv, ShownInv, Active, Grants
  <2> QED
    BY <1>4, <2>1 DEF IInv, TypeOK
<1>6. reply[g].base = Latest
  <2>1. reply[g].doc <= reply[g].base /\ reply[g].base <= Latest /\ reply[g].base \in Nat
    BY DEF IInv, RoomInv, ReplyInv, TypeOK
  <2> QED
    BY <1>2, <1>4, <2>1
<1>7. Open(responses) = {}
  <2> SUFFICES ASSUME NEW r \in Open(responses) PROVE FALSE
    OBVIOUS
  <2>1. Latest < r.doc /\ r.doc <= Latest /\ r.doc \in Nat
    BY <1>2, <1>5 DEF IInv, RoomInv, WaitingInv, ResponseInv, Open, TypeOK, Response
  <2> QED
    BY <1>4, <2>1
<1>8. /\ new \in Response /\ new.round = inv[g].round /\ new.doc = Latest + 1
      /\ new.base = Latest /\ new.state = "received"
  BY <1>4, <1>5, <1>6 DEF Response
<1> HIDE DEF new
<1>9. Open(responses') = {new}
  BY <1>1, <1>7, <1>8 DEF Open
<1>10. needsNew' = FALSE
  BY <1>1 DEF Record
<1>11. SmallType'
  BY <1>1, <1>10 DEF IInv, TypeOK, SmallType, Progress
<1>12. /\ reply' \in [Guests -> [doc: Nat, base: Nat]]
       /\ reply'[g].doc = 0 /\ reply'[g].base = 0
       /\ \A h \in Guests \ {g} : reply'[h] = reply[h]
  BY <1>1 DEF IInv, TypeOK, NoReply
<1>13. CallType'
  BY <1>1, <1>3, <1>4, <1>12 DEF CallType
<1>14. responses' \in SUBSET Response
  BY <1>1, <1>8 DEF IInv, TypeOK
<1>15. TypeOK'
  <2>1. SeqType' /\ RoomType'
    BY <1>1, <1>3, <1>11, <1>13, <1>14 DEF IInv, TypeOK, SeqType, RoomType
  <2> QED
    BY <1>1, <1>3, <1>11, <1>13, <1>14, <2>1, TypedNext
<1>16. RoundsRise' /\ ShownInv'
  BY <1>1 DEF IInv, RoomInv, RoundsRise, ShownInv
<1>17. ResponseInv'
  <2>1. ASSUME NEW r \in responses
        PROVE  r.round \in DOMAIN rounds /\ r.doc <= Latest + 1 /\ rounds[r.round] < r.doc
    <3>1. r.doc \in Nat
      BY DEF IInv, TypeOK, Response
    <3>2. r.round \in DOMAIN rounds /\ r.doc <= Latest /\ rounds[r.round] < r.doc
      BY DEF IInv, RoomInv, ResponseInv
    <3> QED
      BY <1>4, <3>1, <3>2
  <2>2. new.round \in DOMAIN rounds /\ new.doc <= Latest + 1 /\ rounds[new.round] < new.doc
    <3>1. new.round = inv[g].round /\ new.doc = Latest + 1 /\ rounds[inv[g].round] = Latest
      BY <1>2, <1>8
    <3> QED
      BY <1>4, <1>5, <3>1
  <2>3. rounds' = rounds /\ responses' = responses \cup {new} /\ Latest' = Latest + 1
    BY <1>1, <1>3
  <2> QED
    BY <2>1, <2>2, <2>3 DEF ResponseInv
<1>18. WaitingInv' /\ OneOpenResponse'
  <2>1. \A n \in DOMAIN rounds' : rounds'[n] \in 1..Latest
    BY <1>1, <1>4
  <2>2. \A n \in DOMAIN rounds' : rounds'[n] < new.doc
    BY <1>4, <1>8, <2>1
  <2> QED
    BY <1>9, <2>2 DEF WaitingInv, OneOpenResponse
<1>19. LatestInv'
  BY <1>3, <1>8, <1>9 DEF LatestInv
<1>20. ReplyInv'
  <2> SUFFICES ASSUME NEW h \in Guests
               PROVE  reply'[h].doc <= reply'[h].base /\ reply'[h].base <= Latest'
    BY DEF ReplyInv
  <2>1. CASE h = g
    BY <1>3, <1>4, <1>12, <2>1
  <2>2. CASE h # g
    <3>1. reply'[h] = reply[h] /\ reply[h].base \in Nat
      BY <1>12, <2>2 DEF IInv, TypeOK
    <3>2. reply[h].doc <= reply[h].base /\ reply[h].base <= Latest
      BY DEF IInv, RoomInv, ReplyInv
    <3> QED
      BY <1>3, <1>4, <3>1, <3>2
  <2> QED
    BY <2>1, <2>2
<1>21. SharedIsLegal'
  BY <1>1, <1>3, <1>4 DEF IInv, SharedIsLegal
<1>22. ComparedWithItsRound'
  BY <1>1, <1>2, <1>8 DEF IInv, ComparedWithItsRound
<1>23. AcceptedWasShown'
  BY <1>1 DEF IInv, AcceptedWasShown
<1>24. AgreedFormStands'
  BY <1>1 DEF AgreedFormStands
<1> QED
  BY <1>15, <1>16, <1>17, <1>18, <1>19, <1>20, <1>21, <1>22, <1>23, <1>24 DEF IInv, RoomInv

-----------------------------------------------------------------------------
(* The theorems *)

LEMMA NextInv == IInv /\ [Next]_vars => IInv'
<1> SUFFICES ASSUME IInv, [Next]_vars PROVE IInv'
  OBVIOUS
<1>1. CASE Upload \/ \E share \in BOOLEAN : SaveDraft(share)
  BY <1>1, SaveStep
<1>2. CASE \/ \E to \in {"drafting", "review"} : Transition(to)
           \/ \E outcome \in {"signature", "review"} : Approval(outcome)
           \/ Revise
  BY <1>2, ContractStep
<1>3. ASSUME NEW r \in responses, Review(r) PROVE IInv'
  BY <1>3, ReviewStep
<1>4. ASSUME NEW l \in Lawyers, LawyerSteps(l) PROVE IInv'
  <2>1. CASE Begin(l) \/ Abort(l)
    BY <2>1, WaitStep
  <2>2. CASE Share(l) \/ Agree(l)
    BY <2>2, ShareStep, AgreeStep
  <2>3. CASE \E g \in Guests, grant \in Grants : Invite(l, g, grant)
    BY <2>3, InviteStep
  <2> QED
    BY <1>4, <2>1, <2>2, <2>3 DEF LawyerSteps
<1>5. ASSUME NEW g \in Guests, GuestSteps(g) PROVE IInv'
  <2>1. CASE RespondRead(g) \/ RespondAbort(g)
    BY <2>1, WaitStep
  <2>2. CASE Respond(g) \/ Accept(g)
    BY <2>2, RespondStep, AcceptStep
  <2>3. CASE \E c \in Comments : GuestComment(g, c)
    BY <2>3, CommentStep
  <2>4. CASE Expire(g) \/ Revoke(g) \/ \E grant \in Grants : Access(g, grant)
    BY <2>4, AccessStep
  <2> QED
    BY <1>5, <2>1, <2>2, <2>3, <2>4 DEF GuestSteps
<1>6. ASSUME NEW c \in Comments, CommentSteps(c) PROVE IInv'
  BY <1>6, CommentStep
<1>7. CASE UNCHANGED vars
  <2>1. /\ UNCHANGED <<stage, needsNew, agreedDoc, progress, routed, docs, clean, rounds, inv>>
        /\ UNCHANGED <<responses, comments, prep, reply>> /\ Latest' = Latest
    BY <1>7 DEF Latest, vars, contractVars, docVars, roomVars
  <2>2. SmallType' /\ CallType' /\ ReplyInv'
    BY <2>1 DEF IInv, TypeOK, SmallType, CallType, RoomInv, ReplyInv
  <2> QED
    BY <2>1, <2>2, QuietStep
<1> QED
  BY <1>1, <1>2, <1>3, <1>4, <1>5, <1>6, <1>7 DEF Next

LEMMA Inductive == Spec => []IInv
  BY InitInv, NextInv, PTL DEF Spec

(* The contract, its documents, the room and the requests in flight keep their types. *)
THEOREM TypeCorrect == Spec => []TypeOK
<1>1. IInv => TypeOK
  BY DEF IInv
<1> QED
  BY <1>1, Inductive, PTL

(* No guest is ever shown another counterparty's proposal as Legal's version. *)
THEOREM OnlyLegalIsShared == Spec => []SharedIsLegal
<1>1. IInv => SharedIsLegal
  BY DEF IInv
<1> QED
  BY <1>1, Inductive, PTL

(* Every acceptance on record is of the version its guest is shown. *)
THEOREM AcceptancesAreOfTheShown == Spec => []AcceptedWasShown
<1>1. IInv => AcceptedWasShown
  BY DEF IInv
<1> QED
  BY <1>1, Inductive, PTL

(* The agreed form was shared, accepted and never objected to, and stands. *)
THEOREM AgreedFormIsAccepted == Spec => []AgreedFormStands
<1>1. IInv => AgreedFormStands
  BY DEF IInv
<1> QED
  BY <1>1, Inductive, PTL

(* However many guests answer at once, one response waits for Legal. *)
THEOREM ResponsesTakeTurns == Spec => []OneOpenResponse
<1>1. IInv => OneOpenResponse
  BY DEF IInv
<1> QED
  BY <1>1, Inductive, PTL

(* A response is compared with what its guest was shown. *)
THEOREM ComparisonsAreFair == Spec => []ComparedWithItsRound
<1>1. IInv => ComparedWithItsRound
  BY DEF IInv
<1> QED
  BY <1>1, Inductive, PTL
=============================================================================
