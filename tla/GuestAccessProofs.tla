-------------------------- MODULE GuestAccessProofs --------------------------
(***************************************************************************)
(* The safety of a guest's access for any number of requests for a code,   *)
(* downloads, attempts and changes of the grants.  A session is only as    *)
(* good as the code that opened it, so the invariant follows the version   *)
(* of the grants from the request into the code on record, and the mail's  *)
(* acceptance from the provider's answer into the row.                     *)
(***************************************************************************)
EXTENDS GuestAccess, TLAPS

InvType == [access: Access, version: Nat, round: Nat, viewed: BOOLEAN,
            download: BOOLEAN, copy: BOOLEAN]
OtpType == [challenge: Challenges \cup {None}, tries: 0..MaxAttempts,
            delivery: Deliveries, valid: BOOLEAN, recent: BOOLEAN]
CallType == [step: {"new", "mailing", "delivered", "undelivered", "done"}, version: Nat]
ReaderType == [step: {"idle", "reading", "served"}, by: Challenges \cup {None}, kind: Kinds,
               version: Nat, round: Nat, cut: BOOLEAN]

(* The code on record was requested under the grants of now. *)
CodeInv == otp.challenge # None => call[otp.challenge].version = inv.version

(* A request that heard of its delivery was delivered. *)
MailedInv == \A c \in Challenges : call[c].step = "delivered" => c \in mailed

(* A download that was cut into can tell: the grants or the round have moved on,
   or the invitation has expired and only new grants can bring it back. *)
ReadInv ==
  \A r \in Readers : reader[r].step = "reading" =>
    /\ reader[r].version <= inv.version
    /\ reader[r].round <= inv.round
    /\ reader[r].cut =>
         \/ inv.access # "active"
         \/ reader[r].version # inv.version
         \/ reader[r].kind = "draft" /\ reader[r].round # inv.round

IInv ==
  /\ TypeOK /\ SessionsFollowGrants /\ ConfirmedCodes
  /\ CodeInv /\ MailedInv /\ ReadInv

LEMMA Typed ==
  TypeOK <=> /\ inv \in InvType /\ otp \in OtpType /\ executed \in BOOLEAN
             /\ call \in [Challenges -> CallType]
             /\ mailed \in SUBSET Challenges /\ sessions \in SUBSET Session
             /\ reader \in [Readers -> ReaderType]
  BY DEF TypeOK, InvType, OtpType, CallType, ReaderType

LEMMA InitInv == Init => IInv
<1> SUFFICES ASSUME Init PROVE IInv
  OBVIOUS
<1>1. inv \in InvType
  BY DEF Init, InvType, Access
<1>2. otp \in OtpType /\ otp.challenge = None
  BY GuestAssumption DEF Init, OtpType, NoCode, Deliveries
<1>3. call \in [Challenges -> CallType] /\ \A c \in Challenges : call[c].step = "new"
  BY DEF Init, CallType
<1>4. reader \in [Readers -> ReaderType] /\ \A r \in Readers : reader[r].step = "idle"
  BY DEF Init, ReaderType, Idle, Kinds
<1>5. TypeOK
  BY <1>1, <1>2, <1>3, <1>4, Typed DEF Init
<1> QED
  BY <1>2, <1>3, <1>4, <1>5
  DEF Init, IInv, SessionsFollowGrants, ConfirmedCodes, CodeInv, MailedInv, ReadInv

-----------------------------------------------------------------------------
(* Codes: neither the grants nor the downloads move *)

LEMMA ChallengeStep ==
  ASSUME IInv, NEW c \in Challenges, Challenge(c)
  PROVE  IInv'
<1>1. /\ inv' = inv /\ executed' = executed /\ mailed' = mailed
      /\ sessions' = sessions /\ reader' = reader
  BY DEF Challenge
<1>2. otp' \in OtpType /\ otp'.challenge = c /\ otp'.delivery = "sending"
  BY GuestAssumption DEF Challenge, OtpType, Deliveries
<1>3. inv.version \in Nat
  BY DEF IInv, TypeOK
<1>4. /\ call' \in [Challenges -> CallType]
      /\ call'[c].step = "mailing" /\ call'[c].version = inv.version
      /\ \A d \in Challenges \ {c} : call'[d] = call[d]
  BY <1>3 DEF Challenge, IInv, TypeOK, CallType
<1>5. TypeOK'
  BY <1>1, <1>2, <1>4, Typed DEF IInv, TypeOK, OtpType, CallType
<1>6. MailedInv'
  BY <1>1, <1>4 DEF IInv, MailedInv
<1> QED
  BY <1>1, <1>2, <1>4, <1>5, <1>6
  DEF IInv, SessionsFollowGrants, ConfirmedCodes, CodeInv, ReadInv

(* What happens to a mail: the row may learn of it, and then it was accepted. *)
LEMMA MailStep ==
  ASSUME IInv, NEW c \in Challenges,
         \/ \E taken, known \in BOOLEAN : MailAnswered(c, taken, known)
         \/ ChallengeDone(c) \/ ChallengeDies(c)
  PROVE  IInv'
<1>1. inv' = inv /\ executed' = executed /\ sessions' = sessions /\ reader' = reader
  BY DEF MailAnswered, ChallengeDone, ChallengeDies
<1>2. mailed \subseteq mailed' /\ mailed' \subseteq Challenges
  BY DEF MailAnswered, ChallengeDone, ChallengeDies, IInv, TypeOK
<1>3. /\ call' \in [Challenges -> CallType]
      /\ \A d \in Challenges : call'[d].version = call[d].version
      /\ \A d \in Challenges \ {c} : call'[d].step = call[d].step
      /\ call'[c].step = "delivered" => c \in mailed'
  <2>1. ASSUME NEW taken \in BOOLEAN, NEW known \in BOOLEAN, MailAnswered(c, taken, known)
        PROVE  <1>3
    <3>1. PICK step \in {"delivered", "undelivered"} :
            call' = [call EXCEPT ![c].step = step] /\ (step = "delivered" => taken)
      BY <2>1 DEF MailAnswered
    <3>2. taken => c \in mailed'
      BY <2>1 DEF MailAnswered
    <3> QED
      BY <3>1, <3>2 DEF IInv, TypeOK, CallType
  <2>2. CASE ChallengeDone(c) \/ ChallengeDies(c)
    <3>1. call' = [call EXCEPT ![c].step = "done"]
      BY <2>2 DEF ChallengeDone, ChallengeDies
    <3> QED
      BY <3>1 DEF IInv, TypeOK, CallType
  <2> QED
    BY <2>1, <2>2
<1>4. /\ otp' \in OtpType /\ otp'.challenge = otp.challenge
      /\ otp'.delivery = "sent" =>
           otp.delivery = "sent" \/ (otp.challenge = c /\ call[c].step = "delivered")
  <2>1. otp \in OtpType
    BY Typed DEF IInv
  <2>2. CASE otp' = otp
    BY <2>1, <2>2
  <2>3. CASE ChallengeDone(c) /\ otp' # otp
    <3>1. PICK delivery \in {"sent", "unconfirmed"} :
            /\ otp' = [otp EXCEPT !.delivery = delivery]
            /\ delivery = "sent" => call[c].step = "delivered"
      BY <2>3 DEF ChallengeDone
    <3>2. otp.challenge = c
      BY <2>3 DEF ChallengeDone, OwnCode
    <3>3. otp' \in OtpType /\ otp'.challenge = otp.challenge /\ otp'.delivery = delivery
      BY <2>1, <3>1 DEF OtpType, Deliveries
    <3> QED
      BY <3>1, <3>2, <3>3
  <2> QED
    BY <2>2, <2>3 DEF MailAnswered, ChallengeDies
<1>5. TypeOK'
  BY <1>1, <1>2, <1>3, <1>4, Typed DEF IInv, TypeOK, OtpType, CallType
<1>6. MailedInv'
  BY <1>2, <1>3 DEF IInv, MailedInv
<1>7. CodeInv'
  BY <1>1, <1>3, <1>4 DEF IInv, CodeInv, TypeOK
<1>8. ConfirmedCodes'
  BY <1>1, <1>2, <1>4 DEF IInv, ConfirmedCodes, MailedInv
<1> QED
  BY <1>1, <1>5, <1>6, <1>7, <1>8 DEF IInv, SessionsFollowGrants, ReadInv

(* A wrong code, a minute and the end of a code only weaken what is on record. *)
LEMMA CodeStep ==
  ASSUME IInv, (\E c \in Challenges : WrongCode(c)) \/ MinutePasses \/ CodeExpires
  PROVE  IInv'
<1>1. /\ inv' = inv /\ executed' = executed /\ call' = call /\ mailed' = mailed
      /\ sessions' = sessions /\ reader' = reader
  BY DEF WrongCode, MinutePasses, CodeExpires
<1>2. otp \in OtpType
  BY Typed DEF IInv
<1>3. /\ otp' \in OtpType
      /\ otp'.challenge = otp.challenge /\ otp'.delivery = otp.delivery
  <2>1. CASE \E c \in Challenges : WrongCode(c)
    <3>1. otp.tries < MaxAttempts /\ otp.tries \in 0..MaxAttempts
      BY <1>2, <2>1 DEF WrongCode, Verifiable, MayTry, OtpType
    <3>2. otp.tries + 1 \in 0..MaxAttempts
      BY <3>1, GuestAssumption
    <3> QED
      BY <1>2, <2>1, <3>2 DEF WrongCode, OtpType
  <2>2. CASE MinutePasses \/ CodeExpires
    BY <1>2, <2>2 DEF MinutePasses, CodeExpires, OtpType
  <2> QED
    BY <2>1, <2>2
<1>4. TypeOK'
  BY <1>1, <1>3, Typed DEF IInv, TypeOK, OtpType
<1> QED
  BY <1>1, <1>3, <1>4
  DEF IInv, SessionsFollowGrants, ConfirmedCodes, CodeInv, MailedInv, ReadInv

(* A session is opened with the code on record, under the grants of its request. *)
LEMMA RightCodeStep ==
  ASSUME IInv, NEW c \in Challenges, RightCode(c)
  PROVE  IInv'
<1>1. /\ inv' = inv /\ executed' = executed /\ call' = call /\ mailed' = mailed
      /\ reader' = reader
      /\ sessions' = sessions \cup {[by |-> c, version |-> call[c].version]}
  BY DEF RightCode
<1>2. inv.access = "active" /\ otp.challenge = c /\ otp.delivery = "sent" /\ MayTry
  BY DEF RightCode, Verifiable
<1>3. c # None /\ call[c].version = inv.version /\ c \in mailed
  BY <1>2, GuestAssumption DEF IInv, CodeInv, ConfirmedCodes
<1>4. otp' \in OtpType /\ otp'.challenge = None
  <2>1. otp \in OtpType
    BY Typed DEF IInv
  <2>2. otp.tries + 1 \in 0..MaxAttempts
    BY <1>2, <2>1, GuestAssumption DEF MayTry, OtpType
  <2> QED
    BY <2>1, <2>2 DEF RightCode, OtpType, NoCode, Deliveries
<1>5. call[c].version \in Nat
  BY DEF IInv, TypeOK
<1>6. sessions' \in SUBSET Session
  BY <1>1, <1>5 DEF IInv, TypeOK, Session
<1>7. TypeOK'
  BY <1>1, <1>4, <1>6, Typed DEF IInv, TypeOK, OtpType
<1>8. SessionsFollowGrants'
  BY <1>1, <1>2, <1>3 DEF IInv, SessionsFollowGrants
<1>9. ConfirmedCodes'
  BY <1>1, <1>3, <1>4 DEF IInv, ConfirmedCodes
<1> QED
  BY <1>1, <1>4, <1>7, <1>8, <1>9 DEF IInv, CodeInv, MailedInv, ReadInv

-----------------------------------------------------------------------------
(* Grants *)

(* A download under way is marked; nothing else of it changes. *)
LEMMA CutFacts ==
  ASSUME IInv, NEW kinds \in SUBSET Kinds
  PROVE  /\ Cut(kinds) \in [Readers -> ReaderType]
         /\ \A r \in Readers :
              /\ Cut(kinds)[r].step = reader[r].step
              /\ Cut(kinds)[r].kind = reader[r].kind
              /\ Cut(kinds)[r].version = reader[r].version
              /\ Cut(kinds)[r].round = reader[r].round
              /\ Cut(kinds)[r].cut => reader[r].cut \/ reader[r].kind \in kinds
<1> SUFFICES ASSUME NEW r \in Readers
             PROVE  /\ Cut(kinds)[r] \in ReaderType
                    /\ Cut(kinds)[r].step = reader[r].step
                    /\ Cut(kinds)[r].kind = reader[r].kind
                    /\ Cut(kinds)[r].version = reader[r].version
                    /\ Cut(kinds)[r].round = reader[r].round
                    /\ Cut(kinds)[r].cut => reader[r].cut \/ reader[r].kind \in kinds
  BY DEF Cut
<1>1. reader[r] \in ReaderType
  BY Typed DEF IInv
<1>2. PICK b \in BOOLEAN :
        /\ b <=> reader[r].cut \/ (reader[r].step = "reading" /\ reader[r].kind \in kinds)
        /\ Cut(kinds)[r] = [reader[r] EXCEPT !.cut = b]
  <2> DEFINE b == reader[r].cut \/ (reader[r].step = "reading" /\ reader[r].kind \in kinds)
  <2>1. b \in BOOLEAN
    OBVIOUS
  <2>2. Cut(kinds)[r] = [reader[r] EXCEPT !.cut = b]
    BY DEF Cut
  <2> HIDE DEF b
  <2>3. \E x \in BOOLEAN : x = b
    BY <2>1
  <2> QED
    BY <2>1, <2>2 DEF b
<1> QED
  BY <1>1, <1>2 DEF ReaderType

(* New grants, a revocation and an expiry end every session at once. *)
LEMMA GrantStep ==
  ASSUME IInv,
         \/ \E download, copy \in BOOLEAN : ChangeAccess(download, copy)
         \/ Revoke \/ InvitationExpires
  PROVE  IInv'
<1>1. /\ executed' = executed /\ call' = call /\ mailed' = mailed
      /\ sessions' = {} /\ reader' = Cut(Kinds)
  BY DEF ChangeAccess, Revoke, InvitationExpires
<1>2. inv \in InvType /\ otp \in OtpType
  BY Typed DEF IInv
<1>3. /\ inv' \in InvType /\ inv'.round = inv.round
      /\ \/ inv'.version = inv.version + 1 /\ otp'.challenge = None
         \/ inv'.version = inv.version /\ otp' = otp /\ inv'.access # "active"
      /\ otp' \in OtpType
  <2>1. CodeWithdrawn \in OtpType /\ CodeWithdrawn.challenge = None
    BY <1>2 DEF OtpType, CodeWithdrawn
  <2> DEFINE v == inv.version + 1
  <2>5. v \in Nat
    BY <1>2 DEF InvType
  <2> HIDE DEF v
  <2>2. ASSUME NEW download \in BOOLEAN, NEW copy \in BOOLEAN, ChangeAccess(download, copy)
        PROVE  <1>3
    <3>1. /\ inv' = [inv EXCEPT !.access = "active", !.version = v,
                                !.download = download, !.copy = copy]
          /\ otp' = CodeWithdrawn
      BY <2>2 DEF ChangeAccess, v
    <3>2. inv' \in InvType /\ inv'.round = inv.round /\ inv'.version = v
      BY <1>2, <2>5, <3>1 DEF InvType, Access
    <3> QED
      BY <2>1, <3>1, <3>2 DEF v
  <2>3. CASE Revoke
    <3>1. /\ inv' = [inv EXCEPT !.access = "revoked", !.version = v, !.copy = FALSE]
          /\ otp' = CodeWithdrawn
      BY <2>3 DEF Revoke, v
    <3>2. inv' \in InvType /\ inv'.round = inv.round /\ inv'.version = v
      BY <1>2, <2>5, <3>1 DEF InvType, Access
    <3> QED
      BY <2>1, <3>1, <3>2 DEF v
  <2>4. CASE InvitationExpires
    BY <1>2, <2>4 DEF InvitationExpires, InvType, Access
  <2> QED
    BY <2>2, <2>3, <2>4
<1>4. inv.version \in Nat
  BY <1>2 DEF InvType
<1>5. TypeOK'
  BY <1>1, <1>3, CutFacts, Typed DEF IInv, TypeOK, InvType, OtpType, ReaderType
<1>6. ReadInv'
  <2> SUFFICES ASSUME NEW r \in Readers, reader'[r].step = "reading"
               PROVE  /\ reader'[r].version <= inv'.version
                      /\ reader'[r].round <= inv'.round
                      /\ reader'[r].cut =>
                           \/ inv'.access # "active"
                           \/ reader'[r].version # inv'.version
    BY DEF ReadInv
  <2>1. /\ reader[r].step = "reading"
        /\ reader'[r].version = reader[r].version /\ reader'[r].round = reader[r].round
    BY <1>1, CutFacts
  <2>2. /\ reader[r].version <= inv.version /\ reader[r].round <= inv.round
        /\ reader[r].version \in Nat
    BY <2>1 DEF IInv, ReadInv, TypeOK
  <2> QED
    BY <1>3, <1>4, <2>1, <2>2
<1>7. CodeInv'
  BY <1>1, <1>3 DEF IInv, CodeInv
<1>8. ConfirmedCodes'
  BY <1>1, <1>3 DEF IInv, ConfirmedCodes
<1> QED
  BY <1>1, <1>5, <1>6, <1>7, <1>8 DEF IInv, SessionsFollowGrants, MailedInv

LEMMA ShareStep ==
  ASSUME IInv, Share
  PROVE  IInv'
<1>1. /\ otp' = otp /\ executed' = executed /\ call' = call /\ mailed' = mailed
      /\ sessions' = sessions /\ reader' = Cut({"draft"})
  BY DEF Share
<1>2. inv \in InvType
  BY Typed DEF IInv
<1>3. /\ inv' \in InvType /\ inv'.access = inv.access /\ inv'.version = inv.version
      /\ inv'.round = inv.round + 1 /\ inv.round \in Nat
  <2> DEFINE n == inv.round + 1
  <2>1. inv.round \in Nat /\ n \in Nat
    BY <1>2 DEF InvType
  <2>2. inv' = [inv EXCEPT !.round = n, !.viewed = FALSE]
    BY DEF Share
  <2> HIDE DEF n
  <2>3. /\ inv' \in InvType /\ inv'.access = inv.access /\ inv'.version = inv.version
        /\ inv'.round = n
    BY <1>2, <2>1, <2>2 DEF InvType
  <2> QED
    BY <2>1, <2>3 DEF n
<1>4. {"draft"} \in SUBSET Kinds
  BY DEF Kinds
<1>5. TypeOK'
  BY <1>1, <1>3, <1>4, CutFacts, Typed DEF IInv, TypeOK, InvType, ReaderType
<1>6. ReadInv'
  <2> SUFFICES ASSUME NEW r \in Readers, reader'[r].step = "reading"
               PROVE  /\ reader'[r].version <= inv'.version
                      /\ reader'[r].round <= inv'.round
                      /\ reader'[r].cut =>
                           \/ inv'.access # "active"
                           \/ reader'[r].version # inv'.version
                           \/ reader'[r].kind = "draft" /\ reader'[r].round # inv'.round
    BY DEF ReadInv
  <2>1. /\ reader[r].step = "reading"
        /\ reader'[r].version = reader[r].version /\ reader'[r].round = reader[r].round
        /\ reader'[r].kind = reader[r].kind
        /\ reader'[r].cut => reader[r].cut \/ reader[r].kind = "draft"
    BY <1>1, <1>4, CutFacts
  <2>2. reader[r].round \in Nat
    BY DEF IInv, TypeOK
  <2> QED
    BY <1>3, <2>1, <2>2 DEF IInv, ReadInv
<1> QED
  BY <1>1, <1>3, <1>5, <1>6 DEF IInv, SessionsFollowGrants, ConfirmedCodes, CodeInv, MailedInv

-----------------------------------------------------------------------------
(* The room *)

LEMMA QuietStep ==
  ASSUME IInv, (\E s \in sessions : SessionEnds(s) \/ Room(s)) \/ File
  PROVE  IInv'
<1>1. /\ otp' = otp /\ call' = call /\ mailed' = mailed /\ reader' = reader
      /\ sessions' \subseteq sessions /\ executed' \in BOOLEAN
  BY DEF SessionEnds, Room, File, IInv, TypeOK
<1>2. inv \in InvType
  BY Typed DEF IInv
<1>3. /\ inv' \in InvType /\ inv'.access = inv.access /\ inv'.version = inv.version
      /\ inv'.round = inv.round
  BY <1>2 DEF SessionEnds, Room, File, InvType
<1>4. TypeOK'
  BY <1>1, <1>3, Typed DEF IInv, TypeOK, InvType
<1> QED
  BY <1>1, <1>3, <1>4
  DEF IInv, SessionsFollowGrants, ConfirmedCodes, CodeInv, MailedInv, ReadInv

LEMMA DownloadStep ==
  ASSUME IInv, NEW r \in Readers,
         \/ Serve(r) \/ DownloadOver(r)
         \/ \E s \in sessions, kind \in Kinds : DownloadBegin(r, s, kind)
  PROVE  IInv'
<1>1. /\ inv' = inv /\ otp' = otp /\ executed' = executed /\ call' = call
      /\ mailed' = mailed /\ sessions' = sessions
  BY DEF Serve, DownloadOver, DownloadBegin
<1>2. reader \in [Readers -> ReaderType] /\ inv \in InvType
  BY Typed DEF IInv
<1>3. /\ reader' \in [Readers -> ReaderType]
      /\ \A t \in Readers \ {r} : reader'[t] = reader[t]
      /\ reader'[r].step = "reading" =>
           /\ reader'[r].version = inv.version /\ reader'[r].round = inv.round
           /\ reader'[r].cut = FALSE
  <2>1. CASE Serve(r)
    <3>1. reader' = [reader EXCEPT ![r].step = "served"]
      BY <2>1 DEF Serve
    <3>2. reader' \in [Readers -> ReaderType] /\ reader'[r].step = "served"
      BY <1>2, <3>1 DEF ReaderType
    <3> QED
      BY <1>2, <3>1, <3>2
  <2>2. CASE DownloadOver(r)
    <3>1. Idle \in ReaderType /\ Idle.step = "idle"
      BY DEF Idle, ReaderType, Kinds
    <3>2. reader' = [reader EXCEPT ![r] = Idle]
      BY <2>2 DEF DownloadOver
    <3> QED
      BY <1>2, <3>1, <3>2
  <2>3. ASSUME NEW s \in sessions, NEW kind \in Kinds, DownloadBegin(r, s, kind) PROVE <1>3
    <3> DEFINE new == [step |-> "reading", by |-> s.by, kind |-> kind,
                       version |-> inv.version, round |-> inv.round, cut |-> FALSE]
    <3>1. s.by \in Challenges /\ inv.version \in Nat /\ inv.round \in Nat
      BY <1>2 DEF InvType, IInv, TypeOK, Session
    <3>2. new \in ReaderType
      BY <3>1 DEF ReaderType
    <3>3. reader' = [reader EXCEPT ![r] = new]
      BY <2>3 DEF DownloadBegin
    <3> QED
      BY <1>2, <3>2, <3>3
  <2> QED
    BY <2>1, <2>2, <2>3
<1>4. TypeOK'
  BY <1>1, <1>3, Typed DEF IInv, TypeOK, ReaderType
<1>5. ReadInv'
  <2>1. inv.version \in Nat /\ inv.round \in Nat
    BY <1>2 DEF InvType
  <2> QED
    BY <1>1, <1>3, <2>1 DEF IInv, ReadInv
<1> QED
  BY <1>1, <1>4, <1>5 DEF IInv, SessionsFollowGrants, ConfirmedCodes, CodeInv, MailedInv

-----------------------------------------------------------------------------
(* The theorems *)

LEMMA NextInv == IInv /\ [Next]_vars => IInv'
<1> SUFFICES ASSUME IInv, [Next]_vars PROVE IInv'
  OBVIOUS
<1>1. ASSUME NEW c \in Challenges,
             \/ Challenge(c) \/ ChallengeDone(c) \/ ChallengeDies(c) \/ WrongCode(c)
             \/ RightCode(c)
             \/ \E taken, known \in BOOLEAN : MailAnswered(c, taken, known)
      PROVE  IInv'
  BY <1>1, ChallengeStep, MailStep, CodeStep, RightCodeStep
<1>2. CASE MinutePasses \/ CodeExpires
  BY <1>2, CodeStep
<1>3. CASE \/ \E download, copy \in BOOLEAN : ChangeAccess(download, copy)
           \/ Revoke \/ InvitationExpires
  BY <1>3, GrantStep
<1>4. CASE Share
  BY <1>4, ShareStep
<1>5. CASE (\E s \in sessions : SessionEnds(s) \/ Room(s)) \/ File
  BY <1>5, QuietStep
<1>6. ASSUME NEW r \in Readers,
             \/ Serve(r) \/ DownloadOver(r)
             \/ \E s \in sessions, kind \in Kinds : DownloadBegin(r, s, kind)
      PROVE  IInv'
  BY <1>6, DownloadStep
<1>7. CASE UNCHANGED vars
  BY <1>7 DEF vars, IInv, TypeOK, SessionsFollowGrants, ConfirmedCodes, CodeInv, MailedInv,
              ReadInv
<1> QED
  BY <1>1, <1>2, <1>3, <1>4, <1>5, <1>6, <1>7 DEF Next

LEMMA Inductive == Spec => []IInv
  BY InitInv, NextInv, PTL DEF Spec

(* The invitation, its code, the requests and the downloads keep their types, and
   no code is ever tried more often than MaxAttempts. *)
THEOREM TypeCorrect == Spec => []TypeOK
<1>1. IInv => TypeOK
  BY DEF IInv
<1> QED
  BY <1>1, Inductive, PTL

(* No session outlives the grants its code was requested under. *)
THEOREM SessionsAreCurrent == Spec => []SessionsFollowGrants
<1>1. IInv => SessionsFollowGrants
  BY DEF IInv
<1> QED
  BY <1>1, Inductive, PTL

(* A code that counts as sent, and every session, stands for an accepted mail. *)
THEOREM CodesWereMailed == Spec => []ConfirmedCodes
<1>1. IInv => ConfirmedCodes
  BY DEF IInv
<1> QED
  BY <1>1, Inductive, PTL

(* Nothing is handed out when the grants changed while storage was read. *)
THEOREM DownloadsAreWhole == Spec => UninterruptedDownloads
<1> DEFINE Whole == \A r \in Readers : reader[r].step = "reading" /\ reader'[r].step = "served"
                                         => ~reader[r].cut
<1>1. IInv /\ [Next]_vars => [Whole]_vars
  <2> SUFFICES ASSUME IInv, Next, NEW r \in Readers,
                      reader[r].step = "reading", reader'[r].step = "served"
               PROVE  ~reader[r].cut
    OBVIOUS
  <2>1. Serve(r)
    <3>1. reader'[r].step # reader[r].step
      OBVIOUS
    <3>2. ASSUME NEW kinds \in SUBSET Kinds PROVE reader' # Cut(kinds)
      BY <3>1, CutFacts
    <3>3. {"draft"} \in SUBSET Kinds /\ Kinds \in SUBSET Kinds
      BY DEF Kinds
    <3>4. PICK t \in Readers :
            \/ Serve(t) \/ DownloadOver(t)
            \/ \E s \in sessions, kind \in Kinds : DownloadBegin(t, s, kind)
      BY <3>1, <3>2, <3>3
      DEF Next, Challenge, ChallengeDone, ChallengeDies, WrongCode, RightCode, MailAnswered,
          MinutePasses, CodeExpires, InvitationExpires, ChangeAccess, Revoke, Share, File,
          SessionEnds, Room
    <3>5. t = r
      BY <3>1, <3>4 DEF Serve, DownloadOver, DownloadBegin, IInv, TypeOK
    <3>6. ~DownloadOver(r)
      <4>1. DownloadOver(r) => reader'[r].step = "idle"
        BY DEF DownloadOver, Idle, IInv, TypeOK
      <4> QED
        BY <4>1
    <3> QED
      BY <3>4, <3>5, <3>6 DEF DownloadBegin
  <2>2. /\ inv.access = "active" /\ inv.version = reader[r].version
        /\ reader[r].kind = "draft" => inv.round = reader[r].round
    BY <2>1 DEF Serve, StillGranted, Authentic
  <2> QED
    BY <2>2 DEF IInv, ReadInv
<1>2. Spec => [][Whole]_vars
  BY <1>1, Inductive, PTL DEF Spec
<1> QED
  BY <1>2 DEF UninterruptedDownloads

-----------------------------------------------------------------------------
(* Refinement: the door *)

(* What is shown moves only with what it is made from. *)
LEMMA SameCodes ==
  ASSUME \A c \in Challenges : call'[c].step # "new" <=> call[c].step # "new"
  PROVE  Issued' = Issued
BY DEF Issued

LEMMA SameCode ==
  ASSUME otp'.challenge = otp.challenge, otp'.tries = otp.tries
  PROVE  CodeNow' = CodeNow
BY DEF CodeNow

LEMMA CodeOf ==
  /\ otp.challenge = None => CodeNow = {}
  /\ otp.challenge # None => CodeNow = {[name |-> otp.challenge, tries |-> otp.tries]}
BY DEF CodeNow

LEMMA NoCodeLeft == otp'.challenge = None => CodeNow' = {}
BY DEF CodeNow

LEMMA CodeBecomes ==
  ASSUME otp'.challenge # None
  PROVE  CodeNow' = {[name |-> otp'.challenge, tries |-> otp'.tries]}
BY DEF CodeNow

LEMMA ChallengeIssues ==
  ASSUME IInv, NEW c \in Challenges, Challenge(c)
  PROVE  Entry!Issue(c)
<1>1. /\ inv' = inv /\ mailed' = mailed /\ sessions' = sessions
      /\ inv.access = "active" /\ call[c].step = "new"
  BY DEF Challenge
<1>2. otp'.challenge = c /\ otp'.tries = 0 /\ c # None
  BY GuestAssumption DEF Challenge
<1>3. call'[c].step = "mailing" /\ \A d \in Challenges \ {c} : call'[d] = call[d]
  BY DEF Challenge, IInv, TypeOK
<1>4. c \notin Issued /\ Issued' = Issued \cup {c}
  BY <1>1, <1>3 DEF Issued
<1>5. CodeNow' = {[name |-> c, tries |-> 0]}
  BY <1>2, CodeBecomes
<1>6. Inside' = Inside
  BY <1>1 DEF Inside
<1> QED
  BY <1>1, <1>4, <1>5, <1>6 DEF Entry!Issue

(* A mail is delivered when the provider takes it; nothing else about it shows. *)
LEMMA MailDelivers ==
  ASSUME IInv, NEW c \in Challenges,
         \/ \E taken, known \in BOOLEAN : MailAnswered(c, taken, known)
         \/ ChallengeDone(c) \/ ChallengeDies(c)
  PROVE  Entry!Deliver(c) \/ UNCHANGED Entry!vars
<1>1. inv' = inv /\ sessions' = sessions /\ call[c].step # "new"
  BY DEF MailAnswered, ChallengeDone, ChallengeDies
<1>2. PICK step \in {"delivered", "undelivered", "done"} : call' = [call EXCEPT ![c].step = step]
  BY DEF MailAnswered, ChallengeDone, ChallengeDies
<1>3. call'[c].step # "new" /\ \A d \in Challenges \ {c} : call'[d] = call[d]
  BY <1>2 DEF IInv, TypeOK
<1>4. Issued' = Issued /\ c \in Issued
  BY <1>1, <1>3 DEF Issued
<1>5. otp'.challenge = otp.challenge /\ otp'.tries = otp.tries
  <2>1. CASE otp' = otp
    BY <2>1
  <2>2. CASE otp' # otp
    <3>1. PICK delivery : otp' = [otp EXCEPT !.delivery = delivery]
      BY <2>2 DEF MailAnswered, ChallengeDone, ChallengeDies
    <3> QED
      BY <3>1 DEF IInv, TypeOK
  <2> QED
    BY <2>1, <2>2
<1>6. CodeNow' = CodeNow /\ Inside' = Inside
  BY <1>1, <1>5, SameCode DEF Inside
<1>7. mailed' = mailed \/ mailed' = mailed \cup {c}
  BY DEF MailAnswered, ChallengeDone, ChallengeDies
<1>8. CASE mailed' = mailed
  BY <1>1, <1>4, <1>6, <1>8 DEF Entry!vars
<1>9. CASE mailed' = mailed \cup {c}
  BY <1>1, <1>4, <1>6, <1>9 DEF Entry!Deliver
<1> QED
  BY <1>7, <1>8, <1>9

(* Only a delivered code can be tried, and each try counts. *)
LEMMA CodeOpens ==
  ASSUME IInv, NEW c \in Challenges, Verifiable(c)
  PROVE  /\ CodeNow = {[name |-> c, tries |-> otp.tries]}
         /\ Entry!Opens([name |-> c, tries |-> otp.tries])
<1>1. /\ inv.access = "active" /\ otp.challenge = c /\ otp.delivery = "sent"
      /\ otp.tries < MaxAttempts /\ c # None
  BY GuestAssumption DEF Verifiable, MayTry
<1>2. c \in mailed
  BY <1>1 DEF IInv, ConfirmedCodes
<1> QED
  BY <1>1, <1>2, CodeOf DEF Entry!Opens

LEMMA WrongCodeGuesses ==
  ASSUME IInv, NEW c \in Challenges, WrongCode(c)
  PROVE  Entry!Guess
<1>1. /\ inv' = inv /\ call' = call /\ mailed' = mailed /\ sessions' = sessions
      /\ Verifiable(c) /\ otp' = [otp EXCEPT !.tries = @ + 1]
  BY DEF WrongCode
<1>2. otp.challenge = c /\ otp'.challenge = c /\ otp'.tries = otp.tries + 1 /\ c # None
  BY <1>1, GuestAssumption DEF Verifiable, IInv, TypeOK
<1>3. CodeNow' = {[name |-> c, tries |-> otp.tries + 1]}
  BY <1>2, CodeBecomes
<1>4. Issued' = Issued /\ Inside' = Inside
  BY <1>1 DEF Issued, Inside
<1> QED
  BY <1>1, <1>3, <1>4, CodeOpens DEF Entry!Guess

LEMMA RightCodeEnters ==
  ASSUME IInv, NEW c \in Challenges, RightCode(c)
  PROVE  Entry!Enter
<1>1. /\ inv' = inv /\ call' = call /\ mailed' = mailed /\ Verifiable(c)
      /\ sessions' = sessions \cup {[by |-> c, version |-> call[c].version]}
  BY DEF RightCode
<1>2. CodeNow' = {}
  BY NoCodeLeft DEF RightCode, NoCode
<1>3. Issued' = Issued
  BY <1>1 DEF Issued
<1>4. PICK opened : opened = [by |-> c, version |-> call[c].version]
  OBVIOUS
<1>5. opened.by = c /\ sessions' = sessions \cup {opened}
  BY <1>1, <1>4
<1>6. ASSUME NEW x PROVE x \in Inside' <=> x \in Inside \cup {c}
  BY <1>5 DEF Inside
<1>7. Inside' = Inside \cup {c}
  BY <1>6
<1> QED
  BY <1>1, <1>2, <1>3, <1>7, CodeOpens DEF Entry!Enter

LEMMA GrantsAreTerms ==
  ASSUME IInv, (\E download, copy \in BOOLEAN : ChangeAccess(download, copy)) \/ Revoke
  PROVE  Entry!NewTerms
<1>1. call' = call /\ mailed' = mailed /\ sessions' = {} /\ otp' = CodeWithdrawn
  BY DEF ChangeAccess, Revoke
<1>2. /\ inv'.version = inv.version + 1
      /\ \/ inv.access # "revoked" /\ inv'.access = "active"
         \/ inv'.access = "revoked"
  BY DEF ChangeAccess, Revoke, IInv, TypeOK
<1>3. otp'.challenge = None
  BY <1>1 DEF CodeWithdrawn, IInv, TypeOK
<1>4. CodeNow' = {} /\ Inside' = {} /\ Issued' = Issued
  BY <1>1, <1>3, NoCodeLeft DEF Inside, Issued
<1> QED
  BY <1>1, <1>2, <1>4 DEF Entry!NewTerms

LEMMA ExpiryShuts ==
  ASSUME IInv, InvitationExpires
  PROVE  Entry!Shut
<1>1. otp' = otp /\ call' = call /\ mailed' = mailed /\ sessions' = {} /\ inv.access = "active"
  BY DEF InvitationExpires
<1>2. inv'.access = "expired" /\ inv'.version = inv.version
  BY DEF InvitationExpires, IInv, TypeOK
<1>3. CodeNow' = CodeNow /\ Inside' = {} /\ Issued' = Issued
  BY <1>1 DEF CodeNow, Inside, Issued
<1> QED
  BY <1>1, <1>2, <1>3 DEF Entry!Shut

LEMMA EndLeaves ==
  ASSUME IInv, NEW s \in sessions, SessionEnds(s)
  PROVE  Entry!Leave
<1>1. /\ inv' = inv /\ otp' = otp /\ call' = call /\ mailed' = mailed
      /\ sessions' \subseteq sessions
  BY DEF SessionEnds
<1>2. CodeNow' = CodeNow /\ Issued' = Issued /\ Inside' \in SUBSET Inside
  BY <1>1 DEF CodeNow, Issued, Inside
<1> QED
  BY <1>1, <1>2 DEF Entry!Leave

(* Time, shared versions, visits, filing and downloads are behind the door. *)
LEMMA NothingShows ==
  ASSUME IInv,
         \/ MinutePasses \/ CodeExpires \/ Share \/ File
         \/ \E s \in sessions : Room(s)
         \/ \E r \in Readers : \/ Serve(r) \/ DownloadOver(r)
                               \/ \E s \in sessions, kind \in Kinds : DownloadBegin(r, s, kind)
         \/ UNCHANGED vars
  PROVE  UNCHANGED Entry!vars
<1>1. call' = call /\ mailed' = mailed /\ sessions' = sessions
  BY DEF MinutePasses, CodeExpires, Share, File, Room, Serve, DownloadOver, DownloadBegin, vars
<1>2. inv'.version = inv.version /\ inv'.access = inv.access
  BY DEF MinutePasses, CodeExpires, Share, File, Room, Serve, DownloadOver, DownloadBegin, vars,
         IInv, TypeOK
<1>3. otp'.challenge = otp.challenge /\ otp'.tries = otp.tries
  BY DEF MinutePasses, CodeExpires, Share, File, Room, Serve, DownloadOver, DownloadBegin, vars,
         IInv, TypeOK
<1>4. Issued' = Issued /\ CodeNow' = CodeNow /\ Inside' = Inside
  BY <1>1, <1>3, SameCode DEF Issued, Inside
<1> QED
  BY <1>1, <1>2, <1>4 DEF Entry!vars

LEMMA EntryInit == Init => Entry!Init
<1> SUFFICES ASSUME Init PROVE Entry!Init
  OBVIOUS
<1>1. inv.version = 0 /\ inv.access = "active" /\ mailed = {} /\ sessions = {}
  BY DEF Init
<1>2. otp.challenge = None /\ \A c \in Challenges : call[c].step = "new"
  BY DEF Init, NoCode
<1>3. Issued = {} /\ CodeNow = {} /\ Inside = {}
  BY <1>1, <1>2, CodeOf DEF Issued, Inside
<1> QED
  BY <1>1, <1>3 DEF Entry!Init

LEMMA EntryNext == IInv /\ [Next]_vars => [Entry!Next]_(Entry!vars)
<1> SUFFICES ASSUME IInv, [Next]_vars PROVE Entry!Next \/ UNCHANGED Entry!vars
  OBVIOUS
<1>1. ASSUME NEW c \in Challenges,
             \/ Challenge(c) \/ ChallengeDone(c) \/ ChallengeDies(c) \/ WrongCode(c)
             \/ RightCode(c)
             \/ \E taken, known \in BOOLEAN : MailAnswered(c, taken, known)
      PROVE  Entry!Next \/ UNCHANGED Entry!vars
  BY <1>1, ChallengeIssues, MailDelivers, WrongCodeGuesses, RightCodeEnters DEF Entry!Next
<1>2. CASE (\E download, copy \in BOOLEAN : ChangeAccess(download, copy)) \/ Revoke
  BY <1>2, GrantsAreTerms DEF Entry!Next
<1>3. CASE InvitationExpires
  BY <1>3, ExpiryShuts DEF Entry!Next
<1>4. CASE \E s \in sessions : SessionEnds(s)
  BY <1>4, EndLeaves DEF Entry!Next
<1>5. CASE \/ MinutePasses \/ CodeExpires \/ Share \/ File
           \/ \E s \in sessions : Room(s)
           \/ \E r \in Readers : \/ Serve(r) \/ DownloadOver(r)
                                 \/ \E s \in sessions, kind \in Kinds : DownloadBegin(r, s, kind)
           \/ UNCHANGED vars
  BY <1>5, NothingShows
<1> QED
  BY <1>1, <1>2, <1>3, <1>4, <1>5 DEF Next

(* Codes, sessions and grants implement the door: a code lets its guest in once,
   after it was delivered, under the terms it was asked for and after fewer than
   MaxAttempts tries, for any number of requests in any order of their answers. *)
THEOREM KeepsDoor == Spec => EntrySpec
<1>1. Spec => Entry!Init
  BY EntryInit, PTL DEF Spec
<1>2. Spec => [][Entry!Next]_(Entry!vars)
  BY EntryNext, Inductive, PTL DEF Spec
<1> QED
  BY <1>1, <1>2, PTL DEF EntrySpec, Entry!Spec
=============================================================================
