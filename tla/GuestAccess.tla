---------------------------- MODULE GuestAccess ----------------------------
(***************************************************************************)
(* The access of ONE invited guest: GuestAuthService (codes and sessions)  *)
(* and the parts of NegotiationService that change the grants or hand out  *)
(* documents.                                                              *)
(*                                                                         *)
(* A code is mailed outside the transaction that stores it, and several    *)
(* requests for a code can be in flight; a download reads storage between  *)
(* two checks of the session.  Each transaction on the invitation row is   *)
(* one action: all of them update or lock that row before they commit.     *)
(*                                                                         *)
(* A session's token is never issued twice and a code opens one session, so*)
(* a session is named by the challenge it was opened with.                 *)
(***************************************************************************)
EXTENDS Naturals, FiniteSets

CONSTANTS
  Challenges,    \* requests for a code, each with its fresh challengeId
  Readers,       \* downloads in flight
  None,          \* no challenge
  MaxAttempts,   \* tries per code (5 in the code)
  MaxVersion,    \* bound: grants are changed this often
  MaxRound       \* bound: versions of the agreement are shared this often

ASSUME GuestAssumption ==
  /\ None \notin Challenges
  /\ MaxAttempts \in Nat /\ MaxVersion \in Nat /\ MaxRound \in Nat

VARIABLES
  inv,        \* GuestInvitation: what is granted
  otp,        \* GuestInvitation: the code
  executed,   \* an executed archive is filed at the contract
  call,       \* challenge(): its step, and the grants' version when it stored its code
  mailed,     \* challenges whose mail the provider accepted
  sessions,   \* GuestSession
  reader      \* guestFile() and executedFile() between their two checks

vars == <<inv, otp, executed, call, mailed, sessions, reader>>

Access == {"active", "expired", "revoked"}
Deliveries == {"none", "sending", "sent", "unconfirmed", "consumed"}
Session == [by: Challenges, version: Nat]
NoCode(delivery) == [challenge |-> None, tries |-> 0, delivery |-> delivery,
                     valid |-> FALSE, recent |-> FALSE]
Idle == [step |-> "idle", by |-> None, kind |-> "draft", version |-> 0, round |-> 0,
         cut |-> FALSE]

Init ==
  /\ inv = [access |-> "active", version |-> 0, round |-> 1, viewed |-> FALSE,
            download |-> TRUE, copy |-> FALSE]
  /\ otp = NoCode("none")
  /\ executed = FALSE
  /\ call = [c \in Challenges |-> [step |-> "new", version |-> 0]]
  /\ mailed = {} /\ sessions = {}
  /\ reader = [r \in Readers |-> Idle]

(* `cut' notes that what a download was granted by has changed since it began. *)
Kinds == {"draft", "executed"}
Cut(kinds) == [r \in Readers |-> [reader[r] EXCEPT
                 !.cut = @ \/ (reader[r].step = "reading" /\ reader[r].kind \in kinds)]]

-----------------------------------------------------------------------------
(* Codes *)

(* challenge: a new code replaces the old one, a minute or more after it. *)
Challenge(c) ==
  /\ call[c].step = "new"
  /\ inv.access = "active" /\ ~otp.recent
  /\ otp' = [challenge |-> c, tries |-> 0, delivery |-> "sending", valid |-> TRUE,
             recent |-> TRUE]
  /\ call' = [call EXCEPT ![c] = [step |-> "mailing", version |-> inv.version]]
  /\ UNCHANGED <<inv, executed, mailed, sessions, reader>>

(* The provider accepts the mail, or refuses it, or its answer is too late: the
   mail may then have been accepted all the same. *)
MailAnswered(c, accepted, known) ==
  /\ call[c].step = "mailing"
  /\ mailed' = IF accepted THEN mailed \cup {c} ELSE mailed
  /\ call' = [call EXCEPT ![c].step = IF accepted /\ known THEN "delivered" ELSE "undelivered"]
  /\ UNCHANGED <<inv, otp, executed, sessions, reader>>

AnyCode(c) == TRUE
OwnCode(c) == otp.challenge = c

(* The answer is recorded for the code it is about, by then perhaps replaced. *)
ChallengeDone(c) ==
  /\ call[c].step \in {"delivered", "undelivered"}
  /\ call' = [call EXCEPT ![c].step = "done"]
  /\ otp' = IF OwnCode(c) /\ inv.access # "revoked"
            THEN [otp EXCEPT !.delivery =
                    IF call[c].step = "delivered" THEN "sent" ELSE "unconfirmed"]
            ELSE otp
  /\ UNCHANGED <<inv, executed, mailed, sessions, reader>>

(* The process dies with the mail on its way. *)
ChallengeDies(c) ==
  /\ call[c].step \in {"mailing", "delivered", "undelivered"}
  /\ call' = [call EXCEPT ![c].step = "done"]
  /\ UNCHANGED <<inv, otp, executed, mailed, sessions, reader>>

MayTry == otp.tries < MaxAttempts

(* verify's first refusals; the caller names the challenge. *)
Verifiable(c) ==
  /\ inv.access = "active" /\ otp.challenge = c /\ otp.delivery = "sent" /\ otp.valid
  /\ MayTry

WrongCode(c) ==
  /\ Verifiable(c)
  /\ otp' = [otp EXCEPT !.tries = @ + 1]
  /\ UNCHANGED <<inv, executed, call, mailed, sessions, reader>>

(* The right code opens a session and is used up; the minute it was sent in runs on. *)
RightCode(c) ==
  /\ Verifiable(c)
  /\ sessions' = sessions \cup {[by |-> c, version |-> call[c].version]}
  /\ otp' = [NoCode("consumed") EXCEPT !.tries = otp.tries + 1, !.recent = otp.recent]
  /\ UNCHANGED <<inv, executed, call, mailed, reader>>

-----------------------------------------------------------------------------
(* Time *)

MinutePasses == otp.recent /\ otp' = [otp EXCEPT !.recent = FALSE]
                /\ UNCHANGED <<inv, executed, call, mailed, sessions, reader>>

CodeExpires == otp.valid /\ ~otp.recent /\ otp' = [otp EXCEPT !.valid = FALSE]
               /\ UNCHANGED <<inv, executed, call, mailed, sessions, reader>>

SessionEnds(s) ==       \* eight hours, or logout
  /\ s \in sessions
  /\ sessions' = sessions \ {s}
  /\ UNCHANGED <<inv, otp, executed, call, mailed, reader>>

(* A session never outlives the invitation as it was when it was opened. *)
InvitationExpires ==
  /\ inv.access = "active"
  /\ inv' = [inv EXCEPT !.access = "expired"]
  /\ sessions' = {}
  /\ reader' = Cut(Kinds)
  /\ UNCHANGED <<otp, executed, call, mailed>>

-----------------------------------------------------------------------------
(* Legal *)

CodeKept == otp
CodeWithdrawn == [otp EXCEPT !.challenge = None, !.valid = FALSE]

(* access: the grants are replaced, sessions and codes of the old ones end. *)
ChangeAccess(download, copy) ==
  /\ inv.access # "revoked" /\ inv.version < MaxVersion
  /\ copy => executed
  /\ inv' = [inv EXCEPT !.access = "active", !.version = @ + 1,
                        !.download = download, !.copy = copy]
  /\ otp' = CodeWithdrawn
  /\ sessions' = {}
  /\ reader' = Cut(Kinds)
  /\ UNCHANGED <<executed, call, mailed>>

Revoke ==
  /\ inv.version < MaxVersion
  /\ inv' = [inv EXCEPT !.access = "revoked", !.version = @ + 1, !.copy = FALSE]
  /\ otp' = CodeWithdrawn
  /\ sessions' = {}
  /\ reader' = Cut(Kinds)
  /\ UNCHANGED <<executed, call, mailed>>

(* share moves the guest to the next version, sessions go on. *)
Share ==
  /\ inv.access = "active" /\ ~executed /\ inv.round < MaxRound
  /\ inv' = [inv EXCEPT !.round = @ + 1, !.viewed = FALSE]
  /\ reader' = Cut({"draft"})
  /\ UNCHANGED <<otp, executed, call, mailed, sessions>>

File ==
  /\ ~executed
  /\ executed' = TRUE
  /\ UNCHANGED <<inv, otp, call, mailed, sessions, reader>>

-----------------------------------------------------------------------------
(* The guest's room *)

Authentic(s) == s \in sessions /\ inv.access = "active"

(* room: the first visit is noted. *)
Room(s) ==
  /\ Authentic(s) /\ ~inv.viewed
  /\ inv' = [inv EXCEPT !.viewed = TRUE]
  /\ UNCHANGED <<otp, executed, call, mailed, sessions, reader>>

Granted(kind) == IF kind = "draft" THEN inv.download ELSE inv.copy /\ executed

DownloadBegin(r, s, kind) ==
  /\ reader[r].step = "idle"
  /\ Authentic(s) /\ Granted(kind)
  /\ reader' = [reader EXCEPT ![r] = [step |-> "reading", by |-> s.by, kind |-> kind,
                  version |-> inv.version, round |-> inv.round, cut |-> FALSE]]
  /\ UNCHANGED <<inv, otp, executed, call, mailed, sessions>>

(* The checks after storage was read. *)
CheckedBefore(r) == TRUE
StillGranted(r) ==
  /\ \E s \in sessions : s.by = reader[r].by /\ Authentic(s)
  /\ inv.version = reader[r].version
  /\ reader[r].kind = "draft" => inv.download /\ inv.round = reader[r].round
  /\ reader[r].kind = "executed" => inv.copy

Serve(r) ==
  /\ reader[r].step = "reading" /\ StillGranted(r)
  /\ reader' = [reader EXCEPT ![r].step = "served"]
  /\ UNCHANGED <<inv, otp, executed, call, mailed, sessions>>

DownloadOver(r) ==      \* refused, failed or handed out
  /\ reader[r].step # "idle"
  /\ reader' = [reader EXCEPT ![r] = Idle]
  /\ UNCHANGED <<inv, otp, executed, call, mailed, sessions>>

-----------------------------------------------------------------------------

Next ==
  \/ \E c \in Challenges :
       \/ Challenge(c) \/ ChallengeDone(c) \/ ChallengeDies(c) \/ WrongCode(c) \/ RightCode(c)
       \/ \E accepted, known \in BOOLEAN : MailAnswered(c, accepted, known)
  \/ MinutePasses \/ CodeExpires \/ InvitationExpires
  \/ \E download, copy \in BOOLEAN : ChangeAccess(download, copy)
  \/ Revoke \/ Share \/ File
  \/ \E s \in sessions : SessionEnds(s) \/ Room(s)
  \/ \E r \in Readers :
       \/ Serve(r) \/ DownloadOver(r)
       \/ \E s \in sessions, kind \in Kinds : DownloadBegin(r, s, kind)

Spec == Init /\ [][Next]_vars

-----------------------------------------------------------------------------
(* Properties *)

(* The row, the code and the calls have their types, and a code is tried at most
   MaxAttempts times (verify's counter). *)
TypeOK ==
  /\ inv \in [access: Access, version: Nat, round: Nat, viewed: BOOLEAN,
              download: BOOLEAN, copy: BOOLEAN]
  /\ otp \in [challenge: Challenges \cup {None}, tries: 0..MaxAttempts,
              delivery: Deliveries, valid: BOOLEAN, recent: BOOLEAN]
  /\ executed \in BOOLEAN
  /\ call \in [Challenges -> [step: {"new", "mailing", "delivered", "undelivered", "done"},
                              version: Nat]]
  /\ mailed \in SUBSET Challenges /\ sessions \in SUBSET Session
  /\ reader \in [Readers -> [step: {"idle", "reading", "served"},
                             by: Challenges \cup {None}, kind: Kinds,
                             version: Nat, round: Nat, cut: BOOLEAN]]

(* Every session was opened with a code that was requested under the grants of
   now: neither a session nor a code in the mail outlives a change of access or a
   revocation (access and revoke against challenge and verify). *)
SessionsFollowGrants ==
  \A s \in sessions : s.version = inv.version /\ inv.access # "revoked"

(* The code on record counts as sent only if its own mail was accepted, however
   late the answers of earlier mails are; so every session stands for a mail that
   reached the invited address (the update by challengeId). *)
ConfirmedCodes ==
  /\ otp.challenge # None /\ otp.delivery = "sent" => otp.challenge \in mailed
  /\ \A s \in sessions : s.by \in mailed

(* What the door shows of the codes and the sessions. *)
Issued  == {c \in Challenges : call[c].step # "new"}
CodeNow == {[name |-> c, tries |-> otp.tries] : c \in {otp.challenge} \ {None}}
Inside  == {s.by : s \in sessions}

Entry == INSTANCE GuestEntry WITH
  Codes <- Challenges, MaxTries <- MaxAttempts, terms <- inv.version, gate <- inv.access,
  issued <- Issued, code <- CodeNow, delivered <- mailed, inside <- Inside

(* The door keeps its promise although codes are mailed outside of the transaction
   that stores them, answers come late or not at all, and a second request, a change
   of access or a revocation comes in between: a code opens the room once, after it
   was delivered and under the terms it was asked for (challenge, verify, access and
   revoke together). *)
EntrySpec == Entry!Spec

(* What is handed out was granted, to the same session and in the same version,
   from the first check to the last: nothing cut in while storage was read. *)
UninterruptedDownloads ==
  [][\A r \in Readers : reader[r].step = "reading" /\ reader'[r].step = "served"
                          => ~reader[r].cut]_vars
=============================================================================
