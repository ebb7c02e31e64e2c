----------------------- MODULE InterviewAccess_proofs -----------------------
(***************************************************************************)
(* Theorems about InterviewAccess, for any number of interviews, links and *)
(* cookies, any time and any of the optional operations but "overlap":     *)
(* with the two lost updates it stands for they do not hold, as the run    *)
(* access_cv_removed shows.                                                *)
(***************************************************************************)
EXTENDS InterviewAccess, TLAPS

-----------------------------------------------------------------------------
(* The inductive invariant.                                                *)

\* Neither of the two lost updates.
NoOverlap == "overlap" \notin Operations

\* The credential a lobby request has read is one of a link.
LobbyHasALink == lobby # None => lobby.row.invitation \in DOMAIN invitations

\* Only the latest interview can be open, also one of a removed application.
OpenIsLatest == \A k \in DOMAIN interviews : interviews[k].status \in Open => k = Round

\* The two columns agree as long as the application is there.
StatusesAgree ==
  Present => (HasOpenInterview <=> application.status = "INTERVIEWING")

\* A withdrawal holds the application: whatever resends and starts do to the
\* open interview it has read, it stays open.
WithdrawalHolds ==
  withdrawal # None =>
    /\ Present /\ closing = None
    /\ application.status \notin TERMINAL_APPLICATION_STATUSES
    /\ withdrawal.round # 0 =>
         /\ withdrawal.round = Round /\ Latest.status \in Open
         /\ withdrawal.row \in InterviewRow
    /\ withdrawal.round = 0 => ~HasOpenInterview

\* A resend holds the interview, so that nobody starts or cancels it.
ResendHolds ==
  resending # None => closing = None /\ Round > 0 /\ Latest.status = "INVITED"

\* A closing session holds the interview.  Nobody changes the application it
\* has read, but an administrator may remove it.
ClosingHolds ==
  closing # None =>
    /\ Round > 0 /\ Latest.status = "IN_PROGRESS"
    /\ [closing EXCEPT !.deleted = application.deleted] = application
    /\ closing.deleted => application.deleted
    /\ ~closing.deleted => application.status = "INTERVIEWING"

\* HR has read no version yet to come.
SeenIsOld ==
  /\ seen.application.version <= application.version
  /\ ApplicationVersionNamesTheRow
  /\ Len(seen.interviews) <= Round
  /\ Round > 0 /\ Latest.status \in Open /\ Len(seen.interviews) = Round =>
       /\ seen.interviews[Round].version <= Latest.version
       /\ seen.interviews[Round].version = Latest.version => seen.interviews[Round] = Latest

\* A later link of an interview has a higher version.
LinksAreOrdered ==
  \A i, j \in DOMAIN invitations :
    i < j /\ invitations[i].interview = invitations[j].interview
      => invitations[i].invitationVersion < invitations[j].invitationVersion

\* No link is ahead of its interview, and all of a cancelled interview are
\* behind it, but for a withdrawal.
LinkFits(i) ==
  LET k == invitations[i].interview IN
  \/ interviews[k].status = "CANCELLED" /\ application.status = "WITHDRAWN"
  \/ /\ invitations[i].invitationVersion <= interviews[k].invitationVersion
     /\ interviews[k].status = "CANCELLED" =>
          invitations[i].invitationVersion < interviews[k].invitationVersion

LinksFit == \A i \in DOMAIN invitations : LinkFits(i)

Statuses == OpenIsLatest /\ StatusesAgree
Transactions == WithdrawalHolds /\ ResendHolds /\ ClosingHolds
Links == InvitedHasALink /\ LinksAreOrdered /\ LinksFit

Inv == TypeInvariant /\ LobbyHasALink /\ Statuses /\ Transactions /\ SeenIsOld /\ Links

-----------------------------------------------------------------------------
(* Types.                                                                  *)

\* What the rows consist of.
LEMMA Rows ==
  ASSUME TypeInvariant
  PROVE  /\ now \in Nat
         /\ application \in ApplicationRow
         /\ application.status \in ApplicationStatus /\ application.version \in Nat
         /\ application.notes \in Nat /\ application.deleted \in BOOLEAN
         /\ interviews \in Seq(InterviewRow) /\ Round \in Nat /\ DOMAIN interviews = 1 .. Round
         /\ \A k \in DOMAIN interviews :
              /\ interviews[k] \in InterviewRow /\ interviews[k].status \in InterviewStatus
              /\ interviews[k].version \in Nat /\ interviews[k].invitationVersion \in Nat
              /\ interviews[k].expiresAt \in Nat
         /\ invitations \in Seq(InvitationRow) /\ Len(invitations) \in Nat
         /\ DOMAIN invitations = 1 .. Len(invitations)
         /\ \A i \in DOMAIN invitations :
              /\ invitations[i] \in InvitationRow /\ invitations[i].interview \in DOMAIN interviews
              /\ invitations[i].invitationVersion \in Nat /\ invitations[i].expiresAt \in Nat
              /\ invitations[i].revoked \in BOOLEAN
         /\ credentials \in Seq(CredentialRow) /\ Len(credentials) \in Nat
         /\ DOMAIN credentials = 1 .. Len(credentials)
         /\ \A c \in DOMAIN credentials :
              /\ credentials[c] \in CredentialRow
              /\ credentials[c].invitation \in DOMAIN invitations
              /\ credentials[c].expiresAt \in Nat /\ credentials[c].revoked \in BOOLEAN
         /\ seen.application \in ApplicationRow /\ seen.interviews \in Seq(InterviewRow)
         /\ seen.application.version \in Nat /\ Len(seen.interviews) \in Nat
         /\ \A k \in DOMAIN seen.interviews :
              seen.interviews[k] \in InterviewRow /\ seen.interviews[k].version \in Nat
<1>1. now \in Nat
  BY ConstantsAssumption DEF TypeInvariant
<1>2. /\ interviews \in Seq(InterviewRow) /\ Round \in Nat /\ DOMAIN interviews = 1 .. Round
      /\ \A k \in DOMAIN interviews : interviews[k] \in InterviewRow
  BY DEF TypeInvariant, Round
<1>3. /\ invitations \in Seq(InvitationRow) /\ Len(invitations) \in Nat
      /\ DOMAIN invitations = 1 .. Len(invitations)
      /\ \A i \in DOMAIN invitations :
           invitations[i] \in InvitationRow /\ invitations[i].interview \in DOMAIN interviews
  BY DEF TypeInvariant
<1>4. /\ credentials \in Seq(CredentialRow) /\ Len(credentials) \in Nat
      /\ DOMAIN credentials = 1 .. Len(credentials)
      /\ \A c \in DOMAIN credentials :
           credentials[c] \in CredentialRow /\ credentials[c].invitation \in DOMAIN invitations
  BY DEF TypeInvariant
<1>5. /\ seen.application \in ApplicationRow /\ seen.interviews \in Seq(InterviewRow)
      /\ Len(seen.interviews) \in Nat
      /\ \A k \in DOMAIN seen.interviews : seen.interviews[k] \in InterviewRow
  BY DEF TypeInvariant
<1>6. application \in ApplicationRow
  BY DEF TypeInvariant
<1>7. /\ \A row \in ApplicationRow : /\ row.status \in ApplicationStatus /\ row.version \in Nat
                                     /\ row.notes \in Nat /\ row.deleted \in BOOLEAN
      /\ \A row \in InterviewRow : /\ row.status \in InterviewStatus /\ row.version \in Nat
                                   /\ row.invitationVersion \in Nat /\ row.expiresAt \in Nat
      /\ \A row \in InvitationRow : /\ row.invitationVersion \in Nat /\ row.expiresAt \in Nat
                                    /\ row.revoked \in BOOLEAN
      /\ \A row \in CredentialRow : row.expiresAt \in Nat /\ row.revoked \in BOOLEAN
  BY DEF ApplicationRow, InterviewRow, InvitationRow, CredentialRow
<1> QED BY <1>1, <1>2, <1>3, <1>4, <1>5, <1>6, <1>7

\* The types of the rows, and of what is under way.
RowsTyped ==
  /\ now \in 0 .. MaxTime
  /\ application \in ApplicationRow
  /\ interviews \in Seq(InterviewRow)
  /\ invitations \in Seq(InvitationRow)
  /\ \A i \in DOMAIN invitations : invitations[i].interview \in DOMAIN interviews
  /\ credentials \in Seq(CredentialRow)
  /\ \A c \in DOMAIN credentials : credentials[c].invitation \in DOMAIN invitations
  /\ seen \in [application : ApplicationRow, interviews : Seq(InterviewRow)]

\* No row is ever taken away, and time goes on.
Grows ==
  /\ now <= now' /\ DOMAIN interviews \subseteq DOMAIN interviews'
  /\ DOMAIN invitations \subseteq DOMAIN invitations'
  /\ DOMAIN credentials \subseteq DOMAIN credentials'

\* What a step may do to what is under way.
Moves ==
  /\ \/ resending' \in {None, resending}
     \/ resending' \in [expiry : Nat]
  /\ \/ withdrawal' \in {None, withdrawal}
     \/ withdrawal' \in [round : {0} \cup DOMAIN interviews, row : {None} \cup InterviewRow]
  /\ removing' \in {None, removing, application}
  /\ closing' \in {None, closing, application}
  /\ expiring' \in {0, expiring} \cup DOMAIN interviews
  /\ \/ exchange' \in {None, exchange}
     \/ exchange' \in [invitation : DOMAIN invitations, expiresAt : Nat, stored : BOOLEAN]
  /\ \/ lobby' \in {None, lobby}
     \/ lobby' \in [credential : DOMAIN credentials, row : CredentialRow]
  /\ \/ starting' \in {None, starting}
     \/ starting' \in [credential : DOMAIN credentials, expiresAt : Nat, since : 0 .. now]

LEMMA TypesAfter ==
  ASSUME TypeInvariant, RowsTyped', Grows, Moves
  PROVE  TypeInvariant'
<1>1. resending' \in {None} \cup [expiry : Nat]
  BY DEF Moves, TypeInvariant
<1>2. withdrawal' \in {None} \cup [round : {0} \cup DOMAIN interviews', row : {None} \cup InterviewRow]
  <2>1. withdrawal' \in {None} \cup [round : {0} \cup DOMAIN interviews, row : {None} \cup InterviewRow]
    BY DEF Moves, TypeInvariant
  <2>2. {0} \cup DOMAIN interviews \subseteq {0} \cup DOMAIN interviews'
    BY DEF Grows
  <2> HIDE DEF Grows, Moves
  <2> QED BY <2>1, <2>2
<1>3. removing' \in {None} \cup ApplicationRow /\ closing' \in {None} \cup ApplicationRow
  BY DEF Moves, TypeInvariant
<1>4. expiring' \in {0} \cup DOMAIN interviews'
  BY DEF Moves, Grows, TypeInvariant
<1>5. exchange' \in {None} \cup
        [invitation : DOMAIN invitations', expiresAt : Nat, stored : BOOLEAN]
  BY DEF Moves, Grows, TypeInvariant
<1>6. lobby' \in {None} \cup [credential : DOMAIN credentials', row : CredentialRow]
  BY DEF Moves, Grows, TypeInvariant
<1>7. starting' \in {None} \cup [credential : DOMAIN credentials', expiresAt : Nat, since : 0 .. now']
  <2>1. starting' \in {None} \cup [credential : DOMAIN credentials, expiresAt : Nat, since : 0 .. now]
    BY DEF Moves, TypeInvariant
  <2>2. 0 .. now \subseteq 0 .. now'
    BY Rows, ConstantsAssumption DEF Grows, RowsTyped
  <2>3. DOMAIN credentials \subseteq DOMAIN credentials'
    BY DEF Grows
  <2> QED BY <2>1, <2>2, <2>3
<1> QED BY <1>1, <1>2, <1>3, <1>4, <1>5, <1>6, <1>7 DEF RowsTyped, TypeInvariant

-----------------------------------------------------------------------------
(* The helpers.                                                            *)

\* The interviews after a step that saves the latest of them.
LEMMA LatestSaved ==
  ASSUME TypeInvariant, OpenIsLatest, Round > 0, NEW row \in InterviewRow,
         interviews' = [interviews EXCEPT ![Round] = row]
  PROVE  /\ interviews' \in Seq(InterviewRow) /\ Round' = Round
         /\ DOMAIN interviews' = DOMAIN interviews /\ Round \in DOMAIN interviews
         /\ Latest' = row /\ interviews'[Round] = row
         /\ \A k \in DOMAIN interviews \ {Round} : interviews'[k] = interviews[k]
         /\ OpenIsLatest'
         /\ HasOpenInterview' <=> row.status \in Open
<1> PICK n \in Nat : n = Round
  BY Rows
<1>1. /\ n \in DOMAIN interviews /\ DOMAIN interviews = 1 .. n
      /\ interviews \in Seq(InterviewRow) /\ Len(interviews) = n
  BY Rows DEF Round
<1>2. interviews' = [interviews EXCEPT ![n] = row]
  OBVIOUS
<1>3. /\ interviews' \in Seq(InterviewRow) /\ Len(interviews') = n
      /\ DOMAIN interviews' = DOMAIN interviews /\ interviews'[n] = row
      /\ \A k \in DOMAIN interviews \ {n} : interviews'[k] = interviews[k]
  BY <1>1, <1>2
<1>4. Round' = n /\ Latest' = row
  BY <1>3 DEF Round, Latest
<1>5. OpenIsLatest'
  <2> SUFFICES ASSUME NEW k \in DOMAIN interviews, k # n PROVE interviews'[k].status \notin Open
    BY <1>3, <1>4 DEF OpenIsLatest
  <2> QED BY <1>3 DEF OpenIsLatest
<1>6. HasOpenInterview' <=> row.status \in Open
  BY <1>1, <1>3, <1>4, <1>5 DEF HasOpenInterview, OpenIsLatest
<1> QED BY <1>1, <1>3, <1>4, <1>5, <1>6

\* An interview is open just when the latest is.
LEMMA OpenLatest ==
  ASSUME TypeInvariant, OpenIsLatest
  PROVE  HasOpenInterview <=> Round > 0 /\ Latest.status \in Open
<1>1. DOMAIN interviews = 1 .. Round /\ Round \in Nat
  BY Rows
<1> QED BY <1>1 DEF HasOpenInterview, OpenIsLatest, Latest

\* Links as they were but for their revocation.
SameLinks(rows) ==
  /\ rows \in Seq(InvitationRow) /\ DOMAIN rows = DOMAIN invitations
  /\ \A i \in DOMAIN invitations :
       /\ rows[i].interview = invitations[i].interview
       /\ rows[i].invitationVersion = invitations[i].invitationVersion
       /\ rows[i].expiresAt = invitations[i].expiresAt

\* Cookies of the links they were of.
SameCookies(rows) ==
  /\ rows \in Seq(CredentialRow) /\ DOMAIN rows = DOMAIN credentials
  /\ \A c \in DOMAIN credentials : rows[c].invitation = credentials[c].invitation

\* Revoking changes no more than the revocations.
LEMMA RevokedRows ==
  ASSUME TypeInvariant, NEW k
  PROVE  /\ SameLinks(RevokedInvitations(k)) /\ SameCookies(RevokedCredentials(k))
         /\ \A i \in DOMAIN invitations :
              invitations[i].interview # k => RevokedInvitations(k)[i] = invitations[i]
         /\ Len(RevokedInvitations(k)) = Len(invitations)
<1>1. /\ DOMAIN invitations = 1 .. Len(invitations) /\ Len(invitations) \in Nat
      /\ \A i \in DOMAIN invitations : invitations[i] \in InvitationRow
      /\ DOMAIN credentials = 1 .. Len(credentials) /\ Len(credentials) \in Nat
      /\ \A c \in DOMAIN credentials : credentials[c] \in CredentialRow
  BY Rows
<1>2. \A row \in InvitationRow :
        LET new == [row EXCEPT !.revoked = TRUE] IN
        /\ new \in InvitationRow /\ new.interview = row.interview
        /\ new.invitationVersion = row.invitationVersion /\ new.expiresAt = row.expiresAt
  BY DEF InvitationRow
<1>3. \A row \in CredentialRow :
        LET new == [row EXCEPT !.revoked = TRUE] IN
        new \in CredentialRow /\ new.invitation = row.invitation
  BY DEF CredentialRow
<1>4. ASSUME NEW i \in DOMAIN invitations
      PROVE  /\ RevokedInvitations(k)[i] \in InvitationRow
             /\ RevokedInvitations(k)[i].interview = invitations[i].interview
             /\ RevokedInvitations(k)[i].invitationVersion = invitations[i].invitationVersion
             /\ RevokedInvitations(k)[i].expiresAt = invitations[i].expiresAt
             /\ invitations[i].interview # k => RevokedInvitations(k)[i] = invitations[i]
  BY <1>1, <1>2, <1>4 DEF RevokedInvitations
<1>5. ASSUME NEW c \in DOMAIN credentials
      PROVE  /\ RevokedCredentials(k)[c] \in CredentialRow
             /\ RevokedCredentials(k)[c].invitation = credentials[c].invitation
  BY <1>1, <1>3, <1>5 DEF RevokedCredentials
<1>6. /\ RevokedInvitations(k) \in Seq(InvitationRow)
      /\ DOMAIN RevokedInvitations(k) = DOMAIN invitations
      /\ Len(RevokedInvitations(k)) = Len(invitations)
  <2> DEFINE g(i) == RevokedInvitations(k)[i]
  <2>1. RevokedInvitations(k) = [i \in 1 .. Len(invitations) |-> g(i)]
    BY <1>1 DEF RevokedInvitations
  <2>2. \A i \in 1 .. Len(invitations) : g(i) \in InvitationRow
    BY <1>1, <1>4
  <2> HIDE DEF g
  <2> QED BY <1>1, <2>1, <2>2
<1>7. /\ RevokedCredentials(k) \in Seq(CredentialRow)
      /\ DOMAIN RevokedCredentials(k) = DOMAIN credentials
  <2> DEFINE g(c) == RevokedCredentials(k)[c]
  <2>1. RevokedCredentials(k) = [c \in 1 .. Len(credentials) |-> g(c)]
    BY <1>1 DEF RevokedCredentials
  <2>2. \A c \in 1 .. Len(credentials) : g(c) \in CredentialRow
    BY <1>1, <1>5
  <2> HIDE DEF g
  <2> QED BY <1>1, <2>1, <2>2
<1> QED BY <1>4, <1>5, <1>6, <1>7 DEF SameLinks, SameCookies

-----------------------------------------------------------------------------
(* What a kind of step leaves true.                                        *)

\* What HR has seen of the application is old or what it is.
LEMMA SeenApplication ==
  ASSUME TypeInvariant, SeenIsOld, seen' = seen, application' \in ApplicationRow,
         \/ application'.version > application.version
         \/ [application' EXCEPT !.deleted = application.deleted] = application
  PROVE  /\ seen'.application.version <= application'.version
         /\ ApplicationVersionNamesTheRow'
<1> PICK old \in ApplicationRow, new \in ApplicationRow, read \in ApplicationRow :
      old = application /\ new = application' /\ read = seen.application
  BY Rows
<1>1. /\ read.version <= old.version
      /\ read.version = old.version => [read EXCEPT !.deleted = old.deleted] = old
      /\ \/ new.version > old.version
         \/ [new EXCEPT !.deleted = old.deleted] = old
  BY DEF SeenIsOld, ApplicationVersionNamesTheRow, ApplicationVersionMatches
<1>2. old.version \in Nat /\ new.version \in Nat /\ read.version \in Nat
  BY DEF ApplicationRow
<1>3. CASE new.version > old.version
  BY <1>1, <1>2, <1>3 DEF ApplicationVersionNamesTheRow, ApplicationVersionMatches
<1>4. CASE [new EXCEPT !.deleted = old.deleted] = old
  <2>1. new.version = old.version /\ [old EXCEPT !.deleted = new.deleted] = new
    BY <1>4 DEF ApplicationRow
  <2>2. read.version = new.version => [read EXCEPT !.deleted = new.deleted] = new
    BY <1>1, <2>1 DEF ApplicationRow
  <2> QED BY <1>1, <2>1, <2>2 DEF ApplicationVersionNamesTheRow, ApplicationVersionMatches
<1> QED BY <1>1, <1>3, <1>4

\* What HR has seen of the open interview is old or what it is.
SeenInterviews ==
  /\ Len(seen.interviews) <= Round
  /\ Round > 0 /\ Latest.status \in Open /\ Len(seen.interviews) = Round =>
       /\ seen.interviews[Round].version <= Latest.version
       /\ seen.interviews[Round].version = Latest.version => seen.interviews[Round] = Latest

LEMMA SeenInterviewsSaved ==
  ASSUME TypeInvariant, OpenIsLatest, SeenIsOld, seen' = seen, Round > 0, NEW row \in InterviewRow,
         interviews' = [interviews EXCEPT ![Round] = row],
         row.status \in Open => Latest.status \in Open /\ row.version > Latest.version
  PROVE  SeenInterviews'
<1>1. Round' = Round /\ Latest' = row /\ Round \in DOMAIN interviews
  BY LatestSaved
<1>2. Len(seen.interviews) <= Round /\ Round \in Nat
  BY Rows DEF SeenIsOld
<1>3. Latest.version \in Nat /\ row.version \in Nat
  BY <1>1, Rows DEF Latest, InterviewRow
<1>4. Len(seen.interviews) = Round => seen.interviews[Round].version \in Nat
  <2>1. Len(seen.interviews) = Round => Round \in DOMAIN seen.interviews
    BY <1>2, Rows
  <2> QED BY <2>1, Rows
<1> QED BY <1>1, <1>2, <1>3, <1>4 DEF SeenIsOld, SeenInterviews

\* Links stay links when rows move on without the latest interview being saved.
LEMMA LinksStay ==
  ASSUME Inv, interviews' = interviews, SameLinks(invitations'),
         \A i \in DOMAIN invitations : ~invitations[i].revoked => ~invitations'[i].revoked,
         application.status = "WITHDRAWN" => application'.status = "WITHDRAWN"
  PROVE  Links'
<1>1. TypeInvariant /\ InvitedHasALink /\ LinksAreOrdered /\ LinksFit
  BY DEF Inv, Links
<1>2. /\ DOMAIN invitations' = DOMAIN invitations
      /\ \A i \in DOMAIN invitations :
           /\ invitations'[i].interview = invitations[i].interview
           /\ invitations'[i].invitationVersion = invitations[i].invitationVersion
           /\ invitations'[i].expiresAt = invitations[i].expiresAt
  BY DEF SameLinks
<1>3. InvitedHasALink'
  BY <1>1, <1>2 DEF InvitedHasALink, IsCurrent, InterviewOf
<1>4. LinksAreOrdered'
  BY <1>1, <1>2 DEF LinksAreOrdered
<1>5. LinksFit'
  BY <1>1, <1>2 DEF LinksFit, LinkFits
<1> QED BY <1>3, <1>4, <1>5 DEF Links

\* Links stay links when the latest interview starts or ends.
LEMMA LinksSaved ==
  ASSUME Inv, Round > 0, NEW row \in InterviewRow, row.status # "INVITED",
         interviews' = [interviews EXCEPT ![Round] = row], SameLinks(invitations'),
         application.status = "WITHDRAWN" => application'.status = "WITHDRAWN",
         \/ row.status # "CANCELLED" /\ row.invitationVersion = Latest.invitationVersion
              /\ Latest.status \in Open
         \/ row.status = "CANCELLED" /\ row.invitationVersion > Latest.invitationVersion
              /\ Latest.status \in Open
         \/ row.status = "CANCELLED" /\ application'.status = "WITHDRAWN"
  PROVE  Links'
<1> PICK n \in Nat : n = Round
  BY Rows DEF Inv
<1>1. /\ TypeInvariant /\ OpenIsLatest /\ LinksAreOrdered /\ LinksFit
      /\ Latest = interviews[n] /\ row.invitationVersion \in Nat
  BY DEF Inv, Links, Statuses, Latest, InterviewRow
<1>2. /\ DOMAIN interviews' = DOMAIN interviews /\ interviews'[n] = row
      /\ \A k \in DOMAIN interviews \ {n} : interviews'[k] = interviews[k]
      /\ n \in DOMAIN interviews
  BY <1>1, LatestSaved
<1>3. /\ DOMAIN invitations' = DOMAIN invitations
      /\ \A i \in DOMAIN invitations :
           /\ invitations'[i].interview = invitations[i].interview
           /\ invitations'[i].invitationVersion = invitations[i].invitationVersion
           /\ invitations[i].interview \in DOMAIN interviews
           /\ invitations[i].invitationVersion \in Nat
      /\ interviews[n].invitationVersion \in Nat
  BY <1>1, <1>2, Rows DEF SameLinks
<1>4. InvitedHasALink'
  <2>1. \A k \in DOMAIN interviews \ {n} : interviews[k].status # "INVITED"
    BY <1>1 DEF OpenIsLatest, Open
  <2> QED BY <1>2, <2>1 DEF InvitedHasALink
<1>5. LinksAreOrdered'
  BY <1>1, <1>3 DEF LinksAreOrdered
<1>6. LinksFit'
  <2> SUFFICES ASSUME NEW i \in DOMAIN invitations PROVE LinkFits(i)'
    BY <1>3 DEF LinksFit
  <2>1. LinkFits(i)
    BY <1>1 DEF LinksFit
  <2>2. CASE invitations[i].interview # n
    <3>1. interviews'[invitations[i].interview] = interviews[invitations[i].interview]
      BY <1>2, <1>3, <2>2
    <3> QED BY <1>3, <2>1, <3>1 DEF LinkFits
  <2>3. CASE invitations[i].interview = n
    BY <1>1, <1>2, <1>3, <2>1, <2>3 DEF LinkFits, Open
  <2> QED BY <2>2, <2>3
<1> QED BY <1>4, <1>5, <1>6 DEF Links

\* Transactions go on or end beside steps that leave their rows alone.
LEMMA TransactionsStay ==
  ASSUME Transactions, interviews' = interviews, application' = application,
         withdrawal' \in {None, withdrawal}, resending' \in {None, resending},
         closing' \in {None, closing}
  PROVE  Transactions'
<1>1. Round' = Round /\ Latest' = Latest /\ HasOpenInterview' = HasOpenInterview /\ Present' = Present
  BY DEF Round, Latest, HasOpenInterview, Present
<1> QED BY <1>1 DEF Transactions, WithdrawalHolds, ResendHolds, ClosingHolds

-----------------------------------------------------------------------------
(* The steps that leave application and interviews alone.                  *)

\* Links and cookies may change, not whom they are of.
LEMMA QuietKeepsInv ==
  ASSUME Inv, application' = application, interviews' = interviews, seen' = seen,
         now' \in 0 .. MaxTime, now <= now', SameLinks(invitations'),
         \A i \in DOMAIN invitations : ~invitations[i].revoked => ~invitations'[i].revoked,
         credentials' \in Seq(CredentialRow),
         DOMAIN credentials \subseteq DOMAIN credentials',
         \A c \in DOMAIN credentials' : credentials'[c].invitation \in DOMAIN invitations,
         Moves, LobbyHasALink', Transactions'
  PROVE  Inv'
<1>1. TypeInvariant /\ Statuses /\ SeenIsOld
  BY DEF Inv
<1>2. TypeInvariant'
  <2>1. RowsTyped'
    BY <1>1, Rows DEF RowsTyped, SameLinks, TypeInvariant
  <2>2. Grows
    BY DEF Grows, SameLinks
  <2> QED BY <1>1, <2>1, <2>2, TypesAfter
<1>3. Statuses'
  BY <1>1 DEF Statuses, OpenIsLatest, StatusesAgree, Present, HasOpenInterview, Round
<1>4. SeenIsOld'
  BY <1>1 DEF SeenIsOld, ApplicationVersionNamesTheRow, ApplicationVersionMatches, Latest, Round
<1>5. Links'
  BY LinksStay
<1> QED BY <1>2, <1>3, <1>4, <1>5 DEF Inv

\* Nothing changes but the clock and what is under way.
LEMMA StillKeepsInv ==
  ASSUME Inv, UNCHANGED <<application, interviews, invitations, credentials, seen>>,
         now' \in 0 .. MaxTime, now <= now', Moves, LobbyHasALink', Transactions'
  PROVE  Inv'
<1>1. SameLinks(invitations)
  BY Rows DEF Inv, SameLinks
<1>2. credentials \in Seq(CredentialRow)
      /\ \A c \in DOMAIN credentials : credentials[c].invitation \in DOMAIN invitations
  BY Rows DEF Inv
<1> QED BY <1>1, <1>2, QuietKeepsInv

\* The clock ticks, HR reads, or nothing happens.
LEMMA LooksKeepInv == ASSUME Inv, Tick \/ HrReads \/ UNCHANGED vars PROVE Inv'
<1>1. TypeInvariant /\ Transactions /\ LobbyHasALink /\ now \in 0 .. MaxTime /\ now \in Nat
  BY Rows DEF Inv, TypeInvariant
<1>2. UNCHANGED <<application, interviews, invitations, credentials, transactions, requests>>
  BY DEF Tick, HrReads, vars, transactions, requests
<1>3. Moves /\ LobbyHasALink'
  BY <1>1, <1>2 DEF Moves, transactions, requests, LobbyHasALink
<1>4. Transactions'
  BY <1>1, <1>2, TransactionsStay DEF transactions
<1>5. CASE Tick \/ UNCHANGED vars
  <2>1. seen' = seen /\ now' \in 0 .. MaxTime /\ now <= now'
    BY <1>1, <1>5, ConstantsAssumption DEF Tick, vars
  <2> QED BY <1>2, <1>3, <1>4, <2>1, StillKeepsInv
<1>6. CASE HrReads
  <2>1. now' = now /\ seen' = [application |-> application, interviews |-> interviews]
    BY <1>6 DEF HrReads
  <2>2. RowsTyped' /\ Grows
    BY <1>1, <1>2, <2>1 DEF RowsTyped, Grows, TypeInvariant
  <2>3. TypeInvariant'
    BY <1>1, <1>3, <2>2, TypesAfter
  <2>4. Statuses' /\ Links'
    <3>1. Statuses /\ SameLinks(invitations)
      BY <1>1, Rows DEF Inv, SameLinks
    <3>2. Links'
      BY <1>2, <3>1, LinksStay
    <3> QED BY <1>2, <3>1, <3>2
          DEF Statuses, OpenIsLatest, StatusesAgree, Present, HasOpenInterview, Round
  <2>5. SeenIsOld'
    <3>1. [application EXCEPT !.deleted = application.deleted] = application
      BY <1>1, Rows DEF ApplicationRow
    <3>2. application.version <= application.version /\ Round <= Round
      BY <1>1, Rows
    <3>3. Round > 0 => Latest.version <= Latest.version
      <4>1. Round > 0 => Round \in DOMAIN interviews
        BY <1>1, Rows
      <4> QED BY <1>1, <4>1, Rows DEF Latest
    <3> QED BY <1>2, <2>1, <3>1, <3>2, <3>3
          DEF SeenIsOld, ApplicationVersionNamesTheRow, Round, Latest
  <2> QED BY <1>3, <1>4, <2>3, <2>4, <2>5 DEF Inv
<1> QED BY <1>5, <1>6

\* A transaction of HR or of a session begins, or is given up.
LEMMA TransactionsBeginKeepInv ==
  ASSUME Inv, \/ \E expiry \in Nat : BeginResend(expiry)
              \/ BeginWithdraw \/ WithdrawAborts \/ BeginRemoveCv
              \/ BeginClose \/ CloseAborts
  PROVE  Inv'
<1>1. /\ TypeInvariant /\ Transactions /\ Statuses /\ LobbyHasALink
      /\ now \in 0 .. MaxTime /\ now \in Nat
  BY Rows DEF Inv, TypeInvariant
<1>2. UNCHANGED <<now, application, interviews, invitations, credentials, seen, requests>>
  BY DEF BeginResend, BeginWithdraw, WithdrawAborts, BeginRemoveCv, BeginClose, CloseAborts
<1>3. expiring' = expiring /\ exchange' = exchange /\ lobby' = lobby /\ starting' = starting
  BY <1>2 DEF requests
<1>4. LobbyHasALink' /\ now <= now' /\ now' \in 0 .. MaxTime
  BY <1>1, <1>2, <1>3 DEF LobbyHasALink
<1>5. HasOpenInterview <=> Round > 0 /\ Latest.status \in Open
  BY <1>1, OpenLatest DEF Statuses
<1>6. Round' = Round /\ Latest' = Latest /\ HasOpenInterview' = HasOpenInterview /\ Present' = Present
  BY <1>2 DEF Round, Latest, HasOpenInterview, Present
<1>7. Round > 0 => Latest \in InterviewRow /\ Round \in DOMAIN interviews
  BY <1>1, Rows DEF Latest
<1>8. ASSUME NEW expiry \in Nat, BeginResend(expiry) PROVE Moves /\ Transactions'
  <2>1. /\ resending' = [expiry |-> expiry] /\ Round > 0 /\ Latest.status = "INVITED"
        /\ closing = None /\ UNCHANGED <<withdrawal, removing, closing>>
    BY <1>8 DEF BeginResend, InterviewUnlocked
  <2>2. Moves
    BY <1>3, <2>1 DEF Moves
  <2> QED BY <1>1, <1>2, <1>6, <2>1, <2>2
        DEF Transactions, WithdrawalHolds, ResendHolds, ClosingHolds
<1>9. CASE BeginWithdraw
  <2>1. /\ withdrawal' = IF HasOpenInterview THEN [round |-> Round, row |-> Latest]
                                             ELSE [round |-> 0, row |-> None]
        /\ Present /\ closing = None
        /\ application.status \notin TERMINAL_APPLICATION_STATUSES
        /\ UNCHANGED <<resending, removing, closing>>
    BY <1>9 DEF BeginWithdraw
  <2>2. Moves
    <3>1. withdrawal' \in [round : {0} \cup DOMAIN interviews, row : {None} \cup InterviewRow]
      BY <1>5, <1>7, <2>1
    <3> QED BY <1>3, <2>1, <3>1 DEF Moves
  <2>3. WithdrawalHolds'
    BY <1>2, <1>5, <1>6, <1>7, <2>1 DEF WithdrawalHolds
  <2> QED BY <1>1, <1>2, <1>6, <2>1, <2>2, <2>3, StillKeepsInv, <1>4
        DEF Transactions, ResendHolds, ClosingHolds
<1>10. CASE BeginClose
  <2>1. /\ Round > 0 /\ Latest.status = "IN_PROGRESS" /\ closing' = application
        /\ withdrawal = None /\ UNCHANGED <<resending, removing, withdrawal>>
    BY <1>10 DEF BeginClose
  <2>2. Moves
    BY <1>3, <2>1 DEF Moves
  <2>3. ClosingHolds'
    <3>1. [application EXCEPT !.deleted = application.deleted] = application
      BY <1>1, Rows DEF ApplicationRow
    <3>2. ~application.deleted => application.status = "INTERVIEWING"
      BY <1>1, <1>5, <2>1 DEF Statuses, StatusesAgree, Present, Open
    <3> QED BY <1>2, <1>6, <2>1, <3>1, <3>2 DEF ClosingHolds
  <2>4. WithdrawalHolds' /\ ResendHolds'
    BY <1>1, <1>2, <1>6, <2>1 DEF Transactions, WithdrawalHolds, ResendHolds
  <2> QED BY <1>2, <1>4, <2>2, <2>3, <2>4, StillKeepsInv DEF Transactions
<1>11. CASE WithdrawAborts \/ BeginRemoveCv \/ CloseAborts
  <2>1. /\ withdrawal' \in {None, withdrawal} /\ resending' \in {None, resending}
        /\ closing' \in {None, closing} /\ removing' \in {removing, application}
    BY <1>11 DEF WithdrawAborts, BeginRemoveCv, CloseAborts
  <2>2. Moves
    BY <1>3, <2>1 DEF Moves
  <2>3. Transactions'
    BY <1>1, <1>2, <2>1, TransactionsStay
  <2> QED BY <1>2, <1>4, <2>2, <2>3, StillKeepsInv
<1>12. ASSUME NEW expiry \in Nat, BeginResend(expiry) PROVE Inv'
  BY <1>2, <1>4, <1>8, <1>12, StillKeepsInv
<1> QED BY <1>9, <1>10, <1>11, <1>12

\* A request begins, or dies.
LEMMA RequestsBeginKeepInv ==
  ASSUME Inv, \/ \E k \in DOMAIN interviews : BeginExpire(k)
              \/ \E i \in DOMAIN invitations : BeginExchange(i)
              \/ \E c \in DOMAIN credentials : BeginLobby(c) \/ BeginStart(c)
              \/ RequestDies
  PROVE  Inv'
<1>1. /\ TypeInvariant /\ Transactions /\ LobbyHasALink
      /\ now \in 0 .. MaxTime /\ now \in Nat
  BY Rows DEF Inv, TypeInvariant
<1>2. UNCHANGED <<now, application, interviews, invitations, credentials, seen, transactions>>
  BY DEF BeginExpire, BeginExchange, BeginLobby, BeginStart, RequestDies
<1>3. /\ withdrawal' = withdrawal /\ resending' = resending /\ removing' = removing
      /\ closing' = closing /\ now <= now' /\ now' \in 0 .. MaxTime
  BY <1>1, <1>2 DEF transactions
<1>4. Transactions'
  BY <1>1, <1>2, <1>3, TransactionsStay
<1>5. CASE \E k \in DOMAIN interviews : BeginExpire(k)
  <2>1. expiring' \in DOMAIN interviews /\ UNCHANGED <<exchange, lobby, starting>>
    BY <1>5 DEF BeginExpire
  <2>2. Moves /\ LobbyHasALink'
    BY <1>1, <1>2, <1>3, <2>1 DEF Moves, LobbyHasALink
  <2> QED BY <1>2, <1>3, <1>4, <2>2, StillKeepsInv
<1>6. ASSUME NEW i \in DOMAIN invitations, BeginExchange(i) PROVE Inv'
  <2>1. ResumeGrace \in Nat /\ invitations[i].expiresAt \in Nat
    BY <1>1, Rows, ConstantsAssumption
  <2>2. exchange' \in [invitation : DOMAIN invitations, expiresAt : Nat, stored : BOOLEAN]
    <3>1. \/ exchange' = [invitation |-> i, stored |-> FALSE, expiresAt |-> now + ResumeGrace]
          \/ exchange' = [invitation |-> i, stored |-> FALSE, expiresAt |-> invitations[i].expiresAt]
      BY <1>6 DEF BeginExchange
    <3>2. now + ResumeGrace \in Nat
      BY <1>1, <2>1
    <3>3. \A at \in Nat : [invitation |-> i, stored |-> FALSE, expiresAt |-> at]
            \in [invitation : DOMAIN invitations, expiresAt : Nat, stored : BOOLEAN]
      OBVIOUS
    <3> QED BY <2>1, <3>1, <3>2, <3>3
  <2>3. UNCHANGED <<expiring, lobby, starting>>
    BY <1>6 DEF BeginExchange
  <2>4. Moves /\ LobbyHasALink'
    BY <1>1, <1>2, <1>3, <2>2, <2>3 DEF Moves, LobbyHasALink
  <2> QED BY <1>2, <1>3, <1>4, <2>4, StillKeepsInv
<1>7. ASSUME NEW c \in DOMAIN credentials, BeginLobby(c) PROVE Inv'
  <2>1. credentials[c] \in CredentialRow /\ credentials[c].invitation \in DOMAIN invitations
    BY <1>1, Rows
  <2>2. lobby' = [credential |-> c, row |-> credentials[c]] /\ UNCHANGED <<expiring, exchange, starting>>
    BY <1>7 DEF BeginLobby
  <2>3. Moves /\ LobbyHasALink'
    BY <1>1, <1>2, <1>3, <2>1, <2>2 DEF Moves, LobbyHasALink
  <2> QED BY <1>2, <1>3, <1>4, <2>3, StillKeepsInv
<1>8. ASSUME NEW c \in DOMAIN credentials, BeginStart(c) PROVE Inv'
  <2>1. credentials[c].expiresAt \in Nat /\ now \in 0 .. now
    BY <1>1, Rows
  <2>2. /\ starting' = [credential |-> c, expiresAt |-> credentials[c].expiresAt, since |-> now]
        /\ UNCHANGED <<expiring, exchange, lobby>>
    BY <1>8 DEF BeginStart
  <2>3. Moves /\ LobbyHasALink'
    BY <1>1, <1>2, <1>3, <2>1, <2>2 DEF Moves, LobbyHasALink
  <2> QED BY <1>2, <1>3, <1>4, <2>3, StillKeepsInv
<1>9. CASE RequestDies
  <2>1. /\ exchange' \in {None, exchange} /\ lobby' \in {None, lobby}
        /\ expiring' = expiring /\ starting' = starting
    BY <1>9 DEF RequestDies
  <2>2. Moves /\ LobbyHasALink'
    BY <1>1, <1>2, <1>3, <2>1 DEF Moves, LobbyHasALink
  <2> QED BY <1>2, <1>3, <1>4, <2>2, StillKeepsInv
<1> QED BY <1>5, <1>6, <1>7, <1>8, <1>9

\* A request stores a credential, or saves a row as it has read it.
LEMMA RequestsSaveKeepInv ==
  ASSUME Inv, StoreCredential \/ StampInvitation \/ StampCredential
  PROVE  Inv'
<1>1. /\ TypeInvariant /\ Transactions /\ LobbyHasALink
      /\ now \in 0 .. MaxTime /\ now \in Nat
  BY Rows DEF Inv, TypeInvariant
<1>2. UNCHANGED <<now, application, interviews, seen, transactions>>
  BY DEF StoreCredential, StampInvitation, StampCredential
<1>3. /\ withdrawal' = withdrawal /\ resending' = resending /\ removing' = removing
      /\ closing' = closing /\ now <= now' /\ now' \in 0 .. MaxTime
  BY <1>1, <1>2 DEF transactions
<1>4. Transactions'
  BY <1>1, <1>2, <1>3, TransactionsStay
<1>5. SameLinks(invitations) /\ SameCookies(credentials)
  BY <1>1, Rows DEF SameLinks, SameCookies
<1>6. exchange # None =>
        /\ exchange \in [invitation : DOMAIN invitations, expiresAt : Nat, stored : BOOLEAN]
        /\ exchange.invitation \in DOMAIN invitations /\ exchange.expiresAt \in Nat
        /\ exchange.invitation \in Nat
  <2>1. DOMAIN invitations = 1 .. Len(invitations) /\ Len(invitations) \in Nat
    BY <1>1, Rows
  <2>2. DOMAIN invitations \subseteq Nat
    BY <2>1
  <2> QED BY <1>1, <2>2 DEF TypeInvariant
<1>7. CASE StoreCredential
  <2>1. PICK row : /\ row = [invitation |-> exchange.invitation, expiresAt |-> exchange.expiresAt,
                             revoked |-> FALSE]
                   /\ credentials' = Append(credentials, row)
    BY <1>7 DEF StoreCredential
  <2>2. exchange # None /\ UNCHANGED <<invitations, expiring, lobby, starting>>
    BY <1>7, Zenon DEF StoreCredential
  <2>3. row \in CredentialRow /\ row.invitation \in DOMAIN invitations
    <3>1. /\ exchange.invitation \in Nat /\ exchange.invitation \in DOMAIN invitations
          /\ exchange.expiresAt \in Nat
      BY <1>6, <2>2, Zenon
    <3> QED BY <2>1, <3>1 DEF CredentialRow
  <2>4. PICK n \in Nat : n = Len(credentials)
    BY <1>1, Rows
  <2>5. /\ credentials \in Seq(CredentialRow) /\ DOMAIN credentials = 1 .. n
        /\ \A c \in 1 .. n : credentials[c].invitation \in DOMAIN invitations
    BY <1>1, <2>4, Rows
  <2>6. /\ credentials' \in Seq(CredentialRow) /\ DOMAIN credentials' = 1 .. n + 1
        /\ credentials'[n + 1] = row /\ \A c \in 1 .. n : credentials'[c] = credentials[c]
    BY <2>1, <2>3, <2>4, <2>5
  <2>7. /\ DOMAIN credentials \subseteq DOMAIN credentials'
        /\ \A c \in DOMAIN credentials' : credentials'[c].invitation \in DOMAIN invitations
    BY <2>3, <2>5, <2>6
  <2>8. exchange' \in [invitation : DOMAIN invitations, expiresAt : Nat, stored : BOOLEAN]
    <3>1. exchange' = [exchange EXCEPT !.stored = TRUE]
      BY <1>7 DEF StoreCredential
    <3> QED BY <1>6, <2>2, <3>1
  <2>9. Moves /\ LobbyHasALink'
    BY <1>1, <1>3, <2>2, <2>8 DEF Moves, LobbyHasALink
  <2> QED BY <1>2, <1>3, <1>4, <1>5, <2>2, <2>6, <2>7, <2>9, QuietKeepsInv
<1>8. CASE StampInvitation
  <2>1. PICK i \in DOMAIN invitations :
          invitations' = [invitations EXCEPT ![i].revoked = FALSE]
    BY <1>6, <1>8 DEF StampInvitation
  <2>2. exchange' = None /\ UNCHANGED <<credentials, expiring, lobby, starting>>
    BY <1>8 DEF StampInvitation
  <2>3. PICK row : row = [invitations[i] EXCEPT !.revoked = FALSE]
    OBVIOUS
  <2>4. /\ row \in InvitationRow /\ row.interview = invitations[i].interview /\ ~row.revoked
        /\ row.invitationVersion = invitations[i].invitationVersion
        /\ row.expiresAt = invitations[i].expiresAt
    BY <1>1, <2>3, Rows DEF InvitationRow
  <2>5. invitations' = [invitations EXCEPT ![i] = row]
    BY <2>1, <2>3
  <2>6. SameLinks(invitations')
        /\ \A j \in DOMAIN invitations : ~invitations[j].revoked => ~invitations'[j].revoked
    <3>1. invitations \in Seq(InvitationRow)
      BY <1>1, Rows
    <3>2. invitations' \in Seq(InvitationRow) /\ DOMAIN invitations' = DOMAIN invitations
      BY <2>4, <2>5, <3>1
    <3>3. \A j \in DOMAIN invitations : invitations'[j] = IF j = i THEN row ELSE invitations[j]
      BY <2>5, <3>1
    <3> QED BY <2>4, <3>2, <3>3 DEF SameLinks
  <2>7. Moves /\ LobbyHasALink'
    BY <1>1, <1>3, <2>2, <2>6 DEF Moves, LobbyHasALink, SameLinks
  <2>8. credentials \in Seq(CredentialRow)
        /\ \A c \in DOMAIN credentials : credentials[c].invitation \in DOMAIN invitations
    BY <1>1, Rows
  <2> QED BY <1>2, <1>3, <1>4, <2>2, <2>6, <2>7, <2>8, QuietKeepsInv
<1>9. CASE StampCredential
  <2>1. lobby # None /\ lobby' = None /\ UNCHANGED <<invitations, expiring, exchange, starting>>
    BY <1>9 DEF StampCredential
  <2>2. PICK c \in DOMAIN credentials, row \in CredentialRow :
          /\ credentials' = [credentials EXCEPT ![c] = row]
          /\ row.invitation \in DOMAIN invitations
    BY <1>1, <1>9, <2>1 DEF StampCredential, LobbyHasALink, TypeInvariant
  <2>3. /\ credentials' \in Seq(CredentialRow) /\ DOMAIN credentials' = DOMAIN credentials
        /\ \A d \in DOMAIN credentials : credentials'[d].invitation \in DOMAIN invitations
    BY <1>1, <2>2, Rows
  <2>4. Moves /\ LobbyHasALink'
    BY <1>1, <1>3, <2>1 DEF Moves, LobbyHasALink
  <2> QED BY <1>2, <1>3, <1>4, <1>5, <2>1, <2>3, <2>4, QuietKeepsInv
<1> QED BY <1>7, <1>8, <1>9

-----------------------------------------------------------------------------
(* The steps that change the application alone.                            *)

LEMMA ApplicationSavedKeepsInv ==
  ASSUME Inv, UNCHANGED <<now, interviews, invitations, credentials, seen, requests>>,
         application' \in ApplicationRow,
         \/ application'.version > application.version
         \/ [application' EXCEPT !.deleted = application.deleted] = application,
         application.status = "WITHDRAWN" => application'.status = "WITHDRAWN",
         StatusesAgree', Moves, Transactions'
  PROVE  Inv'
<1>1. TypeInvariant /\ Statuses /\ SeenIsOld /\ LobbyHasALink
  BY DEF Inv
<1>2. TypeInvariant'
  <2>1. RowsTyped' /\ Grows
    BY <1>1, Rows DEF RowsTyped, Grows, TypeInvariant
  <2> QED BY <1>1, <2>1, TypesAfter
<1>3. Statuses'
  BY <1>1 DEF Statuses, OpenIsLatest, Round
<1>4. SeenIsOld'
  BY <1>1, SeenApplication DEF SeenIsOld, Latest, Round
<1>5. Links'
  <2>1. SameLinks(invitations)
    BY <1>1, Rows DEF SameLinks
  <2> QED BY <2>1, LinksStay
<1>6. LobbyHasALink'
  BY <1>1 DEF LobbyHasALink, requests
<1> QED BY <1>2, <1>3, <1>4, <1>5, <1>6 DEF Inv

LEMMA ApplicationKeepsInv ==
  ASSUME Inv, NoOverlap,
         \/ UpdateNotes \/ Remove \/ EndRemoveCv
         \/ \E outcome \in {"APPROVED", "REJECTED"} : Decide(outcome)
  PROVE  Inv'
<1>1. /\ TypeInvariant /\ Transactions /\ Statuses /\ application \in ApplicationRow
      /\ application.version \in Nat
  BY Rows DEF Inv
<1>2. /\ UNCHANGED <<now, interviews, invitations, credentials, seen, requests>>
      /\ withdrawal = None /\ withdrawal' = withdrawal
      /\ resending' = resending /\ closing' = closing /\ removing' \in {None, removing}
  BY DEF UpdateNotes, Remove, EndRemoveCv, Decide, ApplicationUnlocked, transactions
<1>3. Moves
  BY <1>2 DEF Moves, requests
<1>4. Round' = Round /\ Latest' = Latest /\ HasOpenInterview' = HasOpenInterview
  BY <1>2 DEF Round, Latest, HasOpenInterview
<1>5. WithdrawalHolds' /\ ResendHolds'
  BY <1>1, <1>2, <1>4 DEF Transactions, WithdrawalHolds, ResendHolds
<1>6. HasOpenInterview <=> Round > 0 /\ Latest.status \in Open
  BY <1>1, OpenLatest DEF Statuses
<1>7. ASSUME closing = None, ~application'.deleted => ~application.deleted,
             application' \in ApplicationRow, application'.version > application.version,
             \/ application'.status = application.status
             \/ ~HasOpenInterview /\ application'.status \in {"APPROVED", "REJECTED"}
                  /\ application.status # "WITHDRAWN"
      PROVE  Inv'
  <2>1. StatusesAgree'
    BY <1>1, <1>4, <1>7 DEF Statuses, StatusesAgree, Present
  <2>2. Transactions'
    BY <1>2, <1>5, <1>7 DEF Transactions, ClosingHolds
  <2> QED BY <1>2, <1>3, <1>7, <2>1, <2>2, ApplicationSavedKeepsInv
<1>8. CASE UpdateNotes
  <2>1. /\ closing = None
        /\ application' = [application EXCEPT !.notes = @ + 1, !.version = @ + 1]
    BY <1>8 DEF UpdateNotes, Alone, NoOverlap
  <2> PICK v \in Nat, m \in Nat : v = application.version + 1 /\ m = application.notes + 1
    BY <1>1, Rows
  <2>2. application' = [application EXCEPT !.notes = m, !.version = v]
    BY <2>1
  <2>3. /\ application' \in ApplicationRow /\ application'.version = v
        /\ application'.status = application.status /\ application'.deleted = application.deleted
    BY <1>1, <2>2 DEF ApplicationRow
  <2> QED BY <1>1, <1>7, <2>1, <2>3
<1>9. CASE EndRemoveCv
  <2>1. closing = None /\ application' = [application EXCEPT !.version = @ + 1]
    BY <1>9 DEF EndRemoveCv, NoOverlap
  <2> PICK v \in Nat : v = application.version + 1
    BY <1>1
  <2>2. application' = [application EXCEPT !.version = v]
    BY <2>1
  <2>3. /\ application' \in ApplicationRow /\ application'.version = v
        /\ application'.status = application.status /\ application'.deleted = application.deleted
    BY <1>1, <2>2 DEF ApplicationRow
  <2> QED BY <1>1, <1>7, <2>1, <2>3
<1>10. ASSUME NEW outcome \in {"APPROVED", "REJECTED"}, Decide(outcome) PROVE Inv'
  <2>1. /\ ~HasOpenInterview /\ application.status = "UNDER_REVIEW"
        /\ application' = [application EXCEPT !.status = outcome, !.version = @ + 1]
    BY <1>10 DEF Decide
  <2>2. closing = None
    BY <1>1, <1>6, <2>1 DEF Transactions, ClosingHolds, Open
  <2> PICK v \in Nat : v = application.version + 1
    BY <1>1
  <2>3. application' = [application EXCEPT !.status = outcome, !.version = v]
    BY <2>1
  <2>4. /\ application' \in ApplicationRow /\ application'.version = v
        /\ application'.status = outcome /\ application'.deleted = application.deleted
    BY <1>1, <2>3 DEF ApplicationRow, ApplicationStatus
  <2> QED BY <1>1, <1>7, <2>1, <2>2, <2>4
<1>11. CASE Remove
  <2>1. application' = [application EXCEPT !.deleted = TRUE]
    BY <1>11 DEF Remove
  <2>2. /\ application' \in ApplicationRow /\ application'.deleted = TRUE
        /\ application'.status = application.status
        /\ [application' EXCEPT !.deleted = application.deleted] = application
    BY <1>1, <2>1 DEF ApplicationRow
  <2>3. StatusesAgree'
    BY <2>2 DEF StatusesAgree, Present
  <2>4. ClosingHolds'
    <3> SUFFICES ASSUME closing # None PROVE ClosingHolds'
      BY <1>2 DEF ClosingHolds
    <3> PICK row \in ApplicationRow : row = closing
      BY <1>1 DEF TypeInvariant
    <3>1. [row EXCEPT !.deleted = application.deleted] = application
          /\ Round > 0 /\ Latest.status = "IN_PROGRESS"
          /\ (~row.deleted => application.status = "INTERVIEWING")
      BY <1>1 DEF Transactions, ClosingHolds
    <3>2. [row EXCEPT !.deleted = TRUE] = application'
      BY <1>1, <2>1, <3>1 DEF ApplicationRow
    <3> QED BY <1>2, <1>4, <2>2, <3>1, <3>2 DEF ClosingHolds
  <2>5. Transactions'
    BY <1>5, <2>4 DEF Transactions
  <2> QED BY <1>2, <1>3, <2>2, <2>3, <2>5, ApplicationSavedKeepsInv
<1> QED BY <1>8, <1>9, <1>10, <1>11

-----------------------------------------------------------------------------
(* The steps that start or end the latest interview.                       *)

LEMMA InterviewSavedKeepsInv ==
  ASSUME Inv, Round > 0, NEW row \in InterviewRow, row.status # "INVITED",
         interviews' = [interviews EXCEPT ![Round] = row],
         SameLinks(invitations'), SameCookies(credentials'), seen' = seen, now' = now,
         application' \in ApplicationRow,
         \/ application'.version > application.version
         \/ [application' EXCEPT !.deleted = application.deleted] = application,
         application.status = "WITHDRAWN" => application'.status = "WITHDRAWN",
         \/ row.status # "CANCELLED" /\ row.invitationVersion = Latest.invitationVersion
              /\ Latest.status \in Open
         \/ row.status = "CANCELLED" /\ row.invitationVersion > Latest.invitationVersion
              /\ Latest.status \in Open
         \/ row.status = "CANCELLED" /\ application'.status = "WITHDRAWN",
         row.status \in Open => Latest.status \in Open /\ row.version > Latest.version,
         Present' => (row.status \in Open <=> application'.status = "INTERVIEWING"),
         Moves, lobby' = lobby, resending' = None, closing' = None, WithdrawalHolds'
  PROVE  Inv'
<1>1. TypeInvariant /\ OpenIsLatest /\ SeenIsOld /\ LobbyHasALink
  BY DEF Inv, Statuses
<1>2. /\ interviews' \in Seq(InterviewRow) /\ DOMAIN interviews' = DOMAIN interviews
      /\ OpenIsLatest' /\ (HasOpenInterview' <=> row.status \in Open)
  BY <1>1, LatestSaved
<1>3. TypeInvariant'
  <2>1. RowsTyped'
    BY <1>1, <1>2, Rows DEF RowsTyped, SameLinks, SameCookies, TypeInvariant
  <2>2. Grows
    BY <1>1, <1>2, Rows DEF Grows, SameLinks, SameCookies
  <2> QED BY <1>1, <2>1, <2>2, TypesAfter
<1>4. Statuses'
  BY <1>2 DEF Statuses, StatusesAgree
<1>5. SeenIsOld'
  <2>1. SeenInterviews'
    BY <1>1, SeenInterviewsSaved
  <2>2. /\ seen'.application.version <= application'.version
        /\ ApplicationVersionNamesTheRow'
    BY <1>1, SeenApplication
  <2> QED BY <2>1, <2>2 DEF SeenIsOld, SeenInterviews
<1>6. Links'
  BY LinksSaved
<1>7. LobbyHasALink'
  BY <1>1 DEF LobbyHasALink, SameLinks
<1>8. Transactions'
  BY DEF Transactions, ResendHolds, ClosingHolds
<1> QED BY <1>3, <1>4, <1>5, <1>6, <1>7, <1>8 DEF Inv

\* The application when its open interview ends.
LEMMA LeavesInterviewing ==
  ASSUME TypeInvariant, NEW next \in ApplicationStatus, LeaveInterviewing(next),
         application.status = "INTERVIEWING"
  PROVE  /\ application' \in ApplicationRow /\ application'.status = next
         /\ application'.version > application.version
         /\ application'.deleted = application.deleted
<1> PICK v \in Nat : v = application.version + 1 /\ v > application.version
  BY Rows
<1>1. application' = [application EXCEPT !.status = next, !.version = v]
  BY DEF LeaveInterviewing
<1>2. application \in ApplicationRow
  BY Rows
<1> QED BY <1>1, <1>2 DEF ApplicationRow

\* The cancelled row of an interview.
LEMMA CancelledRow ==
  ASSUME NEW row \in InterviewRow
  PROVE  /\ Cancelled(row) \in InterviewRow /\ Cancelled(row).status = "CANCELLED"
         /\ Cancelled(row).invitationVersion > row.invitationVersion
<1> PICK v \in Nat, w \in Nat :
      v = row.version + 1 /\ w = row.invitationVersion + 1 /\ w > row.invitationVersion
  BY DEF InterviewRow
<1>1. Cancelled(row) = [row EXCEPT !.status = "CANCELLED", !.version = v, !.invitationVersion = w]
  BY DEF Cancelled
<1> QED BY <1>1 DEF InterviewRow, InterviewStatus

\* HR revokes the interview.
LEMMA RevokeKeepsInv == ASSUME Inv, Revoke PROVE Inv'
<1>1. /\ TypeInvariant /\ OpenIsLatest /\ StatusesAgree /\ Round > 0 /\ Latest.status \in Open
      /\ Present /\ withdrawal = None /\ resending = None /\ closing = None
  BY DEF Inv, Statuses, Revoke, ApplicationUnlocked, InterviewUnlocked
<1>2. Latest \in InterviewRow
  BY <1>1, Rows DEF Latest
<1> PICK row \in InterviewRow : row = Cancelled(Latest)
  BY <1>2, CancelledRow
<1>3. /\ interviews' = [interviews EXCEPT ![Round] = row] /\ row.status = "CANCELLED"
      /\ row.invitationVersion > Latest.invitationVersion
  BY <1>2, CancelledRow DEF Revoke, Latest
<1>4. SameLinks(invitations') /\ SameCookies(credentials')
  BY <1>1, RevokedRows DEF Revoke, RevokeAccess
<1>5. application.status = "INTERVIEWING"
  BY <1>1, OpenLatest DEF StatusesAgree
<1>6. PICK next \in {"SHORTLISTED", "UNDER_REVIEW"} : LeaveInterviewing(next)
  BY DEF Revoke
<1>7. /\ application' \in ApplicationRow /\ application'.status = next
      /\ application'.version > application.version
  BY <1>1, <1>5, <1>6, LeavesInterviewing DEF ApplicationStatus
<1>8. /\ seen' = seen /\ now' = now /\ resending' = None /\ withdrawal' = None /\ closing' = None
      /\ removing' = removing /\ UNCHANGED requests
  BY <1>1 DEF Revoke, transactions
<1>9. Moves /\ lobby' = lobby /\ WithdrawalHolds'
  BY <1>8 DEF Moves, requests, WithdrawalHolds
<1>10. row.status # "INVITED" /\ row.status \notin Open
  BY <1>3 DEF Open
<1> QED BY <1>1, <1>3, <1>4, <1>5, <1>7, <1>8, <1>9, <1>10, InterviewSavedKeepsInv

\* A withdrawal commits.
LEMMA EndWithdrawKeepsInv == ASSUME Inv, EndWithdraw PROVE Inv'
<1>1. /\ TypeInvariant /\ OpenIsLatest /\ WithdrawalHolds /\ withdrawal # None
      /\ resending = None /\ closing = None /\ application \in ApplicationRow
      /\ application.version \in Nat
  BY Rows DEF Inv, Statuses, Transactions, EndWithdraw, InterviewUnlocked
<1>2. /\ seen' = seen /\ now' = now /\ resending' = None /\ withdrawal' = None /\ closing' = None
      /\ removing' = removing /\ UNCHANGED requests
  BY <1>1 DEF EndWithdraw
<1>3. Moves /\ lobby' = lobby /\ WithdrawalHolds'
  BY <1>2 DEF Moves, requests, WithdrawalHolds
<1>4. /\ application' \in ApplicationRow /\ application'.status = "WITHDRAWN"
      /\ application'.version > application.version
  <2> PICK v \in Nat : v = application.version + 1 /\ v > application.version
    BY <1>1
  <2>1. application' = [application EXCEPT !.status = "WITHDRAWN", !.version = v]
    BY DEF EndWithdraw
  <2> QED BY <1>1, <2>1 DEF ApplicationRow, ApplicationStatus
<1>5. CASE withdrawal.round = 0
  <2>1. UNCHANGED <<interviews, invitations, credentials>> /\ ~HasOpenInterview
    BY <1>1, <1>5 DEF EndWithdraw, WithdrawalHolds
  <2>2. StatusesAgree' /\ Transactions'
    BY <1>2, <1>3, <1>4, <2>1
       DEF StatusesAgree, HasOpenInterview, Transactions, ResendHolds, ClosingHolds
  <2> QED BY <1>2, <1>3, <1>4, <2>1, <2>2, ApplicationSavedKeepsInv
<1>6. CASE withdrawal.round # 0
  <2>1. /\ withdrawal.round = Round /\ Latest.status \in Open
        /\ withdrawal.row \in InterviewRow /\ Round > 0
    <3>1. withdrawal.round = Round /\ Latest.status \in Open /\ withdrawal.row \in InterviewRow
      BY <1>1, <1>6 DEF WithdrawalHolds
    <3> QED BY <1>1, <1>6, <3>1, Rows
  <2> PICK row \in InterviewRow : row = Cancelled(withdrawal.row)
    BY <2>1, CancelledRow
  <2>2. interviews' = [interviews EXCEPT ![Round] = row] /\ row.status = "CANCELLED"
    BY <1>6, <2>1, CancelledRow DEF EndWithdraw
  <2>3. SameLinks(invitations') /\ SameCookies(credentials')
    BY <1>1, <1>6, RevokedRows DEF EndWithdraw, RevokeAccess
  <2>4. row.status # "INVITED" /\ row.status \notin Open
    BY <2>2 DEF Open
  <2> QED BY <1>2, <1>3, <1>4, <2>1, <2>2, <2>3, <2>4, InterviewSavedKeepsInv
<1> QED BY <1>5, <1>6

\* The row of an interview that starts or ends.
Moved(row, status) == [row EXCEPT !.status = status, !.version = @ + 1]

LEMMA MovedRow ==
  ASSUME NEW row \in InterviewRow, NEW status \in InterviewStatus
  PROVE  /\ Moved(row, status) \in InterviewRow /\ Moved(row, status).status = status
         /\ Moved(row, status).version > row.version
         /\ Moved(row, status).invitationVersion = row.invitationVersion
<1> PICK v \in Nat : v = row.version + 1 /\ v > row.version
  BY DEF InterviewRow
<1>1. Moved(row, status) = [row EXCEPT !.status = status, !.version = v]
  BY DEF Moved
<1> QED BY <1>1 DEF InterviewRow

\* The latest interview, once it is known to be open, as a row to save.
LEMMA MovedLatest ==
  ASSUME TypeInvariant, NEW k \in DOMAIN interviews, k = Round, NEW status \in InterviewStatus,
         interviews' = [interviews EXCEPT ![k].status = status, ![k].version = @ + 1]
  PROVE  \E row \in InterviewRow :
           /\ interviews' = [interviews EXCEPT ![Round] = row] /\ row.status = status
           /\ row.version > Latest.version /\ row.invitationVersion = Latest.invitationVersion
<1>1. Latest = interviews[k] /\ Latest \in InterviewRow
  BY Rows DEF Latest
<1> PICK row \in InterviewRow : row = Moved(interviews[k], status)
  BY <1>1, MovedRow
<1>2. interviews' = [interviews EXCEPT ![k] = row]
  BY DEF Moved
<1>3. /\ row.status = status /\ row.version > Latest.version
      /\ row.invitationVersion = Latest.invitationVersion
  BY <1>1, MovedRow
<1> QED BY <1>2, <1>3

\* The lazy expiry gets its locks.
LEMMA EndExpireKeepsInv == ASSUME Inv, EndExpire PROVE Inv'
<1>1. /\ TypeInvariant /\ OpenIsLatest /\ StatusesAgree /\ expiring # 0 /\ LobbyHasALink
      /\ withdrawal = None /\ resending = None /\ closing = None
      /\ expiring \in DOMAIN interviews /\ Transactions /\ now \in 0 .. MaxTime /\ now \in Nat
  BY Rows DEF Inv, Statuses, EndExpire, ApplicationUnlocked, InterviewUnlocked, TypeInvariant
<1>2. /\ seen' = seen /\ now' = now /\ resending' = None /\ withdrawal' = None /\ closing' = None
      /\ removing' = removing /\ expiring' = 0 /\ UNCHANGED <<exchange, lobby, starting>>
  BY <1>1 DEF EndExpire, transactions
<1>3. Moves /\ lobby' = lobby /\ WithdrawalHolds'
  BY <1>2 DEF Moves, WithdrawalHolds
<1>4. CASE ~(Present /\ interviews[expiring].status = "INVITED")
  <2>1. UNCHANGED <<application, interviews, invitations, credentials>>
    BY <1>4 DEF EndExpire
  <2>2. Transactions'
    BY <1>1, <1>2, <2>1, TransactionsStay
  <2>3. LobbyHasALink' /\ now <= now' /\ now' \in 0 .. MaxTime
    BY <1>1, <1>2, <2>1 DEF LobbyHasALink
  <2> QED BY <1>2, <1>3, <2>1, <2>2, <2>3, StillKeepsInv
<1>5. CASE Present /\ interviews[expiring].status = "INVITED"
  <2>1. /\ interviews' = [interviews EXCEPT ![expiring].status = "EXPIRED",
                                            ![expiring].version = @ + 1]
        /\ RevokeAccess(expiring) /\ LeaveInterviewing("SHORTLISTED")
    BY <1>5 DEF EndExpire
  <2>2. expiring = Round /\ Latest.status \in Open /\ Round > 0
    BY <1>1, <1>5, Rows DEF OpenIsLatest, Open, Latest
  <2>3. PICK row \in InterviewRow :
          /\ interviews' = [interviews EXCEPT ![Round] = row] /\ row.status = "EXPIRED"
          /\ row.invitationVersion = Latest.invitationVersion
    BY <1>1, <2>1, <2>2, MovedLatest DEF InterviewStatus
  <2>4. SameLinks(invitations') /\ SameCookies(credentials')
    BY <1>1, <2>1, RevokedRows DEF RevokeAccess
  <2>5. application.status = "INTERVIEWING"
    BY <1>1, <1>5, <2>2, OpenLatest DEF StatusesAgree
  <2>6. /\ application' \in ApplicationRow /\ application'.status = "SHORTLISTED"
        /\ application'.version > application.version
    BY <1>1, <2>1, <2>5, LeavesInterviewing DEF ApplicationStatus
  <2>7. row.status # "INVITED" /\ row.status \notin Open /\ row.status # "CANCELLED"
    BY <2>3 DEF Open
  <2> QED BY <1>2, <1>3, <2>2, <2>3, <2>4, <2>5, <2>6, <2>7, InterviewSavedKeepsInv
<1> QED BY <1>4, <1>5

\* The candidate starts the interview.
LEMMA EndStartKeepsInv ==
  ASSUME Inv, starting # None, NEW dbNow \in starting.since .. now, EndStart(dbNow)
  PROVE  Inv'
<1>1. /\ TypeInvariant /\ OpenIsLatest /\ StatusesAgree /\ LobbyHasALink
      /\ resending = None /\ closing = None /\ Transactions
      /\ now \in 0 .. MaxTime /\ now \in Nat /\ SessionSpan \in Nat
  <2>1. TypeInvariant /\ OpenIsLatest /\ StatusesAgree /\ LobbyHasALink /\ Transactions
    BY DEF Inv, Statuses
  <2>2. resending = None /\ closing = None
    BY Zenon DEF EndStart, InterviewUnlocked
  <2>3. now \in 0 .. MaxTime /\ now \in Nat /\ SessionSpan \in Nat
    BY <2>1, Rows, ConstantsAssumption DEF TypeInvariant
  <2> QED BY <2>1, <2>2, <2>3
<1>2. /\ seen' = seen /\ now' = now /\ resending' = None /\ withdrawal' = withdrawal
      /\ closing' = None /\ removing' = removing /\ application' = application
      /\ invitations' = invitations /\ starting' = None
      /\ UNCHANGED <<exchange, lobby, expiring>>
  BY <1>1, Zenon DEF EndStart, transactions
<1>3. Moves /\ lobby' = lobby
  BY <1>2 DEF Moves
<1> PICK c \in DOMAIN credentials, since \in 0 .. now :
      c = starting.credential /\ since = starting.since
  <2>1. starting \in [credential : DOMAIN credentials, expiresAt : Nat, since : 0 .. now]
    BY <1>1 DEF TypeInvariant
  <2> QED BY <2>1
<1> PICK k \in DOMAIN interviews : k = invitations[credentials[c].invitation].interview
  BY <1>1, Rows
<1> DEFINE Starts == interviews[k].status = "INVITED" /\ dbNow <= interviews[k].expiresAt
<1>4. CASE ~Starts
  <2>1. UNCHANGED <<interviews, credentials>>
    BY <1>4 DEF EndStart
  <2>2. Transactions'
    BY <1>1, <1>2, <2>1, TransactionsStay
  <2>3. LobbyHasALink' /\ now <= now' /\ now' \in 0 .. MaxTime
    BY <1>1, <1>2, <2>1 DEF LobbyHasALink
  <2> QED BY <1>2, <1>3, <2>1, <2>2, <2>3, StillKeepsInv
<1>5. CASE Starts
  <2>1. /\ interviews' = [interviews EXCEPT ![k].status = "IN_PROGRESS", ![k].version = @ + 1]
        /\ credentials' = IF starting.expiresAt < dbNow + SessionSpan
             THEN [credentials EXCEPT ![c].expiresAt = dbNow + SessionSpan] ELSE credentials
    BY <1>5 DEF EndStart
  <2>2. k = Round /\ Latest.status = "INVITED" /\ Latest.status \in Open /\ Round > 0
    <3>1. interviews[k].status = "INVITED"
      BY <1>5
    <3>2. k = Round
      BY <1>1, <3>1 DEF OpenIsLatest, Open
    <3>3. Round > 0
      BY <1>1, <3>2, Rows
    <3> QED BY <3>1, <3>2, <3>3 DEF Open, Latest
  <2>3. PICK row \in InterviewRow :
          /\ interviews' = [interviews EXCEPT ![Round] = row] /\ row.status = "IN_PROGRESS"
          /\ row.version > Latest.version /\ row.invitationVersion = Latest.invitationVersion
    BY <1>1, <2>1, <2>2, MovedLatest DEF InterviewStatus
  <2>4. SameLinks(invitations')
    BY <1>1, <1>2, Rows DEF SameLinks
  <2>5. SameCookies(credentials')
    <3>1. credentials \in Seq(CredentialRow) /\ credentials[c] \in CredentialRow
      BY <1>1, Rows
    <3> PICK span \in Nat : span = dbNow + SessionSpan
      BY <1>1
    <3> PICK cookie : cookie = [credentials[c] EXCEPT !.expiresAt = span]
      OBVIOUS
    <3>2. cookie \in CredentialRow /\ cookie.invitation = credentials[c].invitation
      BY <3>1 DEF CredentialRow
    <3>3. CASE credentials' = [credentials EXCEPT ![c] = cookie]
      BY <3>1, <3>2, <3>3 DEF SameCookies
    <3>4. CASE credentials' = credentials
      BY <3>1, <3>4 DEF SameCookies
    <3> QED BY <2>1, <3>3, <3>4
  <2>6. HasOpenInterview /\ row.status \in Open
    BY <1>1, <2>2, <2>3, OpenLatest DEF Open
  <2>7. /\ Present' => (row.status \in Open <=> application'.status = "INTERVIEWING")
        /\ application \in ApplicationRow
        /\ [application EXCEPT !.deleted = application.deleted] = application
    BY <1>1, <1>2, <2>6, Rows DEF StatusesAgree, Present, ApplicationRow
  <2>8. WithdrawalHolds'
    <3>1. Round' = Round /\ Latest' = row
      BY <1>1, <2>2, <2>3, LatestSaved
    <3> QED BY <1>1, <1>2, <2>6, <3>1 DEF Transactions, WithdrawalHolds, Present
  <2>9. row.status # "INVITED" /\ row.status # "CANCELLED"
    BY <2>3
  <2>10. /\ application' \in ApplicationRow
         /\ [application' EXCEPT !.deleted = application.deleted] = application
         /\ application.status = "WITHDRAWN" => application'.status = "WITHDRAWN"
    BY <1>2, <2>7
  <2> QED BY <1>2, <1>3, <2>2, <2>3, <2>4, <2>5, <2>7, <2>8, <2>9, <2>10,
             InterviewSavedKeepsInv
<1> QED BY <1>4, <1>5

\* A session closes, with the application as it has read it.
LEMMA EndCloseKeepsInv ==
  ASSUME Inv, NEW status \in {"COMPLETED", "EXPIRED"}, EndClose(status)
  PROVE  Inv'
<1>1. /\ TypeInvariant /\ OpenIsLatest /\ ClosingHolds /\ closing # None /\ ResendHolds
      /\ WithdrawalHolds /\ application \in ApplicationRow /\ application.version \in Nat
  BY Rows DEF Inv, Statuses, Transactions, EndClose
<1>2. /\ seen' = seen /\ now' = now /\ resending' = None /\ withdrawal' = None /\ closing' = None
      /\ removing' = removing /\ UNCHANGED requests /\ UNCHANGED <<invitations, credentials>>
  BY <1>1 DEF EndClose, ResendHolds, WithdrawalHolds
<1>3. Moves /\ lobby' = lobby /\ WithdrawalHolds'
  BY <1>2 DEF Moves, requests, WithdrawalHolds
<1>4. Round > 0 /\ Latest.status \in Open /\ Round \in DOMAIN interviews
  BY <1>1, Rows DEF ClosingHolds, Open
<1>5. PICK row \in InterviewRow :
        /\ interviews' = [interviews EXCEPT ![Round] = row] /\ row.status = status
        /\ row.invitationVersion = Latest.invitationVersion
  <2> PICK n \in DOMAIN interviews : n = Round
    BY <1>4
  <2>1. interviews' = [interviews EXCEPT ![n].status = status, ![n].version = @ + 1]
    BY DEF EndClose
  <2>2. status \in InterviewStatus
    BY DEF InterviewStatus
  <2>3. PICK row \in InterviewRow :
          /\ interviews' = [interviews EXCEPT ![Round] = row] /\ row.status = status
          /\ row.version > Latest.version /\ row.invitationVersion = Latest.invitationVersion
    BY <1>1, <2>1, <2>2, MovedLatest
  <2> QED BY <2>3
<1>6. SameLinks(invitations') /\ SameCookies(credentials')
  BY <1>1, <1>2, Rows DEF SameLinks, SameCookies
<1>7. row.status # "INVITED" /\ row.status \notin Open /\ row.status # "CANCELLED"
  BY <1>5 DEF Open
<1> PICK read \in ApplicationRow : read = closing
  BY <1>1 DEF TypeInvariant
<1>8. CASE read.deleted
  <2>1. application' = application /\ ~Present'
    BY <1>1, <1>8 DEF EndClose, ClosingHolds, Present
  <2>2. [application EXCEPT !.deleted = application.deleted] = application
    BY <1>1 DEF ApplicationRow
  <2> QED BY <1>1, <1>2, <1>3, <1>4, <1>5, <1>6, <1>7, <2>1, <2>2, InterviewSavedKeepsInv
<1>9. CASE ~read.deleted
  <2>1. [read EXCEPT !.deleted = application.deleted] = application
        /\ application.status = "INTERVIEWING"
    BY <1>1, <1>9 DEF ClosingHolds
  <2>2. read.version = application.version
    BY <2>1 DEF ApplicationRow
  <2> PICK v \in Nat : v = read.version + 1 /\ v > application.version
    BY <1>1, <2>2
  <2>3. application' = [read EXCEPT !.status = "UNDER_REVIEW", !.version = v]
    BY <1>9 DEF EndClose
  <2>4. /\ application' \in ApplicationRow /\ application'.status = "UNDER_REVIEW"
        /\ application'.version > application.version
    BY <2>3 DEF ApplicationRow, ApplicationStatus
  <2> QED BY <1>2, <1>3, <1>4, <1>5, <1>6, <1>7, <2>1, <2>4, InterviewSavedKeepsInv
<1> QED BY <1>8, <1>9

-----------------------------------------------------------------------------
(* The steps that send a link.                                             *)

\* HR invites the candidate to a new interview.
LEMMA CreateKeepsInv ==
  ASSUME Inv, NEW lifetime \in Lifetimes, CreateInterview(lifetime)
  PROVE  Inv'
<1>1. /\ TypeInvariant /\ OpenIsLatest /\ Transactions /\ SeenIsOld /\ LobbyHasALink
      /\ InvitedHasALink /\ LinksAreOrdered /\ LinksFit
      /\ withdrawal = None /\ ~HasOpenInterview /\ application.status = "SHORTLISTED"
      /\ application \in ApplicationRow /\ application.version \in Nat
  BY Rows DEF Inv, Statuses, Links, CreateInterview, ApplicationUnlocked
<1>2. resending = None /\ closing = None
  BY <1>1, OpenLatest DEF Transactions, ResendHolds, ClosingHolds, Open
<1>3. /\ seen' = seen /\ now' = now /\ resending' = None /\ withdrawal' = None /\ closing' = None
      /\ removing' = removing /\ UNCHANGED requests /\ UNCHANGED credentials
  BY <1>1, <1>2 DEF CreateInterview, transactions
<1>4. Moves /\ lobby' = lobby
  BY <1>3 DEF Moves, requests
<1> PICK n \in Nat, m \in Nat, expiry \in Nat :
      n = Round + 1 /\ m = Len(invitations) + 1 /\ expiry = now + lifetime /\ n > 0
  BY <1>1, Rows, ConstantsAssumption
<1> PICK row \in InterviewRow : row = [status |-> "INVITED", version |-> 1,
                                       invitationVersion |-> 1, expiresAt |-> expiry]
  BY DEF InterviewRow, InterviewStatus
<1> PICK link \in InvitationRow : link = [interview |-> n, invitationVersion |-> 1,
                                          expiresAt |-> expiry, revoked |-> FALSE]
  BY DEF InvitationRow
<1>5. interviews' = Append(interviews, row) /\ invitations' = Append(invitations, link)
  BY DEF CreateInterview
<1>6. /\ interviews' \in Seq(InterviewRow) /\ DOMAIN interviews' = 1 .. n /\ Len(interviews') = n
      /\ interviews'[n] = row /\ DOMAIN interviews = 1 .. n - 1
      /\ \A k \in DOMAIN interviews : interviews'[k] = interviews[k] /\ k # n
  <2>1. interviews \in Seq(InterviewRow) /\ Len(interviews) = n - 1 /\ Len(interviews) \in Nat
    BY <1>1, Rows DEF Round
  <2> QED BY <1>5, <2>1
<1>7. /\ invitations' \in Seq(InvitationRow) /\ DOMAIN invitations' = 1 .. m
      /\ invitations'[m] = link /\ DOMAIN invitations = 1 .. m - 1
      /\ \A i \in DOMAIN invitations : invitations'[i] = invitations[i] /\ i # m
  <2>1. /\ invitations \in Seq(InvitationRow) /\ Len(invitations) = m - 1
        /\ Len(invitations) \in Nat
    BY <1>1, Rows
  <2> QED BY <1>5, <2>1
<1>8. Round' = n /\ Latest' = row /\ HasOpenInterview'
  BY <1>6 DEF Round, Latest, HasOpenInterview, Open
<1>9. \A k \in DOMAIN interviews : interviews[k].status \notin Open
  BY <1>1 DEF HasOpenInterview
<1>10. /\ application' \in ApplicationRow /\ application'.status = "INTERVIEWING"
       /\ application'.version > application.version
  <2> PICK v \in Nat : v = application.version + 1 /\ v > application.version
    BY <1>1
  <2>1. application' = [application EXCEPT !.status = "INTERVIEWING", !.version = v]
    BY DEF CreateInterview
  <2> QED BY <1>1, <2>1 DEF ApplicationRow, ApplicationStatus
<1>11. TypeInvariant'
  <2>1. \A i \in DOMAIN invitations' : invitations'[i].interview \in DOMAIN interviews'
    <3>1. \A i \in DOMAIN invitations : invitations[i].interview \in DOMAIN interviews
      BY <1>1, Rows
    <3>2. n \in DOMAIN interviews' /\ DOMAIN interviews \subseteq DOMAIN interviews'
      BY <1>6
    <3>3. DOMAIN invitations' = DOMAIN invitations \cup {m} /\ invitations'[m].interview = n
      BY <1>7
    <3>4. \A i \in DOMAIN invitations : invitations'[i] = invitations[i]
      BY <1>7
    <3> QED BY <3>1, <3>2, <3>3, <3>4
  <2>2. /\ DOMAIN interviews \subseteq DOMAIN interviews'
        /\ DOMAIN invitations \subseteq DOMAIN invitations'
    BY <1>6, <1>7
  <2>3. \A c \in DOMAIN credentials : credentials[c].invitation \in DOMAIN invitations'
    BY <1>1, <2>2, Rows
  <2>4. RowsTyped'
    BY <1>1, <1>3, <1>6, <1>7, <1>10, <2>1, <2>3 DEF RowsTyped, TypeInvariant
  <2>5. Grows
    BY <1>1, <1>3, <2>2, Rows DEF Grows
  <2> QED BY <1>1, <1>4, <2>4, <2>5, TypesAfter
<1>12. Statuses'
  <2>1. OpenIsLatest'
    BY <1>6, <1>8, <1>9 DEF OpenIsLatest
  <2> QED BY <1>8, <1>10, <2>1 DEF Statuses, StatusesAgree
<1>13. Transactions'
  BY <1>3 DEF Transactions, WithdrawalHolds, ResendHolds, ClosingHolds
<1>14. SeenIsOld'
  <2>1. /\ seen'.application.version <= application'.version
        /\ ApplicationVersionNamesTheRow'
    BY <1>1, <1>3, <1>10, SeenApplication
  <2>2. Len(seen.interviews) < n /\ Len(seen.interviews) <= n
    BY <1>1, Rows DEF SeenIsOld
  <2>3. Len(seen.interviews) # n
    BY <1>1, <2>2, Rows
  <2> QED BY <1>3, <1>8, <2>1, <2>2, <2>3 DEF SeenIsOld
<1>15. InvitedHasALink'
  <2> SUFFICES ASSUME NEW k \in DOMAIN interviews', interviews'[k].status = "INVITED"
               PROVE  \E i \in DOMAIN invitations' :
                        /\ invitations'[i].interview = k
                        /\ invitations'[i].invitationVersion
                             = interviews'[invitations'[i].interview].invitationVersion
                        /\ ~invitations'[i].revoked
                        /\ invitations'[i].expiresAt = interviews'[k].expiresAt
    BY DEF InvitedHasALink, IsCurrent, InterviewOf
  <2>1. k = n
    BY <1>6, <1>9 DEF Open
  <2>2. m \in DOMAIN invitations'
    BY <1>7
  <2>3. /\ link.interview = n /\ link.invitationVersion = 1 /\ link.expiresAt = expiry
        /\ ~link.revoked /\ row.invitationVersion = 1 /\ row.expiresAt = expiry
    OBVIOUS
  <2>4. invitations'[m] = link /\ interviews'[n] = row
    BY <1>6, <1>7
  <2>5. /\ invitations'[m].interview = k
        /\ invitations'[m].invitationVersion
             = interviews'[invitations'[m].interview].invitationVersion
        /\ ~invitations'[m].revoked
        /\ invitations'[m].expiresAt = interviews'[k].expiresAt
    BY <2>1, <2>3, <2>4
  <2> QED BY <2>2, <2>5, Zenon
<1>16. \A i \in DOMAIN invitations :
         /\ invitations[i].interview \in DOMAIN interviews /\ invitations[i].interview # n
         /\ invitations'[i] = invitations[i]
  BY <1>1, <1>6, <1>7, Rows
<1>17. DOMAIN invitations' = DOMAIN invitations \cup {m}
  BY <1>7
<1>18. LinksAreOrdered'
  <2> SUFFICES ASSUME NEW i \in DOMAIN invitations', NEW j \in DOMAIN invitations',
                      i < j, invitations'[i].interview = invitations'[j].interview
               PROVE  invitations'[i].invitationVersion < invitations'[j].invitationVersion
    BY DEF LinksAreOrdered
  <2>1. i # m /\ j # m
    BY <1>7, <1>16, <1>17
  <2> QED BY <1>1, <1>16, <1>17, <2>1 DEF LinksAreOrdered
<1>19. LinksFit'
  <2>1. LinkFits(m)'
    BY <1>6, <1>7 DEF LinkFits
  <2>2. ASSUME NEW i \in DOMAIN invitations PROVE LinkFits(i)'
    <3>1. LinkFits(i) /\ interviews'[invitations[i].interview] = interviews[invitations[i].interview]
      BY <1>1, <1>6, <1>16 DEF LinksFit
    <3> QED BY <1>1, <1>16, <3>1 DEF LinkFits
  <2> QED BY <1>17, <2>1, <2>2 DEF LinksFit
<1>20. LobbyHasALink'
  BY <1>1, <1>4, <1>17 DEF LobbyHasALink
<1> QED BY <1>11, <1>12, <1>13, <1>14, <1>15, <1>18, <1>19, <1>20 DEF Inv, Links

\* HR sends another link, while a withdrawal may be under way.
LEMMA EndResendKeepsInv == ASSUME Inv, EndResend PROVE Inv'
<1>1. /\ TypeInvariant /\ OpenIsLatest /\ StatusesAgree /\ SeenIsOld /\ LobbyHasALink
      /\ InvitedHasALink /\ LinksAreOrdered /\ LinksFit /\ WithdrawalHolds /\ Transactions
      /\ resending # None /\ closing = None /\ Round > 0 /\ Latest.status = "INVITED"
      /\ now \in 0 .. MaxTime /\ now \in Nat /\ application \in ApplicationRow
  BY Rows DEF Inv, Statuses, Links, Transactions, ResendHolds, EndResend, TypeInvariant
<1>2. /\ seen' = seen /\ now' = now /\ resending' = None /\ closing' = None
      /\ withdrawal' = withdrawal /\ removing' = removing /\ UNCHANGED requests
      /\ application' = application
  BY <1>1 DEF EndResend
<1>3. Moves /\ lobby' = lobby
  BY <1>2 DEF Moves, requests
<1>4. CASE ~Present
  <2>1. UNCHANGED <<interviews, invitations, credentials>>
    BY <1>4 DEF EndResend
  <2>2. Transactions'
    BY <1>1, <1>2, <2>1, TransactionsStay
  <2>3. LobbyHasALink' /\ now <= now' /\ now' \in 0 .. MaxTime
    BY <1>1, <1>2, <1>3, <2>1 DEF LobbyHasALink
  <2> QED BY <1>2, <1>3, <2>1, <2>2, <2>3, StillKeepsInv
<1>5. CASE Present
  <2> PICK n \in Nat, m \in Nat, expiry \in Nat :
        n = Round /\ m = Len(invitations) + 1 /\ expiry = resending.expiry /\ n > 0
    BY <1>1, Rows DEF TypeInvariant
  <2>1. n \in DOMAIN interviews /\ Latest = interviews[n] /\ interviews[n] \in InterviewRow
    BY <1>1, Rows DEF Latest
  <2> PICK v \in Nat, w \in Nat :
        /\ v = interviews[n].invitationVersion + 1 /\ v > interviews[n].invitationVersion
        /\ w = interviews[n].version + 1 /\ w > interviews[n].version
    <3>1. interviews[n].invitationVersion \in Nat /\ interviews[n].version \in Nat
      BY <1>1, <2>1, Rows
    <3>2. \A x \in Nat : x + 1 \in Nat /\ x + 1 > x
      OBVIOUS
    <3> QED BY <3>1, <3>2
  <2> PICK row : row = [interviews[n] EXCEPT !.version = w, !.invitationVersion = v,
                                             !.expiresAt = expiry]
    OBVIOUS
  <2>2. /\ row \in InterviewRow /\ row.version = w /\ row.invitationVersion = v
        /\ row.expiresAt = expiry /\ row.status = "INVITED"
    BY <1>1, <2>1 DEF InterviewRow
  <2> PICK link \in InvitationRow :
        link = [interview |-> n, invitationVersion |-> v, expiresAt |-> expiry, revoked |-> FALSE]
    BY DEF InvitationRow
  <2> PICK old : old = RevokedInvitations(n)
    OBVIOUS
  <2>3. /\ interviews' = [interviews EXCEPT ![n] = row] /\ invitations' = Append(old, link)
        /\ credentials' = RevokedCredentials(n)
    <3>1. /\ interviews' = [interviews EXCEPT ![n].version = @ + 1,
                                              ![n].invitationVersion = v, ![n].expiresAt = expiry]
          /\ invitations' = Append(old, link) /\ credentials' = RevokedCredentials(n)
      BY <1>5, <2>1 DEF EndResend
    <3> QED BY <2>1, <3>1
  <2>4. /\ SameLinks(old) /\ SameCookies(credentials') /\ Len(old) = Len(invitations)
        /\ \A i \in DOMAIN invitations : invitations[i].interview # n => old[i] = invitations[i]
    BY <1>1, <2>3, RevokedRows
  <2>5. /\ invitations' \in Seq(InvitationRow) /\ DOMAIN invitations' = 1 .. m
        /\ invitations'[m] = link /\ DOMAIN invitations = 1 .. m - 1
        /\ \A i \in DOMAIN invitations : invitations'[i] = old[i] /\ i # m
    <3>1. old \in Seq(InvitationRow) /\ Len(old) = m - 1 /\ DOMAIN invitations = 1 .. m - 1
      BY <1>1, <2>4, Rows DEF SameLinks
    <3> QED BY <2>3, <3>1
  <2>6. /\ DOMAIN invitations' = DOMAIN invitations \cup {m}
        /\ \A i \in DOMAIN invitations :
             /\ invitations'[i].interview = invitations[i].interview
             /\ invitations'[i].invitationVersion = invitations[i].invitationVersion
             /\ invitations[i].interview \in DOMAIN interviews
             /\ invitations[i].invitationVersion \in Nat /\ i < m
    <3>1. DOMAIN invitations' = DOMAIN invitations \cup {m} /\ \A i \in DOMAIN invitations : i < m
      BY <2>5
    <3>2. \A i \in DOMAIN invitations :
            /\ invitations'[i].interview = invitations[i].interview
            /\ invitations'[i].invitationVersion = invitations[i].invitationVersion
      BY <2>4, <2>5 DEF SameLinks
    <3> QED BY <1>1, <3>1, <3>2, Rows
  <2>7. /\ interviews' \in Seq(InterviewRow) /\ Round' = n /\ Latest' = row
        /\ DOMAIN interviews' = DOMAIN interviews /\ interviews'[n] = row
        /\ \A k \in DOMAIN interviews \ {n} : interviews'[k] = interviews[k]
        /\ OpenIsLatest' /\ (HasOpenInterview' <=> row.status \in Open)
    BY <1>1, <2>2, <2>3, LatestSaved
  <2>8. TypeInvariant'
    <3>1. \A i \in DOMAIN invitations' : invitations'[i].interview \in DOMAIN interviews'
      BY <2>1, <2>5, <2>6, <2>7
    <3>2. \A c \in DOMAIN credentials' : credentials'[c].invitation \in DOMAIN invitations'
      BY <1>1, <2>4, <2>6, Rows DEF SameCookies
    <3>3. RowsTyped'
      BY <1>1, <1>2, <2>4, <2>5, <2>7, <3>1, <3>2 DEF RowsTyped, SameCookies, TypeInvariant
    <3>4. Grows
      BY <1>1, <1>2, <2>4, <2>6, <2>7 DEF Grows, SameCookies
    <3> QED BY <1>1, <1>3, <3>3, <3>4, TypesAfter
  <2>9. HasOpenInterview
    BY <1>1, OpenLatest DEF Open
  <2>10. Statuses'
    BY <1>1, <1>2, <2>2, <2>7, <2>9 DEF Statuses, StatusesAgree, Present, Open
  <2>11. Transactions'
    <3>1. WithdrawalHolds'
      BY <1>1, <1>2, <2>2, <2>7, <2>9 DEF WithdrawalHolds, Present, Open
    <3> QED BY <1>2, <3>1 DEF Transactions, ResendHolds, ClosingHolds
  <2>12. SeenIsOld'
    <3>1. SeenInterviews'
      BY <1>1, <1>2, <2>1, <2>2, <2>3, SeenInterviewsSaved DEF Open
    <3>2. [application EXCEPT !.deleted = application.deleted] = application
      BY <1>1 DEF ApplicationRow
    <3>3. /\ seen'.application.version <= application'.version
          /\ ApplicationVersionNamesTheRow'
      BY <1>1, <1>2, <3>2, SeenApplication
    <3> QED BY <3>1, <3>3 DEF SeenIsOld, SeenInterviews
  <2>13. InvitedHasALink'
    <3> SUFFICES ASSUME NEW k \in DOMAIN interviews', interviews'[k].status = "INVITED"
                 PROVE  \E i \in DOMAIN invitations' :
                          /\ invitations'[i].interview = k
                          /\ invitations'[i].invitationVersion
                               = interviews'[invitations'[i].interview].invitationVersion
                          /\ ~invitations'[i].revoked
                          /\ invitations'[i].expiresAt = interviews'[k].expiresAt
      BY DEF InvitedHasALink, IsCurrent, InterviewOf
    <3>1. k = n
      BY <2>7 DEF OpenIsLatest, Open
    <3>2. m \in DOMAIN invitations'
      BY <2>6
    <3>3. /\ link.interview = n /\ link.invitationVersion = v /\ link.expiresAt = expiry
          /\ ~link.revoked
      OBVIOUS
    <3>4. /\ invitations'[m] = link /\ interviews'[n] = row /\ row.invitationVersion = v
          /\ row.expiresAt = expiry
      BY <2>2, <2>5, <2>7
    <3>5. /\ invitations'[m].interview = k
          /\ invitations'[m].invitationVersion
               = interviews'[invitations'[m].interview].invitationVersion
          /\ ~invitations'[m].revoked
          /\ invitations'[m].expiresAt = interviews'[k].expiresAt
      BY <3>1, <3>3, <3>4
    <3> QED BY <3>2, <3>5, Zenon
  <2>14. ASSUME NEW i \in DOMAIN invitations, invitations[i].interview = n
         PROVE  invitations[i].invitationVersion < v
    <3>1. invitations[i].invitationVersion <= interviews[n].invitationVersion
      BY <1>1, <2>1, <2>14 DEF LinksFit, LinkFits
    <3>2. invitations[i].invitationVersion \in Nat /\ interviews[n].invitationVersion \in Nat
      BY <1>1, <2>1, Rows
    <3> QED BY <3>1, <3>2
  <2>15. LinksAreOrdered'
    <3> SUFFICES ASSUME NEW i \in DOMAIN invitations', NEW j \in DOMAIN invitations',
                        i < j, invitations'[i].interview = invitations'[j].interview
                 PROVE  invitations'[i].invitationVersion < invitations'[j].invitationVersion
      BY DEF LinksAreOrdered
    <3>1. i \in DOMAIN invitations
      BY <2>5, <2>6
    <3>2. CASE j = m
      BY <2>5, <2>6, <2>14, <3>1, <3>2
    <3>3. CASE j # m
      BY <1>1, <2>6, <3>1, <3>3 DEF LinksAreOrdered
    <3> QED BY <3>2, <3>3
  <2>16. LinksFit'
    <3>1. LinkFits(m)'
      <4>1. /\ invitations'[m] = link /\ interviews'[n] = row /\ row.invitationVersion = v
            /\ row.status = "INVITED" /\ v <= v
        BY <2>2, <2>5, <2>7
      <4>2. link.interview = n /\ link.invitationVersion = v
        OBVIOUS
      <4> QED BY <4>1, <4>2 DEF LinkFits
    <3>2. ASSUME NEW i \in DOMAIN invitations PROVE LinkFits(i)'
      <4>1. LinkFits(i)
        BY <1>1 DEF LinksFit
      <4>2. CASE invitations[i].interview = n
        <5>1. invitations[i].invitationVersion <= v
          BY <2>6, <2>14, <4>2
        <5> QED BY <2>2, <2>6, <2>7, <4>2, <5>1 DEF LinkFits
      <4>3. CASE invitations[i].interview # n
        <5>1. interviews'[invitations[i].interview] = interviews[invitations[i].interview]
          BY <2>6, <2>7, <4>3
        <5> QED BY <1>2, <2>6, <4>1, <5>1 DEF LinkFits
      <4> QED BY <4>2, <4>3
    <3> QED BY <2>6, <3>1, <3>2 DEF LinksFit
  <2>17. LobbyHasALink'
    BY <1>1, <1>3, <2>6 DEF LobbyHasALink
  <2> QED BY <2>8, <2>10, <2>11, <2>12, <2>13, <2>15, <2>16, <2>17 DEF Inv, Links
<1> QED BY <1>4, <1>5

-----------------------------------------------------------------------------
(* The theorems.                                                           *)

LEMMA InitInv == Init => Inv
<1> SUFFICES ASSUME Init PROVE Inv
  OBVIOUS
<1>1. /\ now = 0 /\ interviews = <<>> /\ invitations = <<>> /\ credentials = <<>>
      /\ resending = None /\ withdrawal = None /\ removing = None /\ closing = None
      /\ expiring = 0 /\ exchange = None /\ lobby = None /\ starting = None
      /\ seen = [application |-> application, interviews |-> interviews]
      /\ application = [status |-> "SHORTLISTED", version |-> 1, notes |-> 0, deleted |-> FALSE]
  BY DEF Init
<1>2. /\ application \in ApplicationRow /\ application.version = 1
      /\ application.status = "SHORTLISTED"
      /\ [application EXCEPT !.deleted = application.deleted] = application
  BY <1>1 DEF ApplicationRow, ApplicationStatus
<1>3. /\ DOMAIN interviews = {} /\ DOMAIN invitations = {} /\ DOMAIN credentials = {}
      /\ interviews \in Seq(InterviewRow) /\ invitations \in Seq(InvitationRow)
      /\ credentials \in Seq(CredentialRow) /\ Round = 0
  BY <1>1 DEF Round
<1>4. TypeInvariant
  <2>1. 0 \in 0 .. MaxTime
    BY ConstantsAssumption
  <2>2. seen \in [application : ApplicationRow, interviews : Seq(InterviewRow)]
    BY <1>1, <1>2, <1>3
  <2> QED BY <1>1, <1>2, <1>3, <2>1, <2>2 DEF TypeInvariant
<1>5. Statuses /\ Links /\ LobbyHasALink
  BY <1>1, <1>2, <1>3 DEF Statuses, OpenIsLatest, StatusesAgree, HasOpenInterview, Links,
     InvitedHasALink, LinksAreOrdered, LinksFit, LobbyHasALink
<1>6. Transactions
  BY <1>1 DEF Transactions, WithdrawalHolds, ResendHolds, ClosingHolds
<1>7. SeenIsOld
  BY <1>1, <1>2, <1>3 DEF SeenIsOld, ApplicationVersionNamesTheRow
<1> QED BY <1>4, <1>5, <1>6, <1>7 DEF Inv

\* Every step keeps the invariant.
LEMMA NextKeepsInv == NoOverlap /\ Inv /\ [Next]_vars => Inv'
<1> SUFFICES ASSUME NoOverlap, Inv, [Next]_vars PROVE Inv'
  OBVIOUS
<1>1. CASE Tick \/ HrReads \/ UNCHANGED vars
  BY <1>1, LooksKeepInv
<1>2. CASE HrStep
  <2>1. CASE \E lifetime \in Lifetimes : CreateInterview(lifetime)
    BY <2>1, CreateKeepsInv
  <2>2. ASSUME NEW lifetime \in Lifetimes, BeginResend(now + lifetime) PROVE Inv'
    <3>1. now + lifetime \in Nat
      BY Rows, ConstantsAssumption DEF Inv
    <3> QED BY <2>2, <3>1, TransactionsBeginKeepInv
  <2>3. CASE Round > 0 /\ BeginResend(Latest.expiresAt)
    <3>1. Latest.expiresAt \in Nat
      BY <2>3, Rows DEF Inv, Latest
    <3> QED BY <2>3, <3>1, TransactionsBeginKeepInv
  <2>4. CASE EndResend \/ Revoke \/ EndWithdraw
    BY <2>4, EndResendKeepsInv, RevokeKeepsInv, EndWithdrawKeepsInv
  <2>5. CASE BeginWithdraw \/ WithdrawAborts \/ BeginRemoveCv
    BY <2>5, TransactionsBeginKeepInv
  <2>6. CASE \/ UpdateNotes \/ Remove \/ EndRemoveCv
             \/ \E outcome \in {"APPROVED", "REJECTED"} : Decide(outcome)
    BY <2>6, ApplicationKeepsInv
  <2> QED BY <1>2, <2>1, <2>2, <2>3, <2>4, <2>5, <2>6, Zenon DEF HrStep
<1>3. CASE CandidateStep
  <2>1. CASE \/ \E i \in DOMAIN invitations : BeginExchange(i)
             \/ \E c \in DOMAIN credentials : BeginLobby(c) \/ BeginStart(c)
             \/ RequestDies
    BY <2>1, RequestsBeginKeepInv, Zenon
  <2>2. CASE StoreCredential \/ StampInvitation \/ StampCredential
    BY <2>2, RequestsSaveKeepInv
  <2>3. CASE starting # None /\ \E dbNow \in starting.since .. now : EndStart(dbNow)
    BY <2>3, EndStartKeepsInv, Zenon
  <2> QED BY <1>3, <2>1, <2>2, <2>3, Zenon DEF CandidateStep
<1>4. CASE SystemStep
  <2>1. CASE \E k \in DOMAIN interviews : BeginExpire(k)
    BY <2>1, RequestsBeginKeepInv, Zenon
  <2>2. CASE EndExpire
    BY <2>2, EndExpireKeepsInv
  <2>3. CASE BeginClose \/ CloseAborts
    BY <2>3, TransactionsBeginKeepInv
  <2>4. CASE \E status \in {"COMPLETED", "EXPIRED"} : EndClose(status)
    BY <2>4, EndCloseKeepsInv, Zenon
  <2> QED BY <1>4, <2>1, <2>2, <2>3, <2>4 DEF SystemStep
<1> QED BY <1>1, <1>2, <1>3, <1>4 DEF Next

\* The invariant holds of every instance without the two lost updates.
THEOREM InvariantHolds == ASSUME NoOverlap PROVE Spec => []Inv
<1>1. Init => Inv
  BY InitInv
<1>2. Inv /\ [Next]_vars => Inv'
  BY NextKeepsInv
<1> QED BY <1>1, <1>2, PTL DEF Spec

\* An application is INTERVIEWING exactly while its one open interview is there.
THEOREM InterviewingAlwaysMeansOneOpen ==
  ASSUME NoOverlap PROVE Spec => []InterviewingMeansOneOpen
<1>1. Inv => InterviewingMeansOneOpen
  BY DEF Inv, Statuses, StatusesAgree, Present, OpenIsLatest, InterviewingMeansOneOpen
<1> QED BY <1>1, InvariantHolds, PTL

\* A version HR sends along names the row HR has seen.
THEOREM AccessAlwaysConsistent == ASSUME NoOverlap PROVE Spec => []AccessConsistent
<1>1. Inv => AccessConsistent
  BY DEF Inv, SeenIsOld, InterviewVersionNamesTheRow, InterviewVersionMatches, AccessConsistent
<1> QED BY <1>1, InvariantHolds, PTL

\* Whoever is invited gets in, and no replaced or revoked link admits anybody.
THEOREM LinksAlwaysAdmitWhomTheyShould ==
  ASSUME NoOverlap PROVE Spec => []LinksAdmitWhomTheyShould
<1>1. ASSUME Inv PROVE LinksAdmitWhomTheyShould
  <2>1. /\ TypeInvariant /\ InvitedHasALink /\ LinksAreOrdered /\ LinksFit
    BY <1>1 DEF Inv, Links
  <2>2. ASSUME application.status # "WITHDRAWN", NEW c \in DOMAIN credentials, Admits(c)
        PROVE  LET i == credentials[c].invitation IN
               /\ i \in DOMAIN invitations /\ i \in Nat
               /\ InterviewOf(i).status # "CANCELLED"
               /\ \A j \in DOMAIN invitations :
                    invitations[j].interview = invitations[i].interview => j <= i
    <3> PICK i \in DOMAIN invitations : i = credentials[c].invitation
      BY <2>1, Rows
    <3> PICK k \in DOMAIN interviews : k = invitations[i].interview
      BY <2>1, Rows
    <3>1. invitations[i].invitationVersion = interviews[k].invitationVersion
      BY <2>2 DEF Admits, IsCurrent, InterviewOf
    <3>2. /\ \A j \in DOMAIN invitations :
               j \in Nat /\ invitations[j].invitationVersion \in Nat
          /\ interviews[k].invitationVersion \in Nat
      BY <2>1, Rows
    <3>3. interviews[k].status # "CANCELLED"
      BY <2>1, <2>2, <3>1, <3>2 DEF LinksFit, LinkFits
    <3>4. ASSUME NEW j \in DOMAIN invitations, invitations[j].interview = k PROVE j <= i
      <4>1. invitations[j].invitationVersion <= interviews[k].invitationVersion
        BY <2>1, <2>2, <3>4 DEF LinksFit, LinkFits
      <4>2. i < j => invitations[i].invitationVersion < invitations[j].invitationVersion
        BY <2>1, <3>4 DEF LinksAreOrdered
      <4>3. ~(i < j)
        BY <3>1, <3>2, <4>1, <4>2
      <4> QED BY <3>2, <4>3
    <3> QED BY <3>2, <3>3, <3>4 DEF InterviewOf
  <2>3. ReplacedLinksStayDead
    BY <2>2 DEF ReplacedLinksStayDead
  <2>4. RevokedIsShut
    BY <2>2 DEF RevokedIsShut
  <2> QED BY <2>1, <2>3, <2>4 DEF LinksAdmitWhomTheyShould
<1> QED BY <1>1, InvariantHolds, PTL

-----------------------------------------------------------------------------
(* The stages of the application.                                          *)

Rounds == [k \in DOMAIN interviews |-> interviews[k].status]

\* What the abstract specification reads of the two columns.
LEMMA StageRead ==
  ASSUME TypeInvariant, OpenIsLatest
  PROVE  /\ Len(Rounds) = Round
         /\ Round > 0 => Stages!CurrentRound = Latest.status
         /\ Stages!HasOpenRound <=> HasOpenInterview
<1>1. Round \in Nat /\ DOMAIN interviews = 1 .. Round
  BY Rows
<1>2. Len(Rounds) = Round
  BY <1>1 DEF Rounds
<1>3. Round > 0 => Rounds[Len(Rounds)] = Latest.status
  BY <1>1, <1>2 DEF Rounds, Latest
<1>4. Round > 0 => Stages!CurrentRound = Latest.status
  BY <1>3 DEF Stages!CurrentRound, Rounds
<1>5. Stages!HasOpenRound <=> Round > 0 /\ Stages!CurrentRound \in Open
  BY <1>2 DEF Stages!HasOpenRound, Rounds, Open
<1> QED BY <1>2, <1>4, <1>5, OpenLatest

\* Saving the latest interview ends its round, or leaves the rounds as they are.
LEMMA StageSaved ==
  ASSUME TypeInvariant, OpenIsLatest, Round > 0, NEW row \in InterviewRow,
         interviews' = [interviews EXCEPT ![Round] = row]
  PROVE  /\ Stages!EndRound(row.status)
         /\ row.status = Latest.status => Rounds' = Rounds
<1> PICK n \in Nat : n = Round
  BY Rows
<1>1. /\ n \in DOMAIN interviews /\ DOMAIN interviews' = DOMAIN interviews
      /\ interviews'[n] = row /\ Latest = interviews[n]
      /\ \A k \in DOMAIN interviews : k # n => interviews'[k] = interviews[k]
  BY LatestSaved DEF Latest
<1>2. Rounds' = [Rounds EXCEPT ![n] = row.status]
  BY <1>1 DEF Rounds
<1>3. Len(Rounds) = n
  BY StageRead
<1>4. Rounds' = [Rounds EXCEPT ![Len(Rounds)] = row.status]
  BY <1>2, <1>3
<1>5. row.status = Latest.status => Rounds' = Rounds
  BY <1>1, <1>2 DEF Rounds
<1> QED BY <1>4, <1>5 DEF Stages!EndRound, Rounds

\* Starting or ending the latest interview does so too.
LEMMA StageMoved ==
  ASSUME TypeInvariant, OpenIsLatest, NEW k \in DOMAIN interviews, k = Round,
         NEW status \in InterviewStatus,
         interviews' = [interviews EXCEPT ![k].status = status, ![k].version = @ + 1]
  PROVE  Stages!EndRound(status)
<1>1. Round > 0
  BY Rows
<1>2. PICK row \in InterviewRow :
        /\ interviews' = [interviews EXCEPT ![Round] = row] /\ row.status = status
        /\ row.version > Latest.version /\ row.invitationVersion = Latest.invitationVersion
  BY MovedLatest, Zenon
<1>3. Stages!EndRound(row.status)
  BY <1>1, <1>2, StageSaved
<1> QED BY <1>2, <1>3

\* A step that changes neither column.
LEMMA SameStage ==
  ASSUME application'.status = application.status, Rounds' = Rounds
  PROVE  UNCHANGED Stages!stages
BY DEF Stages!stages, Rounds

\* What a step does to an application that has not been removed.
Follows == Present => Stages!Next \/ UNCHANGED Stages!stages

LEMMA RevokeFollows == ASSUME Inv, Revoke PROVE Follows
<1>1. /\ TypeInvariant /\ OpenIsLatest /\ StatusesAgree /\ Round > 0 /\ Latest.status \in Open
      /\ Present /\ Latest \in InterviewRow
  BY Rows DEF Inv, Statuses, Revoke, Latest
<1> PICK row \in InterviewRow : row = Cancelled(Latest)
  BY <1>1, CancelledRow
<1>2. interviews' = [interviews EXCEPT ![Round] = row] /\ row.status = "CANCELLED"
  BY <1>1, CancelledRow DEF Revoke, Latest
<1>3. Stages!EndRound("CANCELLED") /\ Stages!CurrentRound = Latest.status
  BY <1>1, <1>2, StageRead, StageSaved
<1>4. application.status = "INTERVIEWING"
  BY <1>1, OpenLatest DEF StatusesAgree
<1>5. application'.status = IF Latest.status = "INVITED" THEN "SHORTLISTED" ELSE "UNDER_REVIEW"
  BY <1>1, <1>4, LeavesInterviewing DEF Revoke, ApplicationStatus
<1>6. CASE Latest.status = "INVITED"
  BY <1>3, <1>4, <1>5, <1>6 DEF Follows, Stages!Next, Stages!BackToShortlist
<1>7. CASE Latest.status = "IN_PROGRESS"
  BY <1>3, <1>4, <1>5, <1>7 DEF Follows, Stages!Next, Stages!OnToReview
<1> QED BY <1>1, <1>6, <1>7 DEF Open

LEMMA EndWithdrawFollows == ASSUME Inv, EndWithdraw PROVE Follows
<1>1. /\ TypeInvariant /\ OpenIsLatest /\ WithdrawalHolds /\ withdrawal # None
      /\ application \in ApplicationRow /\ application.version \in Nat
  BY Rows DEF Inv, Statuses, Transactions, EndWithdraw
<1>2. application.status \in {"SHORTLISTED", "INTERVIEWING", "UNDER_REVIEW"}
  BY <1>1, Rows DEF WithdrawalHolds, ApplicationStatus, TERMINAL_APPLICATION_STATUSES
<1>3. application'.status = "WITHDRAWN"
  BY <1>1 DEF EndWithdraw, ApplicationRow
<1>4. CASE withdrawal.round = 0
  <2>1. interviews' = interviews /\ ~Stages!HasOpenRound
    BY <1>1, <1>4, StageRead DEF EndWithdraw, WithdrawalHolds
  <2> QED BY <1>2, <1>3, <2>1 DEF Follows, Stages!Next, Stages!Withdraw
<1>5. CASE withdrawal.round # 0
  <2>1. /\ withdrawal.round = Round /\ Latest.status \in Open /\ withdrawal.row \in InterviewRow
        /\ Round > 0
    <3>1. withdrawal.round = Round /\ Latest.status \in Open /\ withdrawal.row \in InterviewRow
      BY <1>1, <1>5 DEF WithdrawalHolds
    <3> QED BY <1>1, <1>5, <3>1, Rows
  <2> PICK row \in InterviewRow : row = Cancelled(withdrawal.row)
    BY <2>1, CancelledRow
  <2>2. interviews' = [interviews EXCEPT ![Round] = row] /\ row.status = "CANCELLED"
    BY <1>5, <2>1, CancelledRow DEF EndWithdraw
  <2>3. Stages!EndRound("CANCELLED") /\ Stages!HasOpenRound
    BY <1>1, <2>1, <2>2, StageRead, StageSaved, OpenLatest
  <2> QED BY <1>2, <1>3, <2>3 DEF Follows, Stages!Next, Stages!Withdraw
<1> QED BY <1>4, <1>5

LEMMA EndExpireFollows == ASSUME Inv, EndExpire PROVE Follows
<1>1. /\ TypeInvariant /\ OpenIsLatest /\ StatusesAgree /\ expiring # 0
      /\ expiring \in DOMAIN interviews
  BY DEF Inv, Statuses, EndExpire, TypeInvariant
<1>2. CASE ~(Present /\ interviews[expiring].status = "INVITED")
  BY <1>2, SameStage DEF EndExpire, Follows, Rounds
<1>3. CASE Present /\ interviews[expiring].status = "INVITED"
  <2>1. /\ interviews' = [interviews EXCEPT ![expiring].status = "EXPIRED",
                                            ![expiring].version = @ + 1]
        /\ LeaveInterviewing("SHORTLISTED")
    BY <1>3 DEF EndExpire
  <2>2. expiring = Round /\ Latest.status = "INVITED" /\ Latest.status \in Open /\ Round > 0
    BY <1>1, <1>3, Rows DEF OpenIsLatest, Open, Latest
  <2>3. "EXPIRED" \in InterviewStatus
    BY DEF InterviewStatus
  <2>4. Stages!EndRound("EXPIRED") /\ Stages!CurrentRound = "INVITED"
    BY <1>1, <2>1, <2>2, <2>3, StageRead, StageMoved, Zenon
  <2>5. application.status = "INTERVIEWING"
    BY <1>1, <1>3, <2>2, OpenLatest DEF StatusesAgree
  <2>6. application'.status = "SHORTLISTED"
    BY <1>1, <2>1, <2>5, LeavesInterviewing DEF ApplicationStatus
  <2> QED BY <2>4, <2>5, <2>6 DEF Follows, Stages!Next, Stages!BackToShortlist
<1> QED BY <1>2, <1>3

LEMMA EndStartFollows ==
  ASSUME Inv, starting # None, NEW dbNow, EndStart(dbNow)
  PROVE  Follows
<1>1. TypeInvariant /\ OpenIsLatest /\ application' = application
  <2>1. TypeInvariant /\ OpenIsLatest
    BY DEF Inv, Statuses
  <2> QED BY <2>1, Zenon DEF EndStart
<1> PICK c \in DOMAIN credentials, k \in DOMAIN interviews :
      c = starting.credential /\ k = invitations[credentials[c].invitation].interview
  BY <1>1, Rows DEF TypeInvariant
<1>2. CASE ~(interviews[k].status = "INVITED" /\ dbNow <= interviews[k].expiresAt)
  <2>1. interviews' = interviews
    BY <1>2 DEF EndStart
  <2> QED BY <1>1, <2>1, SameStage DEF Follows, Rounds
<1>3. CASE interviews[k].status = "INVITED" /\ dbNow <= interviews[k].expiresAt
  <2>1. interviews' = [interviews EXCEPT ![k].status = "IN_PROGRESS", ![k].version = @ + 1]
    BY <1>3 DEF EndStart
  <2>2. k = Round /\ Latest.status = "INVITED" /\ Latest.status \in Open /\ Round > 0
    <3>1. k = Round
      BY <1>1, <1>3 DEF OpenIsLatest, Open
    <3>2. Round > 0
      BY <1>1, <3>1, Rows
    <3> QED BY <1>3, <3>1, <3>2 DEF Open, Latest
  <2>3. "IN_PROGRESS" \in InterviewStatus
    BY DEF InterviewStatus
  <2>4. Stages!EndRound("IN_PROGRESS")
    BY <1>1, <2>1, <2>2, <2>3, StageMoved, Zenon
  <2>5. Stages!CurrentRound = "INVITED" /\ Stages!HasOpenRound
    BY <1>1, <2>2, StageRead, OpenLatest
  <2> QED BY <1>1, <2>4, <2>5 DEF Follows, Stages!Next, Stages!Begin
<1> QED BY <1>2, <1>3

LEMMA EndCloseFollows ==
  ASSUME Inv, NEW status \in {"COMPLETED", "EXPIRED"}, EndClose(status)
  PROVE  Follows
<1> SUFFICES ASSUME Present PROVE Stages!Next
  BY DEF Follows
<1>1. TypeInvariant /\ OpenIsLatest /\ ClosingHolds /\ closing # None
  BY DEF Inv, Statuses, Transactions, EndClose
<1>2. /\ Round > 0 /\ Latest.status = "IN_PROGRESS" /\ Round \in DOMAIN interviews
      /\ application.status = "INTERVIEWING" /\ ~closing.deleted
  BY <1>1, Rows DEF ClosingHolds, Present
<1>3. Stages!EndRound(status)
  <2> PICK n \in DOMAIN interviews : n = Round
    BY <1>2
  <2>1. interviews' = [interviews EXCEPT ![n].status = status, ![n].version = @ + 1]
    BY DEF EndClose
  <2>2. status \in InterviewStatus
    BY DEF InterviewStatus
  <2> QED BY <1>1, <2>1, <2>2, StageMoved, Zenon
<1>4. Stages!CurrentRound = "IN_PROGRESS"
  BY <1>1, <1>2, StageRead
<1>5. application'.status = "UNDER_REVIEW"
  <2> PICK read \in ApplicationRow : read = closing
    BY <1>1 DEF TypeInvariant
  <2>1. application' = [read EXCEPT !.status = "UNDER_REVIEW", !.version = @ + 1]
    BY <1>2 DEF EndClose
  <2> QED BY <2>1 DEF ApplicationRow
<1> QED BY <1>2, <1>3, <1>4, <1>5 DEF Stages!Next, Stages!OnToReview

LEMMA CreateFollows ==
  ASSUME Inv, NEW lifetime \in Lifetimes, CreateInterview(lifetime)
  PROVE  Follows
<1>1. /\ TypeInvariant /\ OpenIsLatest /\ ~HasOpenInterview /\ application \in ApplicationRow
      /\ application.status = "SHORTLISTED"
  BY Rows DEF Inv, Statuses, CreateInterview
<1>2. application'.status = "INTERVIEWING"
  BY <1>1 DEF CreateInterview, ApplicationRow
<1>3. Rounds' = Append(Rounds, "INVITED")
  <2> PICK n \in Nat : n = Round
    BY <1>1, Rows
  <2>1. interviews \in Seq(InterviewRow) /\ Len(interviews) = n /\ DOMAIN interviews = 1 .. n
    BY <1>1, Rows DEF Round
  <2> PICK row : row = [status |-> "INVITED", version |-> 1, invitationVersion |-> 1,
                        expiresAt |-> now + lifetime]
    OBVIOUS
  <2>2. interviews' = Append(interviews, row) /\ row.status = "INVITED"
    BY DEF CreateInterview
  <2>3. /\ DOMAIN interviews' = 1 .. n + 1 /\ interviews'[n + 1] = row
        /\ \A k \in 1 .. n : interviews'[k] = interviews[k]
    BY <2>1, <2>2
  <2>4. Rounds = [k \in 1 .. n |-> interviews[k].status]
    BY <2>1 DEF Rounds
  <2>5. Rounds' = [k \in 1 .. n + 1 |-> IF k = n + 1 THEN "INVITED" ELSE interviews[k].status]
    BY <2>2, <2>3 DEF Rounds
  <2> QED BY <2>4, <2>5
<1>4. ~Stages!HasOpenRound
  BY <1>1, StageRead
<1> QED BY <1>1, <1>2, <1>3, <1>4 DEF Follows, Stages!Next, Stages!Invite, Rounds

LEMMA EndResendFollows == ASSUME Inv, EndResend PROVE Follows
<1>1. /\ TypeInvariant /\ OpenIsLatest /\ Round > 0 /\ application' = application
  BY DEF Inv, Statuses, Transactions, ResendHolds, EndResend
<1> PICK n \in Nat : n = Round
  BY <1>1, Rows
<1> PICK v, w, expiry :
      /\ v = Latest.invitationVersion + 1 /\ w = Latest.version + 1
      /\ expiry = resending.expiry
  OBVIOUS
<1>2. /\ n \in DOMAIN interviews /\ Latest = interviews[n]
      /\ \A k \in DOMAIN interviews : interviews[k] \in InterviewRow
  BY <1>1, Rows DEF Latest
<1>3. CASE ~Present
  BY <1>3 DEF Follows
<1>4. CASE Present
  <2> PICK row : row = [interviews[n] EXCEPT !.version = w, !.invitationVersion = v,
                                             !.expiresAt = expiry]
    OBVIOUS
  <2>1. interviews' = [interviews EXCEPT ![n] = row]
    BY <1>2, <1>4 DEF EndResend
  <2>2. row.status = interviews[n].status
    BY <1>2 DEF InterviewRow
  <2>3. Rounds' = Rounds
    BY <1>2, <2>1, <2>2 DEF Rounds
  <2> QED BY <1>1, <2>3, SameStage DEF Follows
<1> QED BY <1>3, <1>4

\* The steps that move an application by its own row, or leave both columns.
LEMMA ApplicationFollows ==
  ASSUME Inv, NoOverlap,
         \/ UpdateNotes \/ Remove \/ EndRemoveCv
         \/ \E outcome \in {"APPROVED", "REJECTED"} : Decide(outcome)
  PROVE  Follows
<1>1. TypeInvariant /\ OpenIsLatest /\ application \in ApplicationRow
  BY Rows DEF Inv, Statuses
<1>2. Rounds' = Rounds
  BY DEF UpdateNotes, Remove, EndRemoveCv, Decide, Rounds
<1>3. CASE UpdateNotes \/ Remove \/ EndRemoveCv
  <2>1. application'.status = application.status
    BY <1>1, <1>3 DEF UpdateNotes, Remove, EndRemoveCv, NoOverlap, ApplicationRow
  <2> QED BY <1>2, <2>1, SameStage DEF Follows
<1>4. ASSUME NEW outcome \in {"APPROVED", "REJECTED"}, Decide(outcome) PROVE Follows
  <2>1. /\ application.status = "UNDER_REVIEW" /\ ~HasOpenInterview
        /\ application'.status = outcome
    BY <1>1, <1>4 DEF Decide, ApplicationRow
  <2>2. ~Stages!HasOpenRound
    BY <1>1, <2>1, StageRead
  <2> QED BY <1>2, <2>1, <2>2 DEF Follows, Stages!Next, Stages!Decide, Rounds
<1> QED BY <1>3, <1>4

\* The steps that read or that save links and cookies only.
LEMMA QuietFollows ==
  ASSUME UNCHANGED <<application, interviews>>
  PROVE  Follows
BY SameStage DEF Follows, Rounds

\* Every step is a step of the abstract specification, or a stutter.
LEMMA NextFollows == ASSUME NoOverlap, Inv, [Next]_vars PROVE Follows
<1>1. CASE Tick \/ HrReads \/ UNCHANGED vars
  BY <1>1, QuietFollows DEF Tick, HrReads, vars
<1>2. CASE HrStep
  <2>1. CASE \E lifetime \in Lifetimes : CreateInterview(lifetime)
    BY <2>1, CreateFollows
  <2>2. CASE \/ \E lifetime \in Lifetimes : BeginResend(now + lifetime)
             \/ Round > 0 /\ BeginResend(Latest.expiresAt)
             \/ BeginWithdraw \/ WithdrawAborts \/ BeginRemoveCv
    BY <2>2, QuietFollows, Zenon DEF BeginResend, BeginWithdraw, WithdrawAborts, BeginRemoveCv
  <2>3. CASE EndResend \/ Revoke \/ EndWithdraw
    BY <2>3, EndResendFollows, RevokeFollows, EndWithdrawFollows
  <2>4. CASE \/ UpdateNotes \/ Remove \/ EndRemoveCv
             \/ \E outcome \in {"APPROVED", "REJECTED"} : Decide(outcome)
    BY <2>4, ApplicationFollows
  <2> QED BY <1>2, <2>1, <2>2, <2>3, <2>4, Zenon DEF HrStep
<1>3. CASE CandidateStep
  <2>1. CASE \/ \E i \in DOMAIN invitations : BeginExchange(i)
             \/ \E c \in DOMAIN credentials : BeginLobby(c) \/ BeginStart(c)
             \/ RequestDies \/ StoreCredential \/ StampInvitation \/ StampCredential
    BY <2>1, QuietFollows, Zenon
       DEF BeginExchange, BeginLobby, BeginStart, RequestDies, StoreCredential,
           StampInvitation, StampCredential
  <2>2. CASE starting # None /\ \E dbNow \in starting.since .. now : EndStart(dbNow)
    BY <2>2, EndStartFollows, Zenon
  <2> QED BY <1>3, <2>1, <2>2, Zenon DEF CandidateStep
<1>4. CASE SystemStep
  <2>1. CASE (\E k \in DOMAIN interviews : BeginExpire(k)) \/ BeginClose \/ CloseAborts
    BY <2>1, QuietFollows, Zenon DEF BeginExpire, BeginClose, CloseAborts
  <2>2. CASE EndExpire \/ \E status \in {"COMPLETED", "EXPIRED"} : EndClose(status)
    BY <2>2, EndExpireFollows, EndCloseFollows, Zenon
  <2> QED BY <1>4, <2>1, <2>2, Zenon DEF SystemStep
<1> QED BY <1>1, <1>2, <1>3, <1>4 DEF Next

\* The application and its interviews go through the stages of the lifecycle.
THEOREM ApplicationsAlwaysFollowTheLifecycle == ASSUME NoOverlap PROVE Spec => FollowsLifecycle
<1>1. Init => Stages!Init
  <2> SUFFICES ASSUME Init PROVE Stages!Init
    OBVIOUS
  <2>1. application.status = "SHORTLISTED" /\ interviews = <<>>
    BY DEF Init
  <2> QED BY <2>1 DEF Stages!Init
<1>2. Inv /\ [Next]_vars => [Stages!Next \/ application.deleted]_(Stages!stages)
  BY NextFollows DEF Follows, Present
<1> QED BY <1>1, <1>2, InvariantHolds, PTL DEF Spec, FollowsLifecycle

=============================================================================
