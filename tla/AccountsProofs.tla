--------------------------- MODULE AccountsProofs ---------------------------
(***************************************************************************)
(* What Accounts promises, for all users, tokens, codes and invitations.   *)
(* Sessions, EmailCodes and Memberships are proved apart, each from an     *)
(* invariant on what a call has read and not used yet; a last theorem      *)
(* carries the results over to the composition.                            *)
(***************************************************************************)
EXTENDS Accounts, FiniteSetTheorems, TLAPS

-----------------------------------------------------------------------------
(* Sessions.                                                               *)

LEMMA SessionNumbers ==
    /\ MaxNow \in Nat /\ AccessLife \in Nat /\ RefreshLife \in Nat /\ MasterLife \in Nat
    /\ 0 < MaxNow /\ 0 < AccessLife /\ AccessLife < RefreshLife /\ RefreshLife < MasterLife
    /\ NoToken \notin Token /\ NoToken \notin Int
BY LivesAreOrdered, NoTokenIsFresh

LEMMA SignedTypes ==
    ASSUME now \in Times, NEW k \in {"access", "refresh", "master"} PROVE Signed(k) \in Token
BY DEF Signed, Token

LEMMA ExpiryTypes == now \in Times => KeyExpiry \in Int
BY SessionNumbers DEF KeyExpiry, Times

LEMMA SessionsTypeInit == SessionsInit => SessionsTypeOK
BY SessionNumbers DEF SessionsInit, SessionsTypeOK, Times

LEMMA SessionsTypeStep == SessionsTypeOK /\ [SessionsNext]_sessions => SessionsTypeOK'
<1> SUFFICES ASSUME SessionsTypeOK, [SessionsNext]_sessions
             PROVE  SessionsTypeOK'
    OBVIOUS
<1> USE SessionNumbers DEF SessionsTypeOK
<1>1. CASE Login
    BY <1>1, SignedTypes, ExpiryTypes DEF Login, StorePair, Store
<1>2. CASE IssueMaster
    BY <1>2, SignedTypes DEF IssueMaster, Store
<1>3. CASE SecondPasses
    <2>1. /\ now' \in Times /\ now' = now + 1
          /\ issued' \subseteq issued /\ out' \subseteq issued'
        BY <1>3 DEF SecondPasses, Times
    <2>2. black' \in [Token -> Int \cup {NoToken}]
        BY <1>3 DEF SecondPasses
    <2> QED
        BY <1>3, <2>1, <2>2 DEF SecondPasses
<1>4. ASSUME NEW c \in Calls, NEW t \in issued, AskRefresh(c, t) PROVE SessionsTypeOK'
    BY <1>4 DEF AskRefresh, history
<1>5. ASSUME NEW c \in Calls, NEW t \in issued, NEW h \in {t, NoToken}, AskLogout(c, t, h)
      PROVE  SessionsTypeOK'
    BY <1>5 DEF AskLogout, history
<1>6. ASSUME NEW c \in Calls, Refresh(c) PROVE SessionsTypeOK'
    BY <1>6, SignedTypes, ExpiryTypes DEF Refresh, StorePair, Store, Answered
<1>7. ASSUME NEW c \in Calls, DeleteToken(c) PROVE SessionsTypeOK'
    BY <1>7 DEF DeleteToken
<1>8. ASSUME NEW c \in Calls, Blacklist(c) PROVE SessionsTypeOK'
    <2>1. black' \in [Token -> Int \cup {NoToken}]
        BY <1>8 DEF Blacklist, BlackUntil, Times
    <2> QED
        BY <1>8, <2>1 DEF Blacklist, Answered
<1>9. CASE UNCHANGED sessions
    BY <1>9 DEF sessions
<1> QED
    BY <1>1, <1>2, <1>3, <1>4, <1>5, <1>6, <1>7, <1>8, <1>9 DEF SessionsNext

(* The state, the tokens and the calls' readings of a SessionsSpec have    *)
(* their types at every time.                                              *)
THEOREM SessionsTypeCorrect == SessionsSpec => []SessionsTypeOK
BY SessionsTypeInit, SessionsTypeStep, PTL DEF SessionsSpec

(* The key of the latest token lives as long as the token does.            *)
KeyOutlivesToken ==
    latest # NoToken =>
        /\ latest.kind \in {"refresh", "master"}
        /\ Verified(latest) =>
              /\ stored = latest
              /\ until = IF latest.kind = "master" THEN NoToken ELSE latest.iat + RefreshLife

(* Without a login there is no key, and only a refresh that a logout has   *)
(* crossed may have found one.                                             *)
NoKeyWithoutLogin ==
    latest = NoToken =>
        /\ stored = NoToken
        /\ \A c \in Calls \ crossed : call[c] = "refresh" => got[c] = NoToken

(* Tokens are signed in the past, ...                                      *)
SignedBefore ==
    /\ \A t \in issued : t.iat <= now
    /\ \A c \in Calls : used[c] # NoToken => used[c].iat <= now

(* ... so that an entry made now lives as long as the token does.          *)
EntryOutlivesToken ==
    \A t \in out :
        t.kind = "access" /\ Verified(t) => black[t] \in Int /\ t.iat + AccessLife <= black[t]

SessionsInv == KeyOutlivesToken /\ NoKeyWithoutLogin /\ SignedBefore /\ EntryOutlivesToken

(* A token signed now satisfies what the two invariants ask of the latest. *)
LEMMA StoreKeeps ==
    ASSUME SessionsTypeOK, SessionsInv, NEW k \in {"refresh", "master"}, NEW T,
           Store(T, Signed(k), IF k = "master" THEN NoToken ELSE KeyExpiry),
           \A t \in T : t.iat = now,
           UNCHANGED <<now, black, out>>
    PROVE  /\ KeyOutlivesToken' /\ EntryOutlivesToken'
           /\ \A t \in issued' : t.iat <= now'
           /\ latest' # NoToken
<1> USE SessionNumbers DEF SessionsTypeOK, Store, Signed
<1>1. latest' \in Token /\ latest'.kind = k /\ latest'.iat = now
    BY SignedTypes
<1>2. KeyOutlivesToken'
    BY <1>1 DEF KeyOutlivesToken, KeyExpiry
<1>3. EntryOutlivesToken'
    BY DEF SessionsInv, EntryOutlivesToken, Verified
<1>4. \A t \in issued' : t.iat <= now'
    BY DEF SessionsInv, SignedBefore, Times
<1> QED
    BY <1>1, <1>2, <1>3, <1>4

LEMMA PairKeeps ==
    ASSUME SessionsTypeOK, SessionsInv, StorePair, UNCHANGED <<now, black, out>>
    PROVE  /\ KeyOutlivesToken' /\ EntryOutlivesToken'
           /\ \A t \in issued' : t.iat <= now'
           /\ latest' # NoToken
<1> DEFINE T == {Signed("access"), Signed("refresh")}
<1>1. Store(T, Signed("refresh"), IF "refresh" = "master" THEN NoToken ELSE KeyExpiry)
    BY DEF StorePair
<1>2. \A t \in T : t.iat = now
    BY DEF Signed
<1> QED
    BY <1>1, <1>2, StoreKeeps

LEMMA SessionsStep ==
    SessionsTypeOK /\ SessionsInv /\ [SessionsNext]_sessions => SessionsInv'
<1> SUFFICES ASSUME SessionsTypeOK, SessionsInv, [SessionsNext]_sessions
             PROVE  SessionsInv'
    OBVIOUS
<1> USE SessionNumbers
<1> USE DEF SessionsTypeOK
<1>1. CASE Login
    <2>1. StorePair /\ UNCHANGED <<now, black, out>>
        BY <1>1 DEF Login
    <2>2. SignedBefore' /\ NoKeyWithoutLogin'
        BY <1>1, <2>1, PairKeeps DEF Login, SessionsInv, SignedBefore, NoKeyWithoutLogin
    <2> QED
        BY <2>1, <2>2, PairKeeps DEF SessionsInv
<1>2. CASE IssueMaster
    <2>1. Store({Signed("master")}, Signed("master"),
                IF "master" = "master" THEN NoToken ELSE KeyExpiry)
        BY <1>2 DEF IssueMaster
    <2>2. UNCHANGED <<now, black, out>> /\ \A t \in {Signed("master")} : t.iat = now
        BY <1>2 DEF IssueMaster, Signed
    <2>3. KeyOutlivesToken' /\ EntryOutlivesToken' /\ latest' # NoToken
        BY <2>1, <2>2, StoreKeeps
    <2>4. \A t \in issued' : t.iat <= now'
        BY <2>1, <2>2, StoreKeeps
    <2>5. SignedBefore' /\ NoKeyWithoutLogin'
        BY <1>2, <2>3, <2>4 DEF IssueMaster, SessionsInv, SignedBefore, NoKeyWithoutLogin
    <2> QED
        BY <2>3, <2>5 DEF SessionsInv
<1>3. CASE SecondPasses
    <2>1. now' = now + 1 /\ now \in Nat /\ now' \in Nat
        BY <1>3 DEF SecondPasses, Times
    <2>2. KeyOutlivesToken'
        <3> SUFFICES ASSUME latest # NoToken, Verified(latest)'
                     PROVE  until # now + 1 /\ Verified(latest)
            BY <1>3, <2>1 DEF SecondPasses, KeyOutlivesToken, SessionsInv
        <3>1. latest' = latest /\ latest \in Token
            BY <1>3 DEF SecondPasses
        <3>2. latest.iat \in Nat /\ latest.kind \in {"refresh", "master"}
            BY <3>1 DEF Token, Times, KeyOutlivesToken, SessionsInv
        <3>3. Verified(latest)
            BY <2>1, <3>1, <3>2 DEF Verified, Life
        <3>4. until = IF latest.kind = "master" THEN NoToken ELSE latest.iat + RefreshLife
            BY <3>3 DEF KeyOutlivesToken, SessionsInv
        <3> QED
            BY <2>1, <3>1, <3>2, <3>3, <3>4 DEF Verified, Life
    <2>3. NoKeyWithoutLogin'
        BY <1>3 DEF SecondPasses, NoKeyWithoutLogin, SessionsInv
    <2>4. SignedBefore'
        <3>1. \A t \in Token : t.iat <= now => t.iat <= now'
            BY <2>1 DEF Token, Times
        <3> QED
            BY <1>3, <3>1 DEF SecondPasses, SignedBefore, SessionsInv
    <2>5. EntryOutlivesToken'
        <3> SUFFICES ASSUME NEW t \in out', t.kind = "access", Verified(t)'
                     PROVE  black'[t] \in Int /\ t.iat + AccessLife <= black'[t]
            BY DEF EntryOutlivesToken
        <3>1. t \in out /\ t \in Token /\ t.iat \in Nat
            BY <1>3 DEF SecondPasses, Token, Times
        <3>2. black[t] \in Int /\ t.iat + AccessLife <= black[t]
            BY <2>1, <3>1 DEF Verified, Life, EntryOutlivesToken, SessionsInv
        <3>3. black[t] # now + 1
            BY <2>1, <3>1, <3>2 DEF Verified, Life
        <3> QED
            BY <1>3, <3>1, <3>2, <3>3 DEF SecondPasses
    <2> QED
        BY <2>2, <2>3, <2>4, <2>5 DEF SessionsInv
<1>4. ASSUME NEW c \in Calls, NEW t \in issued, AskRefresh(c, t)
      PROVE  SessionsInv'
    <2> USE <1>4 DEF AskRefresh, history, SessionsInv
    <2>1. KeyOutlivesToken' /\ EntryOutlivesToken'
        BY DEF KeyOutlivesToken, EntryOutlivesToken, Verified
    <2>2. NoKeyWithoutLogin'
        BY DEF NoKeyWithoutLogin
    <2>3. SignedBefore'
        BY DEF SignedBefore
    <2> QED
        BY <2>1, <2>2, <2>3
<1>5. ASSUME NEW c \in Calls, NEW t \in issued, NEW h \in {t, NoToken}, AskLogout(c, t, h)
      PROVE  SessionsInv'
    <2> USE <1>5 DEF AskLogout, history, SessionsInv
    <2>1. KeyOutlivesToken' /\ EntryOutlivesToken'
        BY DEF KeyOutlivesToken, EntryOutlivesToken, Verified
    <2>2. NoKeyWithoutLogin'
        BY DEF NoKeyWithoutLogin
    <2>3. SignedBefore'
        BY DEF SignedBefore
    <2> QED
        BY <2>1, <2>2, <2>3
<1>6. ASSUME NEW c \in Calls, Refresh(c)
      PROVE  SessionsInv'
    <2>1. CASE TokenMatches(c)
        <3>1. StorePair /\ UNCHANGED <<now, black, out>>
            BY <1>6, <2>1 DEF Refresh
        <3>2. SignedBefore' /\ NoKeyWithoutLogin'
            BY <1>6, <3>1, PairKeeps
            DEF Refresh, Answered, SessionsInv, SignedBefore, NoKeyWithoutLogin
        <3> QED
            BY <3>1, <3>2, PairKeeps DEF SessionsInv
    <2>2. CASE ~TokenMatches(c)
        BY <1>6, <2>2 DEF Refresh, Answered, SessionsInv, SignedBefore, NoKeyWithoutLogin,
           KeyOutlivesToken, EntryOutlivesToken, Verified
    <2> QED
        BY <2>1, <2>2
<1>7. ASSUME NEW c \in Calls, DeleteToken(c)
      PROVE  SessionsInv'
    BY <1>7 DEF DeleteToken, SessionsInv, SignedBefore, NoKeyWithoutLogin,
       KeyOutlivesToken, EntryOutlivesToken, Verified
<1>8. ASSUME NEW c \in Calls, Blacklist(c)
      PROVE  SessionsInv'
    <2>1. /\ used[c] # NoToken => used[c] \in Token /\ used[c].iat \in Nat /\ used[c].iat <= now
          /\ now \in Nat
          /\ UNCHANGED <<now, issued, stored, until, crossed, latest>>
        BY <1>8 DEF Blacklist, SessionsInv, SignedBefore, Token, Times
    <2>2. KeyOutlivesToken' /\ NoKeyWithoutLogin' /\ SignedBefore'
        BY <1>8, <2>1 DEF Blacklist, Answered, SessionsInv, SignedBefore, NoKeyWithoutLogin,
           KeyOutlivesToken, Verified
    <2>3. EntryOutlivesToken'
        BY <1>8, <2>1 DEF Blacklist, BlackUntil, SessionsInv, EntryOutlivesToken, Verified
    <2> QED
        BY <2>2, <2>3 DEF SessionsInv
<1>9. CASE UNCHANGED sessions
    BY <1>9 DEF sessions, SessionsInv, SignedBefore, NoKeyWithoutLogin,
       KeyOutlivesToken, EntryOutlivesToken, Verified
<1> QED
    BY <1>1, <1>2, <1>3, <1>4, <1>5, <1>6, <1>7, <1>8, <1>9 DEF SessionsNext

LEMMA SessionsCorrect == SessionsSpec => []SessionsInv
<1>1. SessionsInit => SessionsInv
    BY DEF SessionsInit, SessionsInv, SignedBefore, NoKeyWithoutLogin,
       KeyOutlivesToken, EntryOutlivesToken
<1> QED
    BY <1>1, SessionsTypeCorrect, SessionsStep, PTL DEF SessionsSpec

(* The refresh token handed out last is the one refresh compares with, as  *)
(* long as it is good, whatever refused or crossing calls do.              *)
THEOREM LatestTokenAlwaysWorks == SessionsSpec => []LatestTokenWorks
<1>1. SessionsInv => LatestTokenWorks
    BY DEF SessionsInv, KeyOutlivesToken, LatestTokenWorks
<1> QED
    BY <1>1, SessionsCorrect, PTL

(* JwtAuthGuard refuses an access token for the rest of its life once a    *)
(* logout that carried it in its Authorization header was answered.  Said  *)
(* of the header and of access tokens only: ?token= leaves no entry, and   *)
(* refresh and master tokens outlive theirs.                               *)
THEOREM LoggedOutAreRefused == SessionsSpec => []LoggedOutIsRefused
<1>1. SessionsTypeOK /\ SessionsInv => LoggedOutIsRefused
    BY SessionNumbers
    DEF SessionsTypeOK, SessionsInv, EntryOutlivesToken, LoggedOutIsRefused, Accepted
<1> QED
    BY <1>1, SessionsCorrect, SessionsTypeCorrect, PTL

(* After a logout only a login, or a refresh that had read the key before  *)
(* the logout deleted it, hands out a token the server will refresh.       *)
THEOREM LogoutsLast == SessionsSpec => LoggedOutStaysOut
<1>1. SessionsTypeOK /\ SessionsInv /\ [SessionsNext]_sessions =>
          [latest = NoToken /\ latest' # NoToken =>
              \/ Login \/ IssueMaster
              \/ \E c \in crossed : Refresh(c)]_sessions
    <2> SUFFICES ASSUME SessionsTypeOK, SessionsInv, SessionsNext,
                        latest = NoToken, latest' # NoToken, ~Login, ~IssueMaster
                 PROVE  \E c \in crossed : Refresh(c)
        OBVIOUS
    <2>1. PICK c \in Calls : Refresh(c)
        BY DEF SessionsNext, SecondPasses, AskRefresh, AskLogout, DeleteToken, Blacklist, history
    <2>2. used[c] # NoToken /\ call[c] = "refresh" /\ got[c] = used[c]
        BY <2>1 DEF Refresh, TokenMatches, SessionsTypeOK
    <2> QED
        BY <2>1, <2>2 DEF SessionsInv, NoKeyWithoutLogin
<1> QED
    BY <1>1, SessionsCorrect, SessionsTypeCorrect, PTL DEF SessionsSpec, LoggedOutStaysOut

-----------------------------------------------------------------------------
(* EmailCodes.                                                             *)

LEMMA CodeNumbers ==
    /\ MaxMails \in Nat /\ MaxAttempts \in Nat /\ MaxUsers \in Nat
    /\ 0 < MaxMails /\ 0 < MaxAttempts /\ 0 < MaxUsers
    /\ NoCode \notin Code
BY CodeBounds, NoCodeIsFresh

(* Calls hold what they have read, and the codes mailed are within bounds. *)
ReadingsHeld ==
    /\ mailed <= MaxMails
    /\ \A v \in Visitors : doing[v] = "answer" => read[v] # NoCode

CodesInv ==
    /\ CodesTypeOK
    /\ ReadingsHeld
    /\ CodeIsCurrent

(* A call of signUp is worth one verification from the mark it read on.    *)
Paid(v) == doing[v] \in {"hash", "create"} => tries < marks

(* Alone, a sign-up finds no user and no mark but those made after its DEL *)
(* is answered.                                                            *)
OneAtATime ==
    ~together =>
        /\ \A v, w \in SigningUp : v = w
        /\ \A v \in SigningUp : users = 0 /\ Paid(v)
        /\ users <= 1
        /\ tries <= marks
        /\ verified => tries < marks
        /\ verified => \A v \in Visitors : doing[v] = "create" => tries + 1 < marks

LEMMA CodesInitially == CodesInit => CodesInv /\ OneAtATime
<1> SUFFICES ASSUME CodesInit
             PROVE  CodesInv /\ OneAtATime
    OBVIOUS
<1> USE CodeNumbers DEF CodesInit
<1>1. CodesTypeOK
    <2>1. users \in 0 .. MaxUsers /\ {mailed, marks, tries, wrong} \subseteq Nat
        OBVIOUS
    <2>2. {overrun, together} \subseteq BOOLEAN /\ verified \in BOOLEAN
        OBVIOUS
    <2> QED
        BY <2>1, <2>2 DEF CodesTypeOK
<1>2. ReadingsHeld /\ CodeIsCurrent
    BY DEF ReadingsHeld, CodeIsCurrent
<1>3. OneAtATime
    BY DEF OneAtATime, SigningUp
<1> QED
    BY <1>1, <1>2, <1>3 DEF CodesInv

LEMMA CodesStep == CodesInv /\ [CodesNext]_codes => CodesInv'
<1> SUFFICES ASSUME CodesInv, [CodesNext]_codes
             PROVE  CodesInv'
    OBVIOUS
<1> USE CodeNumbers
<1> USE DEF CodesInv, CodesTypeOK, ReadingsHeld, CodeIsCurrent, answers, mails, signups
<1>1. CASE SendMail
    <2>1. mailed' \in Nat /\ mailed' <= MaxMails /\ code' \in Code
        BY <1>1 DEF SendMail, Code
    <2>2. code' = [id |-> mailed', attempts |-> wrong', lasting |-> FALSE]
        BY <1>1 DEF SendMail
    <2>3. wrong' \in Nat /\ overrun' \in BOOLEAN
        BY <1>1 DEF SendMail
    <2> QED
        BY <1>1, <2>1, <2>2, <2>3 DEF SendMail
<1>2. CASE CodeExpires
    BY <1>2 DEF CodeExpires
<1>3. CASE MarkExpires
    BY <1>3 DEF MarkExpires
<1>4. ASSUME NEW v \in Visitors, NEW isRight \in BOOLEAN, AskVerify(v, isRight)
      PROVE  CodesInv'
    BY <1>4 DEF AskVerify, Turn
<1>5. ASSUME NEW v \in Visitors, AnswerWrong(v)
      PROVE  CodesInv'
    <2>1. read[v] \in Code
        BY <1>5 DEF AnswerWrong, Turn
    <2>2. code' \in Code \cup {NoCode}
        BY <1>5, <2>1 DEF AnswerWrong, TooMany, Lasting, Code
    <2>3. /\ doing' = [doing EXCEPT ![v] = "none"]
          /\ read' = [read EXCEPT ![v] = NoCode]
          /\ wrong' = wrong + 1 /\ overrun' = (overrun \/ code # read[v])
          /\ UNCHANGED <<verified, users, right, mailed, marks, tries, together>>
        BY <1>5 DEF AnswerWrong, Turn
    <2>4. CodesTypeOK' /\ ReadingsHeld'
        BY <2>2, <2>3
    <2>5. CodeIsCurrent'
        <3> SUFFICES ASSUME code' # NoCode, ~overrun'
                     PROVE  code' = [id |-> mailed', attempts |-> wrong', lasting |-> FALSE]
            OBVIOUS
        <3>1. code = read[v] /\ ~overrun
            BY <2>3
        <3>2. code = [id |-> mailed, attempts |-> wrong, lasting |-> FALSE]
            BY <2>1, <3>1
        <3>3. code # NoCode
            BY <2>1, <3>1
        <3>4. read[v].id = mailed /\ read[v].attempts = wrong
            BY <3>1, <3>2
        <3>5. ~code.lasting
            BY <3>2, Zenon
        <3>6. code' = [id |-> mailed, attempts |-> wrong + 1, lasting |-> FALSE]
            BY <1>5, <3>3, <3>4, <3>5 DEF AnswerWrong, Lasting
        <3> QED
            BY <2>3, <3>6
    <2> QED
        BY <2>4, <2>5
<1>6. ASSUME NEW v \in Visitors, AnswerRight(v)
      PROVE  CodesInv'
    BY <1>6 DEF AnswerRight, Turn
<1>7. ASSUME NEW v \in Visitors, MarkVerified(v)
      PROVE  CodesInv'
    BY <1>7 DEF MarkVerified, Turn
<1>8. ASSUME NEW v \in Visitors, AskSignUp(v)
      PROVE  CodesInv'
    BY <1>8 DEF AskSignUp, Turn
<1>9. ASSUME NEW v \in Visitors, GetMark(v)
      PROVE  CodesInv'
    BY <1>9 DEF GetMark, Turn
<1>10. ASSUME NEW v \in Visitors, DeleteMark(v)
       PROVE  CodesInv'
    BY <1>10 DEF DeleteMark, Turn, MarkLeft
<1>11. ASSUME NEW v \in Visitors, Create(v)
       PROVE  CodesInv'
    BY <1>11 DEF Create, Turn
<1>12. CASE UNCHANGED codes
    BY <1>12 DEF codes
<1> QED
    BY <1>1, <1>2, <1>3, <1>4, <1>5, <1>6, <1>7, <1>8, <1>9, <1>10, <1>11, <1>12
    DEF CodesNext

LEMMA SignUpStep == CodesTypeOK /\ OneAtATime /\ [CodesNext]_codes => OneAtATime'
<1> SUFFICES ASSUME CodesTypeOK, OneAtATime, [CodesNext]_codes
             PROVE  OneAtATime'
    OBVIOUS
<1> USE CodeNumbers
<1> USE DEF CodesTypeOK, OneAtATime, SigningUp, Paid, answers, mails, signups
<1>1. CASE SendMail \/ CodeExpires
    BY <1>1 DEF SendMail, CodeExpires
<1>2. CASE MarkExpires
    BY <1>2 DEF MarkExpires
<1>3. ASSUME NEW v \in Visitors, NEW isRight \in BOOLEAN, AskVerify(v, isRight)
      PROVE  OneAtATime'
    BY <1>3 DEF AskVerify, Turn
<1>4. ASSUME NEW v \in Visitors, AnswerWrong(v) \/ AnswerRight(v)
      PROVE  OneAtATime'
    BY <1>4 DEF AnswerWrong, AnswerRight, Turn
<1>5. ASSUME NEW v \in Visitors, MarkVerified(v)
      PROVE  OneAtATime'
    BY <1>5 DEF MarkVerified, Turn
<1>6. ASSUME NEW v \in Visitors, AskSignUp(v)
      PROVE  OneAtATime'
    BY <1>6 DEF AskSignUp, Turn
<1>7. ASSUME NEW v \in Visitors, GetMark(v)
      PROVE  OneAtATime'
    BY <1>7 DEF GetMark, Turn
<1>8. ASSUME NEW v \in Visitors, DeleteMark(v)
      PROVE  OneAtATime'
    BY <1>8 DEF DeleteMark, Turn, MarkLeft
<1>9. ASSUME NEW v \in Visitors, Create(v)
      PROVE  OneAtATime'
    BY <1>9 DEF Create, Turn
<1>10. CASE UNCHANGED codes
    BY <1>10 DEF codes
<1> QED
    BY <1>1, <1>2, <1>3, <1>4, <1>5, <1>6, <1>7, <1>8, <1>9, <1>10 DEF CodesNext

(* Outside overlaps the code in Redis is the one mailed last, with every   *)
(* wrong answer counted and a time to live.                                *)
THEOREM CodesStayCurrent == CodesSpec => []CodeIsCurrent
<1>1. CodesInv => CodeIsCurrent
    BY DEF CodesInv
<1> QED
    BY <1>1, CodesInitially, CodesStep, PTL DEF CodesSpec

(* While sign-ups for an address come one by one, it gets one user and     *)
(* each attempt is paid by a verification of its own.                      *)
THEOREM OneUserPerVerification == CodesSpec => []OneUserVerified
<1>1. CodesInv => CodesTypeOK
    BY DEF CodesInv
<1>2. OneAtATime => OneUserVerified
    BY DEF OneAtATime, OneUserVerified
<1> QED
    BY <1>1, <1>2, CodesInitially, CodesStep, SignUpStep, PTL DEF CodesSpec

-----------------------------------------------------------------------------
(* Memberships.                                                            *)

LEMMA MembersTypeInit == MembersInit => MembersTypeOK
BY DEF MembersInit, MembersTypeOK

LEMMA InviteTypes == NoInvite \notin Invite /\ MaxInvites \in Nat
BY NoInviteIsFresh, InviteBound

(* The invitations are numbered in the order they were made in.            *)
Numbered ==
    /\ IsFiniteSet(offered)
    /\ \A i \in offered : i.id <= Cardinality(offered)
    /\ \A i, j \in offered : i.id = j.id => i = j

(* No call can be under way for a workspace that is not there.             *)
NothingBeforeOpen ==
    ~open =>
        /\ rows = {} /\ invite = NoInvite
        /\ \A t \in Tab : held[t] = NoInvite /\ asked[t] = NoInvite

(* Two calls of a user that hold an invitation at once are a race.         *)
HoldersRace ==
    \A s, t \in Tab :
        s # t /\ s[1] = t[1] /\ held[s] # NoInvite /\ held[t] # NoInvite => s[1] \in racing

(* A cleared call holds the invitation it was typed for, and its user has  *)
(* no row yet.                                                             *)
ClearedRightly ==
    \A t \in cleared :
        /\ held[t].id = typed[t].id
        /\ t[1] \notin racing => RowsOf(t[1]) = {}

RowsAreSingle == \A u \in Users \ racing : \A p, q \in RowsOf(u) : p = q

MembersInv ==
    /\ MembersTypeOK
    /\ Numbered /\ NothingBeforeOpen /\ HoldersRace /\ ClearedRightly /\ RowsAreSingle

LEMMA MembersInitially == MembersInit => MembersInv
BY MembersTypeInit, FS_EmptySet
DEF MembersInit, MembersInv, Numbered, NothingBeforeOpen, HoldersRace, ClearedRightly,
    RowsAreSingle, RowsOf

(* A call that leaves changes nothing the others are compared with.        *)
LEMMA LeavingKeeps ==
    ASSUME MembersInv, NEW t \in Tab, Left(t), UNCHANGED <<open, invite, offered, asked, racing>>
    PROVE  /\ rows' \subseteq [user : Users, role : Roles, via : Tabs] => MembersTypeOK'
           /\ Numbered' /\ HoldersRace'
           /\ \A s \in cleared' : s \in cleared /\ s # t /\ held'[s] = held[s] /\ typed'[s] = typed[s]
<1> USE DEF MembersInv, MembersTypeOK, Left
<1>1. /\ typed' \in [Tab -> offered' \cup {NoInvite}]
      /\ held' \in [Tab -> offered' \cup {NoInvite}]
      /\ \A s \in Tab : typed'[s] = NoInvite <=> held'[s] = NoInvite
      /\ cleared' \subseteq {s \in Tab : held'[s] # NoInvite}
    OBVIOUS
<1>2. Numbered'
    BY DEF Numbered
<1>3. HoldersRace'
    BY DEF HoldersRace
<1> QED
    BY <1>1, <1>2, <1>3

LEMMA MembersStep == MembersInv /\ [MembersNext]_members => MembersInv'
<1> SUFFICES ASSUME MembersInv, [MembersNext]_members
             PROVE  MembersInv'
    OBVIOUS
<1> USE InviteTypes
<1> USE DEF MembersInv
<1>1. CASE InviteExpires
    BY <1>1 DEF InviteExpires, MembersTypeOK, Numbered, NothingBeforeOpen, HoldersRace,
       ClearedRightly, RowsAreSingle, RowsOf
<1>2. ASSUME NEW t \in Tab, NEW role \in Roles, CreateWorkspace(t, role)
      PROVE  MembersInv'
    <2> USE <1>2 DEF CreateWorkspace, Insert
    <2>1. t[1] \in Users /\ t[2] \in Tabs
        BY DEF Tab
    <2>2. rows = {} /\ cleared = {} /\ rows' = {[user |-> t[1], role |-> role, via |-> t[2]]}
        BY DEF NothingBeforeOpen, MembersTypeOK
    <2>3. MembersTypeOK'
        BY <2>1, <2>2 DEF MembersTypeOK
    <2> QED
        BY <2>2, <2>3 DEF Numbered, NothingBeforeOpen, HoldersRace, ClearedRightly,
           RowsAreSingle, RowsOf
<1>3. ASSUME NEW t \in Tab, NEW role \in Roles, AskInvite(t, role)
      PROVE  MembersInv'
    <2> USE <1>3 DEF AskInvite
    <2>1. open
        BY DEF MayInvite, RowsOf, NothingBeforeOpen, MembersTypeOK
    <2>2. MembersTypeOK'
        BY DEF MembersTypeOK
    <2> QED
        BY <2>1, <2>2 DEF Numbered, NothingBeforeOpen, HoldersRace, ClearedRightly,
           RowsAreSingle, RowsOf
<1>4. ASSUME NEW t \in Tab, SetInvite(t)
      PROVE  MembersInv'
    <2> USE <1>4 DEF SetInvite
    <2>1. IsFiniteSet(offered) /\ Cardinality(offered) \in Nat
        BY FS_CardinalityType DEF Numbered
    <2>2. invite' \notin offered
        BY <2>1 DEF Numbered
    <2>3. IsFiniteSet(offered') /\ Cardinality(offered') = Cardinality(offered) + 1
        BY <2>1, <2>2, FS_AddElement
    <2>4. Numbered'
        <3>1. \A i \in offered : i.id \in Nat
            BY DEF MembersTypeOK, Invite
        <3>2. invite'.id = Cardinality(offered) + 1 /\ offered' = offered \cup {invite'}
            OBVIOUS
        <3>3. \A i \in offered : i.id <= Cardinality(offered) /\ i.id # invite'.id
            BY <2>1, <3>1, <3>2 DEF Numbered
        <3>4. \A i \in offered' : i.id <= Cardinality(offered')
            BY <2>1, <2>3, <3>1, <3>2, <3>3
        <3>5. \A i, j \in offered' : i.id = j.id => i = j
            BY <3>2, <3>3 DEF Numbered
        <3> QED
            BY <2>3, <3>4, <3>5 DEF Numbered
    <2>5. open /\ asked[t] \in Roles
        BY DEF NothingBeforeOpen, MembersTypeOK
    <2>6. MembersTypeOK'
        <3>1. invite' \in Invite
            BY <2>1, <2>5 DEF Invite
        <3> QED
            BY <3>1 DEF MembersTypeOK
    <2> QED
        BY <2>4, <2>5, <2>6 DEF NothingBeforeOpen, HoldersRace, ClearedRightly,
           RowsAreSingle, RowsOf
<1>5. ASSUME NEW t \in Tab, NEW i \in offered, AskJoin(t, i)
      PROVE  MembersInv'
    <2> USE <1>5 DEF AskJoin
    <2>1. /\ open /\ invite \in offered /\ i # NoInvite
          /\ t \notin cleared
          /\ racing \subseteq racing' /\ racing' \subseteq racing \cup {t[1]}
          /\ t[1] \in Users /\ t[2] \in Tabs /\ t = <<t[1], t[2]>>
        BY DEF NothingBeforeOpen, MembersTypeOK, Free, Tab
    <2>2. MembersTypeOK'
        BY <2>1 DEF MembersTypeOK
    <2>3. ASSUME NEW s \in Tab, s # t, s[1] = t[1], held[s] # NoInvite
          PROVE  t[1] \in racing'
        <3>1. s[2] \in Tabs /\ s = <<t[1], s[2]>>
            BY <2>3 DEF Tab
        <3> QED
            BY <2>3, <3>1
    <2>4. HoldersRace'
        BY <2>1, <2>3 DEF HoldersRace, MembersTypeOK
    <2>5. ClearedRightly'
        BY <2>1 DEF ClearedRightly, MembersTypeOK, RowsOf
    <2>6. RowsAreSingle'
        BY <2>1 DEF RowsAreSingle, RowsOf
    <2> QED
        BY <2>1, <2>2, <2>4, <2>5, <2>6 DEF Numbered, NothingBeforeOpen
<1>6. ASSUME NEW t \in Tab, CheckMember(t)
      PROVE  MembersInv'
    <2>1. UNCHANGED <<open, rows, invite, offered, asked, racing>> /\ open
        BY <1>6 DEF CheckMember, NothingBeforeOpen
    <2>2. RowsAreSingle' /\ NothingBeforeOpen'
        BY <2>1 DEF RowsAreSingle, RowsOf, NothingBeforeOpen
    <2>3. CASE CodeMatches(t) /\ NotYetMember(t[1])
        BY <1>6, <2>1, <2>2, <2>3
        DEF CheckMember, CodeMatches, NotYetMember, MembersTypeOK, Numbered, HoldersRace,
            ClearedRightly, RowsOf
    <2>4. CASE ~(CodeMatches(t) /\ NotYetMember(t[1]))
        <3>1. Left(t)
            BY <1>6, <2>4 DEF CheckMember
        <3>2. rows' \subseteq [user : Users, role : Roles, via : Tabs]
            BY <2>1 DEF MembersTypeOK
        <3>3. ClearedRightly'
            BY <2>1, <3>1, LeavingKeeps DEF ClearedRightly, RowsOf
        <3> QED
            BY <2>1, <2>2, <3>1, <3>2, <3>3, LeavingKeeps
    <2> QED
        BY <2>3, <2>4
<1>7. ASSUME NEW t \in Tab, JoinWorkspace(t)
      PROVE  MembersInv'
    <2>1. /\ UNCHANGED <<open, invite, offered, asked, racing>> /\ Left(t)
          /\ t \in cleared /\ held[t] \in Invite /\ open
          /\ t[1] \in Users /\ t[2] \in Tabs
        BY <1>7 DEF JoinWorkspace, NothingBeforeOpen, MembersTypeOK, Tab
    <2>2. \A row \in rows' \ rows :
              /\ row = [user |-> t[1], role |-> held[t].role, via |-> t[2]]
              /\ row \in [user : Users, role : Roles, via : Tabs]
        BY <1>7, <2>1 DEF JoinWorkspace, Insert, Invite
    <2>3. rows' \subseteq [user : Users, role : Roles, via : Tabs]
        BY <2>2 DEF MembersTypeOK
    <2>4. \A u : u # t[1] => RowsOf(u)' = RowsOf(u)
        BY <1>7 DEF JoinWorkspace, Insert, RowsOf
    <2>5. ASSUME NEW s \in cleared', t[1] \notin racing
          PROVE  s[1] # t[1]
        <3>1. s \in cleared /\ s # t /\ s \in Tab /\ held[s] # NoInvite
            BY <2>1, <2>5, LeavingKeeps DEF MembersTypeOK
        <3> QED
            BY <2>1, <2>5, <3>1 DEF HoldersRace
    <2>6. ClearedRightly'
        BY <2>1, <2>4, <2>5, LeavingKeeps DEF ClearedRightly
    <2>7. t[1] \notin racing => \A p, q \in RowsOf(t[1])' : p = q
        <3>1. t[1] \notin racing => RowsOf(t[1]) = {}
            BY <2>1 DEF ClearedRightly
        <3> QED
            BY <2>2, <3>1 DEF RowsOf
    <2>8. RowsAreSingle'
        BY <2>1, <2>4, <2>7 DEF RowsAreSingle
    <2>9. NothingBeforeOpen'
        BY <2>1 DEF NothingBeforeOpen
    <2> QED
        BY <2>1, <2>3, <2>6, <2>8, <2>9, LeavingKeeps
<1>8. CASE UNCHANGED members
    BY <1>8 DEF members, MembersTypeOK, Numbered, NothingBeforeOpen, HoldersRace,
       ClearedRightly, RowsAreSingle, RowsOf
<1> QED
    BY <1>1, <1>2, <1>3, <1>4, <1>5, <1>6, <1>7, <1>8 DEF MembersNext

LEMMA MembersCorrect == MembersSpec => []MembersInv
BY MembersInitially, MembersStep, PTL DEF MembersSpec

(* A user who does not join twice at once has at most one row.             *)
THEOREM UsersHaveOneRow == MembersSpec => []OneRow
<1>1. MembersInv => OneRow
    <2> SUFFICES ASSUME RowsAreSingle, NEW u \in Users \ racing
                 PROVE  Cardinality(RowsOf(u)) <= 1
        BY DEF MembersInv, OneRow
    <2>1. CASE RowsOf(u) = {}
        BY <2>1, FS_EmptySet
    <2>2. ASSUME NEW p \in RowsOf(u)
          PROVE  Cardinality(RowsOf(u)) = 1
        <3>1. RowsOf(u) = {p}
            BY DEF RowsAreSingle
        <3> QED
            BY <3>1, FS_Singleton
    <2> QED
        BY <2>1, <2>2
<1> QED
    BY <1>1, MembersCorrect, PTL

(* Who joins gets the role her own invitation says: the invitations with   *)
(* one code are one, whatever is made between the comparison and the       *)
(* INSERT.                                                                 *)
THEOREM JoinersGetTheirRole == MembersSpec => JoinsAsInvited
<1>1. MembersInv /\ [MembersNext]_members =>
          [\A t \in cleared :
              rows' # rows /\ t \notin cleared' =>
                  \A row \in rows' \ rows : row.role = typed[t].role]_members
    <2> SUFFICES ASSUME MembersInv, MembersNext, NEW t \in cleared,
                        rows' # rows, t \notin cleared', NEW row \in rows' \ rows
                 PROVE  row.role = typed[t].role
        OBVIOUS
    <2>1. PICK s \in Tab : JoinWorkspace(s)
        BY DEF MembersNext, InviteExpires, CreateWorkspace, AskInvite, AskJoin, SetInvite,
           CheckMember
    <2>2. s = t
        BY <2>1 DEF JoinWorkspace, Left
    <2>3. row.role = held[t].role
        BY <2>1, <2>2 DEF JoinWorkspace, Insert
    <2>4. held[t] \in offered /\ typed[t] \in offered
        BY DEF MembersInv, MembersTypeOK
    <2> QED
        BY <2>3, <2>4 DEF MembersInv, ClearedRightly, Numbered
<1> QED
    BY <1>1, MembersCorrect, PTL DEF MembersSpec, JoinsAsInvited

-----------------------------------------------------------------------------
(* The composition is each of the three, at every time: what is proved of  *)
(* one holds of Accounts.                                                  *)
THEOREM AccountsImplementsEach == AccountsSpec => SessionsSpec /\ CodesSpec /\ MembersSpec
<1>1. AccountsInit => SessionsInit /\ CodesInit /\ MembersInit
    BY DEF AccountsInit
<1>2. [AccountsNext]_avars =>
          [SessionsNext]_sessions /\ [CodesNext]_codes /\ [MembersNext]_members
    BY DEF AccountsNext, avars
<1> QED
    BY <1>1, <1>2, PTL DEF AccountsSpec, SessionsSpec, CodesSpec, MembersSpec

(* All variables of Accounts keep their types.                             *)
THEOREM AccountsTypeCorrect == AccountsSpec => []AccountsTypeOK
<1>1. CodesInv => CodesTypeOK
    BY DEF CodesInv
<1>2. MembersInv => MembersTypeOK
    BY DEF MembersInv
<1>3. CodesSpec => []CodesInv
    BY CodesInitially, CodesStep, PTL DEF CodesSpec
<1> QED
    BY <1>1, <1>2, <1>3, SessionsTypeCorrect, MembersCorrect, AccountsImplementsEach, PTL
    DEF AccountsTypeOK
=============================================================================
