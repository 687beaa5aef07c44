----------------------------- MODULE EmailCodes -----------------------------
(***************************************************************************)
(* One e-mail address on its way to an account: sendMail, verify and       *)
(* signUp (src/src/auth/auth.service.ts) over two Redis keys, auth:<email> *)
(* and verified:<email>, and the users table.  Each call reads, waits for  *)
(* the answer and writes; other calls for the address come in between.     *)
(*                                                                         *)
(* Codes are told apart by the order they were mailed in.                  *)
(***************************************************************************)
EXTENDS Naturals

CONSTANTS
    Visitors,    \* bound: calls served at once
    NoCode,      \* no such key, nothing read
    MaxMails,    \* bound: codes mailed
    MaxAttempts, \* wrong answers a code stands (5 in the code)
    MaxUsers     \* bound: users created

ASSUME CodeBounds == {MaxMails, MaxAttempts, MaxUsers} \subseteq Nat \ {0}

(* lasting: the key has no time to live.                                   *)
Code == [id : 1 .. MaxMails, attempts : 0 .. MaxAttempts - 1, lasting : BOOLEAN]

ASSUME NoCodeIsFresh == NoCode \notin Code

VARIABLES
    code,      \* auth:<email>
    verified,  \* is verified:<email> there?
    users,     \* rows of users with this e-mail
    doing,     \* what a call does next
    read,      \* verify: what its GET found
    right,     \* verify: is the code the one it was given?
    mailed,    \* codes mailed so far
    wrong,     \* wrong answers to the last one
    overrun,   \* has a call written over a change it had not seen, since?
    marks,     \* successful verifications
    tries,     \* users inserted, or not for an error
    together   \* have two calls of signUp been under way at once?

answers == <<read, right>>
mails == <<mailed, wrong, overrun>>
signups == <<marks, tries, together>>
codes == <<code, verified, users, doing, answers, mails, signups>>

CodesTypeOK ==
    /\ code \in Code \cup {NoCode}
    /\ verified \in BOOLEAN
    /\ users \in 0 .. MaxUsers
    /\ doing \in [Visitors -> {"none", "answer", "mark", "getMark", "hash", "create"}]
    /\ read \in [Visitors -> Code \cup {NoCode}]
    /\ right \in [Visitors -> BOOLEAN]
    /\ {mailed, marks, tries, wrong} \subseteq Nat
    /\ {overrun, together} \subseteq BOOLEAN

CodesInit ==
    /\ code = NoCode /\ verified = FALSE /\ users = 0
    /\ doing = [v \in Visitors |-> "none"]
    /\ read = [v \in Visitors |-> NoCode] /\ right = [v \in Visitors |-> FALSE]
    /\ mailed = 0 /\ wrong = 0 /\ overrun = FALSE
    /\ marks = 0 /\ tries = 0 /\ together = FALSE

-----------------------------------------------------------------------------
Turn(v, from, to) == doing[v] = from /\ doing' = [doing EXCEPT ![v] = to]

(* sendMail: the SET, with a time to live, and the mail.                   *)
SendMail ==
    /\ mailed < MaxMails
    /\ mailed' = mailed + 1
    /\ code' = [id |-> mailed', attempts |-> 0, lasting |-> FALSE]
    /\ wrong' = 0 /\ overrun' = FALSE
    /\ UNCHANGED <<verified, users, doing, answers, signups>>

(* 180 and 600 seconds are over.                                           *)
CodeExpires ==
    /\ code # NoCode /\ ~code.lasting
    /\ code' = NoCode
    /\ UNCHANGED <<verified, users, doing, answers, mails, signups>>

MarkExpires ==
    /\ verified /\ verified' = FALSE
    /\ UNCHANGED <<code, users, doing, answers, mails, signups>>

(* verify: the GET; without a key it is refused.                           *)
AskVerify(v, isRight) ==
    /\ code # NoCode
    /\ Turn(v, "none", "answer")
    /\ read' = [read EXCEPT ![v] = code]
    /\ right' = [right EXCEPT ![v] = isRight]
    /\ UNCHANGED <<code, verified, users, mails, signups>>

BugOneMore(n) == n > MaxAttempts

TooMany(n) == n >= MaxAttempts

BugTtlDropped(c) == TRUE

(* SET ... KEEPTTL on a key that is gone makes one without a time to live. *)
Lasting(c) == c = NoCode \/ c.lasting

(* A wrong code: the attempts are written back, or the key goes.           *)
AnswerWrong(v) ==
    /\ Turn(v, "answer", "none")
    /\ ~right[v]
    /\ LET n == read[v].attempts + 1 IN
          code' = IF TooMany(n) THEN NoCode
                  ELSE [id |-> read[v].id, attempts |-> n, lasting |-> Lasting(code)]
    /\ wrong' = wrong + 1
    /\ overrun' = (overrun \/ code # read[v])
    /\ read' = [read EXCEPT ![v] = NoCode]
    /\ UNCHANGED <<verified, users, right, mailed, signups>>

(* The right one: the code goes, ...                                       *)
AnswerRight(v) ==
    /\ Turn(v, "answer", "mark")
    /\ right[v]
    /\ code' = NoCode
    /\ overrun' = (overrun \/ code # read[v])
    /\ read' = [read EXCEPT ![v] = NoCode]
    /\ right' = [right EXCEPT ![v] = FALSE]
    /\ UNCHANGED <<verified, users, mailed, wrong, signups>>

(* ... and the address is marked.                                          *)
MarkVerified(v) ==
    /\ Turn(v, "mark", "none")
    /\ verified' = TRUE
    /\ marks' = marks + 1
    /\ UNCHANGED <<code, users, answers, mails, tries, together>>

-----------------------------------------------------------------------------
SigningUp == {v \in Visitors : doing[v] \in {"getMark", "hash", "create"}}

(* signUp: findByEmail, ...                                                *)
AskSignUp(v) ==
    /\ users = 0
    /\ Turn(v, "none", "getMark")
    /\ together' = (together \/ SigningUp # {})
    /\ UNCHANGED <<code, verified, users, answers, mails, marks, tries>>

(* ... the GET of the mark, ...                                            *)
GetMark(v) ==
    /\ Turn(v, "getMark", IF verified THEN "hash" ELSE "none")
    /\ UNCHANGED <<code, verified, users, answers, mails, signups>>

BugMarkKept == verified

MarkLeft == FALSE

(* ... the hash of the password and the DEL, ...                           *)
DeleteMark(v) ==
    /\ Turn(v, "hash", "create")
    /\ verified' = MarkLeft
    /\ UNCHANGED <<code, users, answers, mails, signups>>

(* ... and the INSERT, which may fail when the mark is gone already.       *)
Create(v) ==
    /\ Turn(v, "create", "none")
    /\ tries' = tries + 1
    /\ users' \in {users, users + 1} /\ users' <= MaxUsers
    /\ UNCHANGED <<code, verified, answers, mails, marks, together>>

CodesNext ==
    \/ SendMail \/ CodeExpires \/ MarkExpires
    \/ \E v \in Visitors :
          \/ \E isRight \in BOOLEAN : AskVerify(v, isRight)
          \/ AnswerWrong(v) \/ AnswerRight(v) \/ MarkVerified(v)
          \/ AskSignUp(v) \/ GetMark(v) \/ DeleteMark(v) \/ Create(v)

CodesSpec == CodesInit /\ [][CodesNext]_codes

-----------------------------------------------------------------------------
(* What Redis holds is the code mailed last, it counts every wrong answer  *)
(* to it and will expire; unless two calls of verify overlapped, or one    *)
(* and a new mail or the expiry: then the older code may be back, with     *)
(* fewer attempts counted, or stay for ever.                               *)
CodeIsCurrent ==
    code # NoCode /\ ~overrun =>
        code = [id |-> mailed, attempts |-> wrong, lasting |-> FALSE]

(* An address gets one user at most, and a verification is good for one    *)
(* attempt to sign up, spent even when it fails; unless two sign-ups for   *)
(* the address are served at once.                                         *)
OneUserVerified == ~together => users <= 1 /\ tries <= marks

=============================================================================
