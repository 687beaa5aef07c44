------------------------------ MODULE Sessions ------------------------------
(***************************************************************************)
(* The sessions of one user (src/src/auth/auth.service.ts,                 *)
(* auth.controller.ts and strategy/jwt.strategy.ts): the refresh token     *)
(* Redis holds for the user, the blacklist of tokens logged out, and the   *)
(* calls that read them, wait for the answer and write.  All commands      *)
(* leave on one connection to Redis, so that they take effect in the order *)
(* they are issued in; a key read by one call may have been written by     *)
(* another when the answer arrives.                                        *)
(*                                                                         *)
(* A JWT is a function of what it says, of the second it is signed in and  *)
(* of its lifetime: a token is a record of that second and of its kind,    *)
(* and two of a kind signed in one second are one token.  Access and       *)
(* refresh tokens have one secret and one payload: where a token is asked  *)
(* for, each kind will do.  Lifetimes are in ticks; only their order       *)
(* matters.                                                                *)
(***************************************************************************)
EXTENDS Integers, FiniteSets

CONSTANTS
    Calls,        \* bound: calls served at once
    NoToken,      \* no such token, no such key
    MaxNow,       \* bound on the clock
    MaxTokens,    \* bound on the tokens that are good at once
    AccessLife,   \* of access tokens and of their entries in the blacklist
    RefreshLife,  \* of refresh tokens and of their key
    MasterLife    \* of master tokens

ASSUME LivesAreOrdered ==
    /\ {MaxNow, AccessLife, RefreshLife, MasterLife} \subseteq Nat \ {0}
    /\ AccessLife < RefreshLife /\ RefreshLife < MasterLife

Times == 0 .. MaxNow
Token == [iat : Times, kind : {"access", "refresh", "master"}]

ASSUME NoTokenIsFresh == NoToken \notin Token \cup Int

VARIABLES
    now,      \* the clock
    issued,   \* tokens that clients hold
    stored,   \* refreshToken:<user>
    until,    \* when that key expires; NoToken: never
    black,    \* blacklist:<token>: when the entry expires, or NoToken
    call,     \* what a call is doing: "none", "refresh", "logout", "leave"
    used,     \* the token a refresh came with, or a logout's header carried
    got,      \* refresh: what the GET found
    crossed,  \* refreshes during which the key has been deleted
    latest,   \* the token stored last, or NoToken since a logout
    out       \* tokens in the headers of the logouts that have been answered

sessions == <<now, issued, stored, until, black, call, used, got, crossed, latest, out>>
history == <<crossed, latest, out>>

SessionsTypeOK ==
    /\ now \in Times
    /\ issued \subseteq Token
    /\ stored \in Token \cup {NoToken}
    /\ until \in Int \cup {NoToken}
    /\ black \in [Token -> Int \cup {NoToken}]
    /\ call \in [Calls -> {"none", "refresh", "logout", "leave"}]
    /\ used \in [Calls -> Token \cup {NoToken}]
    /\ \A c \in Calls : call[c] = "refresh" => used[c] # NoToken
    /\ got \in [Calls -> Token \cup {NoToken}]
    /\ crossed \subseteq {c \in Calls : call[c] = "refresh"}
    /\ latest \in Token \cup {NoToken}
    /\ out \subseteq issued

SessionsInit ==
    /\ now = 0 /\ issued = {}
    /\ stored = NoToken /\ until = NoToken
    /\ black = [t \in Token |-> NoToken]
    /\ call = [c \in Calls |-> "none"]
    /\ used = [c \in Calls |-> NoToken] /\ got = [c \in Calls |-> NoToken]
    /\ crossed = {} /\ latest = NoToken /\ out = {}

-----------------------------------------------------------------------------
Life(t) ==
    CASE t.kind = "access"  -> AccessLife
      [] t.kind = "refresh" -> RefreshLife
      [] t.kind = "master"  -> MasterLife

(* JwtService.verify: all that refresh asks of a token before it reads the *)
(* key, and all that the handshake of a WebSocket asks.                    *)
Verified(t) == now < t.iat + Life(t)

(* JwtAuthGuard and JwtStrategy.validate let a request with token t pass.  *)
Accepted(t) == Verified(t) /\ black[t] = NoToken

BugShortLived(t) == now + AccessLife - 1

BlackUntil(t) == now + AccessLife

Answered(c) ==
    /\ call' = [call EXCEPT ![c] = "none"]
    /\ used' = [used EXCEPT ![c] = NoToken]
    /\ got' = [got EXCEPT ![c] = NoToken]

Signed(kind) == [iat |-> now, kind |-> kind]

(* The tokens are signed and the SET issued in one turn.                   *)
Store(T, t, expiry) ==
    /\ issued' = issued \cup T
    /\ Cardinality(issued') <= MaxTokens
    /\ stored' = t /\ until' = expiry
    /\ latest' = t

BugAccessExpiry == now + AccessLife

KeyExpiry == now + RefreshLife

StorePair == Store({Signed("access"), Signed("refresh")}, Signed("refresh"), KeyExpiry)

(* login, after validateUser.                                              *)
Login ==
    /\ StorePair
    /\ UNCHANGED <<now, black, call, used, got, crossed, out>>

(* issueMasterToken: its key has no expiry.                                *)
IssueMaster ==
    /\ Store({Signed("master")}, Signed("master"), NoToken)
    /\ UNCHANGED <<now, black, call, used, got, crossed, out>>

-----------------------------------------------------------------------------
(* refresh: the token is verified, the key read ...                        *)
AskRefresh(c, t) ==
    /\ call[c] = "none"
    /\ Verified(t)
    /\ call' = [call EXCEPT ![c] = "refresh"]
    /\ used' = [used EXCEPT ![c] = t]
    /\ got' = [got EXCEPT ![c] = stored]
    /\ UNCHANGED <<now, issued, stored, until, black, history>>

BugAnyToken(c) == TRUE

TokenMatches(c) == got[c] = used[c]

(* ... and what was read is compared.                                      *)
Refresh(c) ==
    /\ call[c] = "refresh"
    /\ IF TokenMatches(c) THEN StorePair
                          ELSE UNCHANGED <<issued, stored, until, latest>>
    /\ crossed' = crossed \ {c}
    /\ Answered(c)
    /\ UNCHANGED <<now, black, out>>

-----------------------------------------------------------------------------
(* logout: the guard takes the token from the header or from ?token=, and  *)
(* reads the blacklist; the controller asks the header only.               *)
AskLogout(c, t, carried) ==
    /\ call[c] = "none"
    /\ Accepted(t)
    /\ call' = [call EXCEPT ![c] = "logout"]
    /\ used' = [used EXCEPT ![c] = carried]
    /\ UNCHANGED <<now, issued, stored, until, black, got, history>>

(* ... the refresh token goes ...                                          *)
DeleteToken(c) ==
    /\ call[c] = "logout"
    /\ stored' = NoToken /\ until' = NoToken
    /\ latest' = NoToken
    /\ crossed' = {d \in Calls : call[d] = "refresh"}
    /\ call' = [call EXCEPT ![c] = "leave"]
    /\ UNCHANGED <<now, issued, black, used, got, out>>

(* ... and what authorization.replace('Bearer ', '') leaves is put on the  *)
(* blacklist: a token only if the header carried one.                      *)
Blacklist(c) ==
    /\ call[c] = "leave"
    /\ black' = [t \in Token |-> IF t = used[c] THEN BlackUntil(t) ELSE black[t]]
    /\ out' = out \cup ({used[c]} \cap issued)
    /\ Answered(c)
    /\ UNCHANGED <<now, issued, stored, until, crossed, latest>>

(* Time passes: the keys that reach their expiry are gone, and tokens that *)
(* have expired are forgotten.                                             *)
SecondPasses ==
    /\ now < MaxNow
    /\ now' = now + 1
    /\ issued' = {t \in issued : Verified(t)'}
    /\ out' = out \cap issued'
    /\ IF until = now + 1 THEN stored' = NoToken /\ until' = NoToken
                          ELSE UNCHANGED <<stored, until>>
    /\ black' = [t \in Token |-> IF black[t] = now + 1 THEN NoToken ELSE black[t]]
    /\ UNCHANGED <<call, used, got, crossed, latest>>

SessionsNext ==
    \/ Login \/ IssueMaster \/ SecondPasses
    \/ \E c \in Calls :
          \/ \E t \in issued : AskRefresh(c, t) \/ AskLogout(c, t, t) \/ AskLogout(c, t, NoToken)
          \/ Refresh(c) \/ DeleteToken(c) \/ Blacklist(c)

SessionsSpec == SessionsInit /\ [][SessionsNext]_sessions

-----------------------------------------------------------------------------
(* The user is logged in with the token that was handed out last, for as   *)
(* long as it is good: the key of a refresh token does not expire before   *)
(* the token, and is not touched by calls that were refused.               *)
LatestTokenWorks ==
    latest # NoToken /\ Verified(latest) => stored = latest

(* A user who has logged out is not logged in again until the next login,  *)
(* except by a refresh that had read the key when the logout deleted it.   *)
LoggedOutStaysOut ==
    [][latest = NoToken /\ latest' # NoToken =>
          \/ Login \/ IssueMaster
          \/ \E c \in crossed : Refresh(c)]_sessions

(* An access token that was logged out in the Authorization header is      *)
(* refused by JwtAuthGuard for the rest of its life, the entry of the      *)
(* blacklist living as long as an access token does.  Not so a token that  *)
(* was logged out as ?token=, nor a refresh or a master token used as a    *)
(* bearer, which outlive the entry; nor does it hold of the handshake of a *)
(* WebSocket, which asks no more than Verified.                            *)
LoggedOutIsRefused == \A t \in out : t.kind = "access" => ~Accepted(t)

=============================================================================
