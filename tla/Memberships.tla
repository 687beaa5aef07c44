---------------------------- MODULE Memberships ----------------------------
(***************************************************************************)
(* Who belongs to a workspace and how one gets in: createWorkspace,        *)
(* inviteWorkspace and joinWorkspace (src/src/workspace/                   *)
(* workspace.service.ts) over the workspaces and users_workspaces tables   *)
(* and the one Redis key a workspace has for its invitation.  createWork-  *)
(* space is a transaction; the others read, wait and write.                *)
(***************************************************************************)
EXTENDS FiniteSets, Naturals

CONSTANTS
    Users,       \* of the application; a user has one call at a time ...
    Tabs,        \* bound: ... in each of the tabs
    MaxInvites,  \* bound: invitations
    NoInvite     \* no such key, no call under way

Roles == {"OWNER", "EDITOR", "VIEWER"}
Invite == [id : 1 .. MaxInvites, role : Roles]

ASSUME InviteBound == MaxInvites \in Nat \ {0}

ASSUME NoInviteIsFresh == NoInvite \notin Invite

VARIABLES
    open,     \* is there the workspace?
    rows,     \* users_workspaces: [user, role, via], via: the tab that joined
    invite,   \* inviteCode:<workspace>
    offered,  \* the invitations made so far, as they were meant
    asked,    \* inviteWorkspace: the role a tab may invite to, once checked
    typed,    \* joinWorkspace: the invitation whose code a tab came with
    held,     \* ... and the one it has read
    cleared,  \* tabs whose user was found not to be a member
    racing    \* users who have joined in two tabs at once

members == <<open, rows, invite, offered, asked, typed, held, cleared, racing>>

Tab == Users \X Tabs

MembersTypeOK ==
    /\ open \in BOOLEAN
    /\ rows \subseteq [user : Users, role : Roles, via : Tabs]
    /\ invite \in offered \cup {NoInvite}
    /\ offered \subseteq Invite
    /\ asked \in [Tab -> Roles \cup {NoInvite}]
    /\ typed \in [Tab -> offered \cup {NoInvite}]
    /\ held \in [Tab -> offered \cup {NoInvite}]
    /\ \A t \in Tab : typed[t] = NoInvite <=> held[t] = NoInvite
    /\ cleared \subseteq {t \in Tab : held[t] # NoInvite}
    /\ racing \subseteq Users

MembersInit ==
    /\ open = FALSE /\ rows = {} /\ invite = NoInvite /\ offered = {}
    /\ asked = [t \in Tab |-> NoInvite]
    /\ typed = [t \in Tab |-> NoInvite] /\ held = [t \in Tab |-> NoInvite]
    /\ cleared = {} /\ racing = {}

-----------------------------------------------------------------------------
RowsOf(u) == {row \in rows : row.user = u}

(* checkWorkspace is a findFirst: any of the user's rows.                  *)
MayInvite(u) == \E row \in RowsOf(u) : row.role # "VIEWER"

Insert(t, role) == rows' = rows \cup {[user |-> t[1], role |-> role, via |-> t[2]]}

Free(t) == asked[t] = NoInvite /\ held[t] = NoInvite

(* createWorkspace: both rows or none; the role is the creator's choice.   *)
CreateWorkspace(t, role) ==
    /\ ~open /\ open' = TRUE
    /\ Insert(t, role)
    /\ UNCHANGED <<invite, offered, asked, typed, held, cleared, racing>>

(* inviteWorkspace: the check of the inviter, ...                          *)
AskInvite(t, role) ==
    /\ Free(t) /\ MayInvite(t[1])
    /\ asked' = [asked EXCEPT ![t] = role]
    /\ UNCHANGED <<open, rows, invite, offered, typed, held, cleared, racing>>

(* ... and the SET, which replaces the workspace's last invitation.        *)
SetInvite(t) ==
    /\ asked[t] # NoInvite
    /\ Cardinality(offered) < MaxInvites
    /\ invite' = [id |-> Cardinality(offered) + 1, role |-> asked[t]]
    /\ offered' = offered \cup {invite'}
    /\ asked' = [asked EXCEPT ![t] = NoInvite]
    /\ UNCHANGED <<open, rows, typed, held, cleared, racing>>

(* 18000 seconds are over.                                                 *)
InviteExpires ==
    /\ invite # NoInvite /\ invite' = NoInvite
    /\ UNCHANGED <<open, rows, offered, asked, typed, held, cleared, racing>>

-----------------------------------------------------------------------------
Left(t) ==
    /\ typed' = [typed EXCEPT ![t] = NoInvite]
    /\ held' = [held EXCEPT ![t] = NoInvite]
    /\ cleared' = cleared \ {t}

(* joinWorkspace with the code of invitation i: the GET, ...               *)
AskJoin(t, i) ==
    /\ Free(t) /\ invite # NoInvite
    /\ typed' = [typed EXCEPT ![t] = i]
    /\ held' = [held EXCEPT ![t] = invite]
    /\ racing' = IF \E s \in Tabs : held[<<t[1], s>>] # NoInvite
                 THEN racing \cup {t[1]} ELSE racing
    /\ UNCHANGED <<open, rows, invite, offered, asked, cleared>>

BugAnyCode(t) == TRUE

CodeMatches(t) == held[t].id = typed[t].id

BugNotAsked(u) == TRUE

NotYetMember(u) == RowsOf(u) = {}

(* ... the comparison and checkWorkspace, which refuses a member, ...      *)
CheckMember(t) ==
    /\ held[t] # NoInvite /\ t \notin cleared
    /\ IF CodeMatches(t) /\ NotYetMember(t[1])
       THEN cleared' = cleared \cup {t} /\ UNCHANGED <<typed, held>>
       ELSE Left(t)
    /\ UNCHANGED <<open, rows, invite, offered, asked, racing>>

(* ... and the INSERT, which may fail.                                     *)
JoinWorkspace(t) ==
    /\ t \in cleared
    /\ Insert(t, held[t].role) \/ UNCHANGED rows
    /\ Left(t)
    /\ UNCHANGED <<open, invite, offered, asked, racing>>

MembersNext ==
    \/ InviteExpires
    \/ \E t \in Tab :
          \/ \E role \in Roles : CreateWorkspace(t, role) \/ AskInvite(t, role)
          \/ \E i \in offered : AskJoin(t, i)
          \/ SetInvite(t) \/ CheckMember(t) \/ JoinWorkspace(t)

MembersSpec == MembersInit /\ [][MembersNext]_members

-----------------------------------------------------------------------------
(* A user has one row, and so one role, in the workspace, unless she       *)
(* joined it twice at once.                                                *)
OneRow == \A u \in Users \ racing : Cardinality(RowsOf(u)) <= 1

(* Who joins gets the role of the invitation she typed the code of,        *)
(* however many invitations with other roles replace it on the way.        *)
JoinsAsInvited ==
    [][\A t \in cleared :
          rows' # rows /\ t \notin cleared' =>
              \A row \in rows' \ rows : row.role = typed[t].role]_members

=============================================================================
