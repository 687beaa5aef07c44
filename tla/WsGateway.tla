----------------------------- MODULE WsGateway -----------------------------
(***************************************************************************)
(* The WebSocket gateway (src/src/ws/ws.gateway.ts) on top of the document *)
(* manager: connections, the joins in flight, who the gateway believes     *)
(* takes part in which document, and the calls it makes into the manager.  *)
(*                                                                         *)
(* A socket is one connection: it connects once, and a client that comes   *)
(* back is another socket.  handleYjsJoin awaits twice, the membership     *)
(* query and the document; between its parts the same socket may leave,    *)
(* disconnect or join again.  All sockets are in one workspace.            *)
(***************************************************************************)
EXTENDS YjsDocManager, Integers

CONSTANT Impatient  \* may a client leave or disconnect while it joins?

ASSUME ImpatientIsFlag == Impatient \in BOOLEAN

Roles == {"EDITOR", "VIEWER", "NONE"}   \* OWNER counts as EDITOR here

VARIABLES
    conn,        \* "new" (not connected yet), "on" or "off"
    userId,      \* sockets whose token was verified (client.data.userId)
    workspaceId, \* sockets that called join_workspace (client.data.workspaceId)
    role,        \* the socket's user's role in the workspace (users_workspaces)
    membership,  \* client.data.membershipCache: a role or "unknown"
    checking,    \* nodes whose yjs:join awaits checkWorkspace
    yjsRooms,    \* WsGateway.yjsRooms: the nodes a socket takes part in
    readOnly,    \* nodes with client.data.yjsReadOnly[nodeId]
    gauge        \* the ws_connections gauge

gvars == <<conn, userId, workspaceId, role, membership, checking, yjsRooms,
           readOnly, gauge>>
allvars == <<vars, gvars>>

GatewayTypeOK ==
    /\ conn \in [Sockets -> {"new", "on", "off"}]
    /\ userId \subseteq Sockets
    /\ workspaceId \subseteq Sockets
    /\ role \in [Sockets -> Roles]
    /\ membership \in [Sockets -> Roles \cup {"unknown"}]
    /\ checking \in [Sockets -> SUBSET Nodes]
    /\ yjsRooms \in [Sockets -> SUBSET Nodes]
    /\ readOnly \in [Sockets -> SUBSET Nodes]
    /\ gauge = Cardinality({s \in Sockets : conn[s] = "on" /\ s \in userId})

GatewayInit ==
    /\ Init
    /\ conn = [s \in Sockets |-> "new"]
    /\ userId = {}
    /\ workspaceId = {}
    /\ role \in [Sockets -> Roles]
    /\ membership = [s \in Sockets |-> "unknown"]
    /\ checking = [s \in Sockets |-> {}]
    /\ yjsRooms = [s \in Sockets |-> {}]
    /\ readOnly = [s \in Sockets |-> {}]
    /\ gauge = 0

-----------------------------------------------------------------------------
(* Connections.                                                            *)

(* handleConnection with a valid token.                                    *)
Connect(s) ==
    /\ conn[s] = "new"
    /\ conn' = [conn EXCEPT ![s] = "on"]
    /\ userId' = userId \cup {s}
    /\ gauge' = gauge + 1
    /\ UNCHANGED <<vars, workspaceId, role, membership, checking, yjsRooms, readOnly>>

BugAlwaysDecrements(s) == 1

(* handleDisconnect counts down only a connection that was counted up.     *)
Decrement(s) == IF s \in userId THEN 1 ELSE 0

(* No token or a bad one: the socket is disconnected at once, and          *)
(* handleDisconnect runs for it.                                           *)
Reject(s) ==
    /\ conn[s] = "new"
    /\ conn' = [conn EXCEPT ![s] = "off"]
    /\ gauge' = gauge - Decrement(s)
    /\ UNCHANGED <<vars, userId, workspaceId, role, membership, checking, yjsRooms, readOnly>>

JoinWorkspace(s) ==
    /\ conn[s] = "on"
    /\ s \notin workspaceId
    /\ workspaceId' = workspaceId \cup {s}
    /\ UNCHANGED <<vars, conn, userId, role, membership, checking, yjsRooms, readOnly, gauge>>

(* The joins of a socket that are still awaiting something.                *)
Joining(s) == checking[s] \cup {n \in Nodes : s \in waiters[n]}
MayGo(s) == Impatient \/ Joining(s) = {}

BugRoomsOnly(s) == {}

(* handleDisconnect takes the socket out of the docs yjsRooms names.       *)
LeftOnDisconnect(s) == yjsRooms[s] \cap managed

RemoveFrom(N, s) ==
    IF N = {} THEN UNCHANGED vars ELSE RemoveClient(N, s)

Disconnect(s) ==
    /\ conn[s] = "on"
    /\ MayGo(s)
    /\ conn' = [conn EXCEPT ![s] = "off"]
    /\ gauge' = gauge - Decrement(s)
    /\ RemoveFrom(LeftOnDisconnect(s), s)
    /\ yjsRooms' = [yjsRooms EXCEPT ![s] = {}]
    /\ UNCHANGED <<userId, workspaceId, role, membership, checking, readOnly>>

-----------------------------------------------------------------------------
(* handleYjsJoin.                                                          *)

(* What follows getOrCreateDoc, for the sockets S that join node n.        *)
Register(S, n) ==
    /\ yjsRooms' = [s \in Sockets |-> IF s \in S THEN yjsRooms[s] \cup {n}
                                                 ELSE yjsRooms[s]]
    /\ readOnly' = [s \in Sockets |->
                       IF s \notin S THEN readOnly[s]
                       ELSE IF membership'[s] = "VIEWER" THEN readOnly[s] \cup {n}
                                                         ELSE readOnly[s] \ {n}]

(* getOrCreateDoc: a managed doc is joined in the same turn, another one   *)
(* when its load is over.                                                  *)
GetDoc(s, n) ==
    \/ JoinManaged(n, s) /\ Register({s}, n)
    \/ (JoinPending(n, s) \/ JoinLoads(n, s)) /\ UNCHANGED <<yjsRooms, readOnly>>

(* joinWorkspace (see Memberships) gives the socket's user a role.         *)
RoleGranted(s) ==
    /\ role[s] = "NONE"
    /\ \E given \in Roles \ {"NONE"} : role' = [role EXCEPT ![s] = given]
    /\ UNCHANGED <<vars, conn, userId, workspaceId, membership, checking, yjsRooms,
                   readOnly, gauge>>

BugRefusalPasses(s) == membership[s] # "unknown"

KnownMember(s) == membership[s] \in {"EDITOR", "VIEWER"}

(* The membership of this socket was looked up before and cached; "NONE"   *)
(* is cached too, and refused from then on.                                *)
YjsJoinCached(s, n) ==
    /\ conn[s] = "on" /\ s \in workspaceId
    /\ KnownMember(s)
    /\ UNCHANGED membership
    /\ GetDoc(s, n)
    /\ UNCHANGED <<conn, userId, workspaceId, role, checking, gauge>>

(* It was not: checkWorkspace is called.                                   *)
YjsJoin(s, n) ==
    /\ conn[s] = "on" /\ s \in workspaceId
    /\ membership[s] = "unknown"
    /\ n \notin checking[s]
    /\ checking' = [checking EXCEPT ![s] = @ \cup {n}]
    /\ UNCHANGED <<vars, conn, userId, workspaceId, role, membership, yjsRooms, readOnly, gauge>>

(* checkWorkspace answers; nobody asks whether the socket is still there.  *)
Checked(s, n) ==
    /\ n \in checking[s]
    /\ checking' = [checking EXCEPT ![s] = @ \ {n}]
    /\ membership' = [membership EXCEPT ![s] = role[s]]
    /\ IF role[s] = "NONE" THEN UNCHANGED <<vars, yjsRooms, readOnly>>
                           ELSE GetDoc(s, n)
    /\ UNCHANGED <<conn, userId, workspaceId, role, gauge>>

(* The document is there: every waiting join goes on.                      *)
JoinsResume(n) ==
    /\ DocLoaded(n)
    /\ UNCHANGED membership
    /\ Register(waiters[n], n)
    /\ UNCHANGED <<conn, userId, workspaceId, role, checking, gauge>>

-----------------------------------------------------------------------------
BugRoomKept(s, n) == UNCHANGED yjsRooms

ForgetRoom(s, n) == yjsRooms' = [yjsRooms EXCEPT ![s] = @ \ {n}]

(* handleYjsLeave takes the socket out of the doc without asking whether   *)
(* it was in: a client that unmounts its editor early leaves while its     *)
(* join is pending.                                                        *)
YjsLeave(s, n) ==
    /\ conn[s] = "on"
    /\ n \in yjsRooms[s] \/ (Impatient /\ n \in Joining(s))
    /\ RemoveFrom({n} \cap managed, s)
    /\ ForgetRoom(s, n)
    /\ UNCHANGED <<conn, userId, workspaceId, role, membership, checking, readOnly, gauge>>

(* handleYjsSync with an update: merged in any case, scheduled for saving  *)
(* (and broadcast) unless the socket is read-only in this document.  Any   *)
(* connected socket may send it: the handler asks for no room, client or   *)
(* membership, and yjsReadOnly is what the socket's last join left.        *)
YjsSync(s, n, u) ==
    /\ conn[s] = "on"
    /\ IF n \in readOnly[s] THEN UpdateUnscheduled(n, u) ELSE Update(n, u)
    /\ UNCHANGED gvars

(* A SyncStep2 answer is merged and not scheduled.                         *)
YjsSyncStep2(s, n, u) ==
    /\ conn[s] = "on"
    /\ UpdateUnscheduled(n, u)
    /\ UNCHANGED gvars

(* The process restarts: every connection is lost.                         *)
GatewayRestart ==
    /\ Restart
    /\ conn' = [s \in Sockets |-> IF conn[s] = "on" THEN "off" ELSE conn[s]]
    /\ userId' = {}
    /\ workspaceId' = {}
    /\ membership' = [s \in Sockets |-> "unknown"]
    /\ checking' = [s \in Sockets |-> {}]
    /\ yjsRooms' = [s \in Sockets |-> {}]
    /\ readOnly' = [s \in Sockets |-> {}]
    /\ gauge' = 0
    /\ UNCHANGED role

(* What the manager does on its own; broadcast(NODE_DELETE) calls          *)
(* cleanupNode and leaves yjsRooms alone.                                  *)
ManagerStep(n) ==
    /\ \/ RedisMiss(n) \/ DbRead(n) \/ LoadFails(n)
       \/ SaveTimerFires(n) \/ IdleTimerFires(n) \/ OrphanFires(n)
       \/ \E i \in Ids : SaveToDb(n, i) \/ SaveToDbFails(n, i)
       \/ Expire(n) \/ CleanupNode(n)
    /\ UNCHANGED gvars

GatewayTick == Tick /\ UNCHANGED gvars

GatewayNext ==
    \/ \E s \in Sockets : Connect(s) \/ Reject(s) \/ JoinWorkspace(s) \/ RoleGranted(s) \/ Disconnect(s)
    \/ \E s \in Sockets, n \in Nodes :
          YjsJoin(s, n) \/ YjsJoinCached(s, n) \/ Checked(s, n) \/ YjsLeave(s, n)
    \/ \E s \in Sockets, n \in Nodes, u \in Updates :
          YjsSync(s, n, u) \/ YjsSyncStep2(s, n, u)
    \/ \E n \in Nodes : JoinsResume(n) \/ ManagerStep(n)
    \/ GatewayTick \/ GatewayRestart

GatewaySpec == GatewayInit /\ [][GatewayNext]_allvars

Internally(A) == A /\ UNCHANGED gvars

GatewayFairness ==
    /\ \A s \in Sockets, n \in Nodes : WF_allvars(Checked(s, n))
    /\ \A n \in Nodes :
          /\ WF_allvars(Internally(RedisMiss(n))) /\ WF_allvars(Internally(DbRead(n)))
          /\ WF_allvars(JoinsResume(n))
          /\ WF_allvars(Internally(SaveTimerFires(n)))
          /\ WF_allvars(Internally(IdleTimerFires(n)))
          /\ WF_allvars(Internally(OrphanFires(n)))
          /\ \A i \in Ids : WF_allvars(Internally(SaveToDb(n, i)))
    /\ SF_allvars(GatewayTick)

GatewayFairSpec == GatewaySpec /\ GatewayFairness

-----------------------------------------------------------------------------
(* The gateway and the manager agree on who takes part: for a connected    *)
(* socket, yjsRooms names a living node exactly when the node's document   *)
(* has the socket among its clients, however joins, leaves, loads,         *)
(* failures and evictions interleave.  handleDisconnect relies on it.      *)
RoomsMatchClients ==
    \A s \in Sockets, n \in Nodes \ deleted :
        conn[s] = "on" => (n \in yjsRooms[s] <=> s \in clients[n])

(* Who takes part in a document is a member, and read-only just as a       *)
(* viewer is, although the membership is looked up once per socket and     *)
(* kept while users join the workspace: roles are given, never changed.    *)
RightsAreCurrent ==
    \A s \in Sockets : \A n \in yjsRooms[s] :
        role[s] # "NONE" /\ (n \in readOnly[s] <=> role[s] = "VIEWER")

(* The clients of a document are connected: no document is kept in memory  *)
(* for a socket that is gone.                                              *)
ClientsAreConnected ==
    \A n \in Nodes, s \in Sockets : s \in clients[n] => conn[s] = "on"

(* README: when the clients of a document are down to 0, its memory is     *)
(* released after the idle timeout.  Once every socket is gone no document *)
(* stays in memory.                                                        *)
AbandonedIsFreed ==
    (\A s \in Sockets : conn[s] = "off") ~> (managed = {})

=============================================================================
