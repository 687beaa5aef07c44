------------------------------ MODULE Replicas ------------------------------
(***************************************************************************)
(* The replicas of one Yjs document: the server's Y.Doc and the clients'   *)
(* (SocketYjsProvider in src/mock/client/src/socket-provider.ts), kept in  *)
(* step by the y-protocols messages the gateway handles and relays.        *)
(*                                                                         *)
(* A replica is the set of the updates merged into it.  Each connection    *)
(* delivers in order, both ways, and loses what is on its way when it      *)
(* breaks.  A client keeps its replica, and may go on editing, while it is *)
(* not connected.  Of the document manager (YjsDocManager) only what it    *)
(* promises is here: a document nobody takes part in is saved, a crash     *)
(* loses what was merged after the last save.                              *)
(***************************************************************************)
EXTENDS Naturals, Sequences

CONSTANTS
    Clients,
    Updates   \* Yjs updates, each made once, by one client

VARIABLES
    viewers,  \* clients whose membership has the role VIEWER (never changes)
    linked,   \* clients with a connected socket, yjs:join sent
    joined,   \* those whose yjs:join has been served: the sockets in yjsRoom
    synced,   \* SocketYjsProvider._synced
    replica,  \* the Y.Doc of a client
    managed,  \* is the document in the manager's docs?
    server,   \* the Y.Doc the server has, or would load
    stored,   \* what was last saved
    up, down, \* messages from and to a client, oldest first
    quiet     \* history: updates the server has merged without relaying them

vars == <<viewers, linked, joined, synced, replica, managed, server, stored,
          up, down, quiet>>

(* syncProtocol's messages; items is the state vector of a step1 (what its *)
(* sender has) and the updates a step2 or an update brings.                *)
Message == [type : {"step1", "step2", "update"}, items : SUBSET Updates]
Msg(t, S) == [type |-> t, items |-> S]

ReplicasTypeOK ==
    /\ viewers \subseteq Clients
    /\ joined \subseteq linked /\ synced \subseteq joined /\ linked \subseteq Clients
    /\ replica \in [Clients -> SUBSET Updates]
    /\ managed \in BOOLEAN
    /\ stored \subseteq server /\ server \subseteq Updates /\ quiet \subseteq Updates
    /\ \A c \in Clients : \A q \in {up[c], down[c]} :
          \A i \in DOMAIN q : q[i] \in Message
    /\ joined # {} => managed

ReplicasInit ==
    /\ viewers \in SUBSET Clients
    /\ linked = {} /\ joined = {} /\ synced = {}
    /\ replica = [c \in Clients |-> {}]
    /\ managed = FALSE
    /\ server = {} /\ stored = {} /\ quiet = {}
    /\ up = [c \in Clients |-> <<>>]
    /\ down = [c \in Clients |-> <<>>]

-----------------------------------------------------------------------------
(* Connections.                                                            *)

(* manualConnect: join_workspace and yjs:join leave with the connection.   *)
Connect(c) ==
    /\ c \notin linked
    /\ linked' = linked \cup {c}
    /\ UNCHANGED <<viewers, joined, synced, replica, managed, server, stored,
                   up, down, quiet>>

BugServerStateFirst(c) == Msg("step2", server)

(* The first message of the handshake asks the client for what it has.     *)
Greeting(c) == Msg("step1", server)

(* handleYjsJoin ends, some time after the connection.                     *)
Joined(c) ==
    /\ c \in linked \ joined
    /\ managed' = TRUE
    /\ joined' = joined \cup {c}
    /\ down' = [down EXCEPT ![c] = Append(@, Greeting(c))]
    /\ UNCHANGED <<viewers, linked, synced, replica, server, stored, up, quiet>>

BugStaysInRoom(S) == joined

(* Socket.IO takes a socket that is gone out of its rooms.                 *)
InRoomWithout(S) == joined \ S

(* The connection of each client of S is gone, and what was on its way.    *)
Cut(S) ==
    /\ linked' = linked \ S
    /\ joined' = InRoomWithout(S)
    /\ synced' = synced \ S
    /\ up' = [c \in Clients |-> IF c \in S THEN <<>> ELSE up[c]]
    /\ down' = [c \in Clients |-> IF c \in S THEN <<>> ELSE down[c]]
    /\ UNCHANGED <<viewers, replica, quiet>>

(* yjs:leave, or a lost connection; the last one to leave has the document *)
(* flushed.                                                                *)
Disconnect(c) ==
    /\ c \in linked
    /\ Cut({c})
    /\ stored' = IF joined = {c} THEN server ELSE stored
    /\ UNCHANGED <<managed, server>>

-----------------------------------------------------------------------------
(* Clients.                                                                *)

(* The author types; connected or not, the replica has it at once.         *)
Edit(c, u) ==
    /\ \A d \in Clients : u \notin replica[d]
    /\ replica' = [replica EXCEPT ![c] = @ \cup {u}]
    /\ up' = IF c \in linked
             THEN [up EXCEPT ![c] = Append(@, Msg("update", {u}))] ELSE up
    /\ UNCHANGED <<viewers, linked, joined, synced, managed, server, stored, down, quiet>>

(* What a client sends back on a step1: what the server lacks, then its    *)
(* own step1.                                                              *)
Answers(c, m) == <<Msg("step2", replica[c] \ m.items), Msg("step1", replica[c])>>

(* The client's handler of yjs:sync.                                       *)
ClientReads(c) ==
    /\ down[c] # <<>>
    /\ down' = [down EXCEPT ![c] = Tail(@)]
    /\ LET m == Head(down[c]) IN
          /\ IF m.type = "step1"
             THEN up' = [up EXCEPT ![c] = @ \o Answers(c, m)] /\ UNCHANGED replica
             ELSE replica' = [replica EXCEPT ![c] = @ \cup m.items] /\ UNCHANGED up
          /\ synced' = IF m.type = "step2" THEN synced \cup {c} ELSE synced
    /\ UNCHANGED <<viewers, linked, joined, managed, server, stored, quiet>>

-----------------------------------------------------------------------------
(* The server: handleYjsSync.                                              *)

(* yjsReadOnly is set when the join is served; until then it is undefined. *)
ReadOnly(c) == c \in viewers \cap joined

BugToSyncedOnly(c) == synced \ {c}

(* client.to(yjsRoom): everybody in the room but the sender.               *)
Room(c) == joined \ {c}

Send(S, m) == [d \in Clients |-> IF d \in S THEN Append(down[d], m) ELSE down[d]]

(* A step1 is answered with what its sender lacks.                         *)
ServerAnswers(c, m) ==
    /\ down' = Send({c}, Msg("step2", server \ m.items))
    /\ UNCHANGED <<server, quiet>>

(* readSyncMessage merges a step2 or an update; an update is relayed       *)
(* unless its sender is read-only, a step2 is not.                         *)
ServerMerges(c, m) ==
    /\ server' = server \cup m.items
    /\ IF m.type = "update" /\ ~ReadOnly(c)
       THEN down' = Send(Room(c), m) /\ UNCHANGED quiet
       ELSE quiet' = quiet \cup (m.items \ server) /\ UNCHANGED down

(* Nothing happens to a message for a document that is not in memory.      *)
ServerReads(c) ==
    /\ up[c] # <<>>
    /\ up' = [up EXCEPT ![c] = Tail(@)]
    /\ LET m == Head(up[c]) IN
          \/ ~managed /\ UNCHANGED <<server, down, quiet>>
          \/ managed /\ m.type = "step1" /\ ServerAnswers(c, m)
          \/ managed /\ m.type # "step1" /\ ServerMerges(c, m)
    /\ UNCHANGED <<viewers, linked, joined, synced, replica, managed, stored>>

(* A debounced or a safety flush.                                          *)
Save ==
    /\ managed
    /\ stored # server
    /\ stored' = server
    /\ UNCHANGED <<viewers, linked, joined, synced, replica, managed, server,
                   up, down, quiet>>

(* The idle timeout.                                                       *)
Evict ==
    /\ managed /\ joined = {}
    /\ managed' = FALSE
    /\ server' = stored
    /\ UNCHANGED <<viewers, linked, joined, synced, replica, stored, up, down, quiet>>

Crash ==
    /\ managed' = FALSE
    /\ server' = stored
    /\ Cut(Clients)
    /\ UNCHANGED stored

ReplicasNext ==
    \/ \E c \in Clients :
          Connect(c) \/ Joined(c) \/ Disconnect(c) \/ ClientReads(c) \/ ServerReads(c)
    \/ \E c \in Clients, u \in Updates : Edit(c, u)
    \/ Save \/ Evict \/ Crash

ReplicasSpec == ReplicasInit /\ [][ReplicasNext]_vars

(* The queries of a join are answered and messages on a connection that    *)
(* lasts are delivered.                                                    *)
Delivery ==
    \A c \in Clients : WF_vars(Joined(c)) /\ WF_vars(ClientReads(c)) /\ WF_vars(ServerReads(c))

ReplicasFairSpec == ReplicasSpec /\ Delivery

-----------------------------------------------------------------------------
(* The handshake of this connection is over and nothing is on its way.     *)
Settled(c) == c \in synced /\ up[c] = <<>> /\ down[c] = <<>>

(* Whatever a client that is in step shows, typed before, during or after  *)
(* the handshake, offline or into a document the server had just lost in a *)
(* crash, the server has too.                                              *)
NothingStranded == \A c \in Clients : Settled(c) => replica[c] \subseteq server

(* A client that is in step lacks nothing but what reached the server in   *)
(* the handshake of another client or from a read-only one: handleYjsSync  *)
(* relays neither (ws.gateway.ts:254, 256), and no broadcast falls between *)
(* the join and the end of a handshake.                                    *)
LacksOnlyQuiet == \A c \in Clients : Settled(c) => server \ replica[c] \subseteq quiet

(* What one client shows, every other one comes to show, as long as the    *)
(* connections of both last and it did not reach the server quietly.       *)
EveryoneCatchesUp ==
    \A c, d \in Clients, u \in Updates :
        u \in replica[c] ~> \/ u \in replica[d] \cup quiet
                            \/ {c, d} \cap linked # {c, d}

=============================================================================
