-------------------------- MODULE WsGatewayProofs --------------------------
(***************************************************************************)
(* The gateway over the document manager, for all sockets and nodes: every *)
(* step of the composition is a step of YjsDocManager, so that what is     *)
(* proved of the manager holds under the gateway; and yjsRooms, the rights *)
(* and the gauge follow what the manager and the membership table hold.    *)
(***************************************************************************)
EXTENDS WsGateway, YjsDurabilityProofs, FiniteSetTheorems

-----------------------------------------------------------------------------
(* What the gateway asks of the manager is what the manager does.          *)

LEMMA RemoveFromIsStep ==
    ASSUME NEW N \in SUBSET Nodes, NEW s \in Sockets, RemoveFrom(N, s)
    PROVE  [Next]_vars
BY DEF RemoveFrom, Next

LEMMA GetDocIsStep ==
    ASSUME NEW s \in Sockets, NEW n \in Nodes, GetDoc(s, n)
    PROVE  Next
BY DEF GetDoc, Next, Join

LEMMA GatewayStepIsStep == TypeOK /\ [GatewayNext]_allvars => [Next]_vars
<1> SUFFICES ASSUME TypeOK, [GatewayNext]_allvars
             PROVE  [Next]_vars
    OBVIOUS
<1>1. ASSUME NEW s \in Sockets, Connect(s) \/ Reject(s) \/ JoinWorkspace(s) \/ RoleGranted(s)
      PROVE  [Next]_vars
    BY <1>1 DEF Connect, Reject, JoinWorkspace, RoleGranted
<1>2. ASSUME NEW s \in Sockets, Disconnect(s)
      PROVE  [Next]_vars
    <2>1. LeftOnDisconnect(s) \in SUBSET Nodes
        BY DEF LeftOnDisconnect, TypeOK
    <2> QED
        BY <1>2, <2>1, RemoveFromIsStep DEF Disconnect
<1>3. ASSUME NEW s \in Sockets, NEW n \in Nodes,
             YjsJoin(s, n) \/ YjsJoinCached(s, n) \/ Checked(s, n) \/ YjsLeave(s, n)
      PROVE  [Next]_vars
    <2>1. CASE YjsJoin(s, n)
        BY <2>1 DEF YjsJoin
    <2>2. CASE YjsJoinCached(s, n)
        BY <2>2, GetDocIsStep DEF YjsJoinCached
    <2>3. CASE Checked(s, n)
        BY <2>3, GetDocIsStep DEF Checked
    <2>4. CASE YjsLeave(s, n)
        BY <2>4, RemoveFromIsStep DEF YjsLeave
    <2> QED
        BY <1>3, <2>1, <2>2, <2>3, <2>4
<1>4. ASSUME NEW s \in Sockets, NEW n \in Nodes, NEW u \in Updates,
             YjsSync(s, n, u) \/ YjsSyncStep2(s, n, u)
      PROVE  [Next]_vars
    BY <1>4 DEF YjsSync, YjsSyncStep2, Next
<1>5. ASSUME NEW n \in Nodes, JoinsResume(n)
      PROVE  [Next]_vars
    BY <1>5 DEF JoinsResume, Next
<1>6. ASSUME NEW n \in Nodes, ManagerStep(n)
      PROVE  [Next]_vars
    BY <1>6 DEF ManagerStep, Next
<1>7. CASE GatewayTick \/ GatewayRestart
    BY <1>7 DEF GatewayTick, GatewayRestart, Next
<1>8. CASE UNCHANGED allvars
    BY <1>8 DEF allvars
<1> QED
    BY <1>1, <1>2, <1>3, <1>4, <1>5, <1>6, <1>7, <1>8 DEF GatewayNext

(* The manager under the gateway behaves as YjsDocManager says, so that    *)
(* every theorem about Spec is one about GatewaySpec.                      *)
THEOREM GatewayImplementsManager == GatewaySpec => Spec
<1>1. GatewayInit => Init
    BY DEF GatewayInit
<1> QED
    BY <1>1, InitType, TypeStep, GatewayStepIsStep, PTL DEF GatewaySpec, Spec

(* So under any sockets, those that edit without having joined included,   *)
(* the documents keep the contract of DurableDocs while Redis answers and  *)
(* no key expires, and lose nothing but late edits when they are evicted.  *)
THEOREM GatewayKeepsDocs ==
    ASSUME "fault" \notin Env, "expire" \notin Env
    PROVE  GatewaySpec => DurableSpec /\ []IdleIsSaved
BY GatewayImplementsManager, DocsAreDurable, IdleDocsAreCached, PTL

LEMMA ManagerCorrect == GatewaySpec => []TypeOK /\ []MemoryInv
BY GatewayImplementsManager, TypeCorrect, MemoryCorrect, PTL

-----------------------------------------------------------------------------
(* What the steps of the manager do to who takes part in a document and    *)
(* who waits for one.                                                      *)

(* A document loses all its clients only with its node, and joins in       *)
(* flight only disappear.                                                  *)
NobodyComes ==
    /\ \A n \in Nodes : \/ clients'[n] = clients[n] /\ (clients[n] # {} => n \in managed')
                        \/ clients'[n] = {} /\ n \in deleted'
    /\ \A n \in Nodes : waiters'[n] \subseteq waiters[n]
    /\ deleted \subseteq deleted'

ClientsInMemory == \A n \in Nodes : clients[n] # {} => n \in managed

LEMMA ManagerStepEffect ==
    ASSUME TypeOK, ClientsInMemory, NEW n \in Nodes, ManagerStep(n)
    PROVE  NobodyComes
<1> USE DEF NobodyComes, ClientsInMemory
<1>1. CASE RedisMiss(n) \/ DbRead(n) \/ SaveTimerFires(n) \/ Expire(n)
           \/ \E i \in Ids : SaveToDb(n, i) \/ SaveToDbFails(n, i)
    BY <1>1 DEF RedisMiss, DbRead, SaveTimerFires, Expire, SaveToDb, SaveToDbFails, memory, loads
<1>2. CASE LoadFails(n)
    BY <1>2 DEF LoadFails, EndLoad, memory, TypeOK
<1>3. CASE IdleTimerFires(n) \/ OrphanFires(n)
    <2>1. Drop(Evictable(n)) /\ UNCHANGED <<loads, deleted>>
        BY <1>3 DEF IdleTimerFires, OrphanFires
    <2>2. \A m \in Evictable(n) : clients[m] = {}
        BY DEF Evictable
    <2>3. \A m \in Nodes : clients'[m] = clients[m]
        BY <2>1, <2>2 DEF Drop
    <2> QED
        BY <2>1, <2>2, <2>3 DEF Drop, loads
<1>4. CASE CleanupNode(n)
    BY <1>4 DEF CleanupNode, Drop, loads
<1> QED
    BY <1>1, <1>2, <1>3, <1>4, ManagerStep(n) DEF ManagerStep

LEMMA SyncEffect ==
    ASSUME TypeOK, ClientsInMemory, NEW n \in Nodes, NEW u \in Updates,
           Update(n, u) \/ UpdateUnscheduled(n, u)
    PROVE  NobodyComes
BY DEF Update, UpdateUnscheduled, NobodyComes, ClientsInMemory, loads

LEMMA TickEffect == ASSUME TypeOK, ClientsInMemory, Tick PROVE NobodyComes
BY DEF Tick, NobodyComes, ClientsInMemory, loads

(* A socket taken out of documents leaves the others in.                   *)
LEMMA RemoveEffect ==
    ASSUME TypeOK, ClientsInMemory, NEW N \in SUBSET managed, NEW s \in Sockets,
           RemoveFrom(N, s)
    PROVE  /\ \A n \in Nodes : clients'[n] = IF n \in N THEN clients[n] \ {s} ELSE clients[n]
           /\ waiters' = waiters /\ deleted' = deleted /\ managed' = managed
BY DEF RemoveFrom, RemoveClient, vars, memory, loads

(* A join takes part at once, or waits.                                    *)
LEMMA GetDocEffect ==
    ASSUME TypeOK, ClientsInMemory, NEW n \in Nodes, NEW s \in Sockets, GetDoc(s, n)
    PROVE  /\ deleted' = deleted /\ managed' = managed
           /\ \A m \in Nodes \ {n} : clients'[m] = clients[m] /\ waiters'[m] = waiters[m]
           /\ \/ /\ n \in managed /\ clients'[n] = clients[n] \cup {s}
                 /\ waiters'[n] = waiters[n] /\ Register({s}, n)
              \/ /\ clients'[n] = clients[n] /\ waiters'[n] \subseteq waiters[n] \cup {s}
                 /\ UNCHANGED <<yjsRooms, readOnly>>
<1> USE DEF TypeOK, memory, loads
<1>1. CASE JoinManaged(n, s) /\ Register({s}, n)
    BY <1>1 DEF JoinManaged
<1>2. CASE JoinPending(n, s) /\ UNCHANGED <<yjsRooms, readOnly>>
    BY <1>2 DEF JoinPending
<1>3. CASE JoinLoads(n, s) /\ UNCHANGED <<yjsRooms, readOnly>>
    BY <1>3 DEF JoinLoads
<1> QED
    BY <1>1, <1>2, <1>3 DEF GetDoc

(* When the document is there its clients are those who waited, and nobody *)
(* took part in it before.                                                 *)
LEMMA LoadedEffect ==
    ASSUME TypeOK, MemoryInv, ClientsInMemory, NEW n \in Nodes, DocLoaded(n)
    PROVE  /\ deleted' = deleted /\ managed' = managed \cup {n} /\ clients[n] = {}
           /\ clients'[n] = waiters[n] /\ waiters'[n] = {}
           /\ \A m \in Nodes \ {n} : clients'[m] = clients[m] /\ waiters'[m] = waiters[m]
<1>1. n \notin managed
    BY DEF DocLoaded, MemoryInv
<1> QED
    BY <1>1 DEF DocLoaded, EndLoad, ClientsInMemory, TypeOK

LEMMA RestartEffect ==
    ASSUME Restart
    PROVE  \A n \in Nodes : clients'[n] = {} /\ waiters'[n] = {}
BY DEF Restart, Drop

LEMMA RegisterEffect ==
    ASSUME NEW S, NEW n \in Nodes, Register(S, n)
    PROVE  \A s \in Sockets :
              /\ yjsRooms'[s] = IF s \in S THEN yjsRooms[s] \cup {n} ELSE yjsRooms[s]
              /\ s \notin S => readOnly'[s] = readOnly[s]
              /\ s \in S => /\ n \in readOnly'[s] <=> membership'[s] = "VIEWER"
                            /\ \A m \in Nodes \ {n} : m \in readOnly'[s] <=> m \in readOnly[s]
BY DEF Register

-----------------------------------------------------------------------------
(* Who takes part.                                                         *)

(* A socket that has not connected is nowhere.                             *)
NewIsNowhere ==
    \A s \in Sockets : conn[s] = "new" =>
        /\ s \notin userId /\ checking[s] = {} /\ yjsRooms[s] = {}
        /\ \A n \in Nodes : s \notin clients[n] /\ s \notin waiters[n]

(* A client of a document, of a deleted node's too, has it in its rooms.   *)
ClientsHaveRooms ==
    \A s \in Sockets, n \in Nodes : conn[s] = "on" /\ s \in clients[n] => n \in yjsRooms[s]

Counted == {s \in Sockets : conn[s] = "on" /\ s \in userId}

PresenceInv ==
    /\ GatewayTypeOK /\ IsFiniteSet(Counted)
    /\ ClientsInMemory /\ NewIsNowhere /\ ClientsHaveRooms /\ RoomsMatchClients

LEMMA PresenceInitially == GatewayInit => PresenceInv
<1> SUFFICES ASSUME GatewayInit
             PROVE  PresenceInv
    OBVIOUS
<1>1. Counted = {}
    BY DEF GatewayInit, Counted
<1>2. IsFiniteSet(Counted) /\ GatewayTypeOK
    BY <1>1, FS_EmptySet DEF GatewayInit, GatewayTypeOK, Counted
<1> QED
    BY <1>2 DEF GatewayInit, Init, PresenceInv, ClientsInMemory, NewIsNowhere,
       ClientsHaveRooms, RoomsMatchClients

(* Steps without connections or joins: the manager's own.                  *)
LEMMA NobodyComesKeeps ==
    ASSUME PresenceInv, NobodyComes, UNCHANGED gvars
    PROVE  PresenceInv'
<1> USE DEF NobodyComes, gvars
<1>1. GatewayTypeOK' /\ IsFiniteSet(Counted)'
    BY DEF PresenceInv, GatewayTypeOK, Counted
<1>2. ClientsInMemory' /\ NewIsNowhere' /\ ClientsHaveRooms'
    BY DEF PresenceInv, ClientsInMemory, NewIsNowhere, ClientsHaveRooms
<1>3. RoomsMatchClients'
    BY DEF PresenceInv, RoomsMatchClients
<1> QED
    BY <1>1, <1>2, <1>3 DEF PresenceInv

(* A connection more or less is one more or less counted.                  *)
LEMMA GaugeMoves ==
    ASSUME PresenceInv, NEW s \in Sockets,
           \/ Connect(s)
           \/ /\ conn[s] \in {"new", "on"} /\ conn' = [conn EXCEPT ![s] = "off"]
              /\ gauge' = gauge - Decrement(s) /\ UNCHANGED userId
    PROVE  IsFiniteSet(Counted') /\ gauge' = Cardinality(Counted')
<1> USE DEF PresenceInv
<1>0. /\ conn \in [Sockets -> {"new", "on", "off"}] /\ userId \subseteq Sockets
      /\ gauge = Cardinality(Counted) /\ IsFiniteSet(Counted)
    BY DEF GatewayTypeOK, Counted
<1>1. CASE Connect(s)
    <2>1. Counted' = Counted \cup {s} /\ s \notin Counted
        BY <1>0, <1>1 DEF Connect, Counted
    <2> QED
        BY <1>0, <1>1, <2>1, FS_AddElement DEF Connect
<1>2. CASE /\ conn[s] \in {"new", "on"} /\ conn' = [conn EXCEPT ![s] = "off"]
           /\ gauge' = gauge - Decrement(s) /\ UNCHANGED userId
    <2>1. Counted' = Counted \ {s} /\ (s \in Counted <=> s \in userId)
        BY <1>0, <1>2 DEF Counted, NewIsNowhere
    <2>2. Cardinality(Counted) \in Nat
        BY <1>0, FS_CardinalityType
    <2>3. CASE s \in userId
        BY <1>0, <1>2, <2>1, <2>3, FS_RemoveElement DEF Decrement
    <2>4. CASE s \notin userId
        <3>1. Counted' = Counted
            BY <2>1, <2>4
        <3> QED
            BY <1>0, <1>2, <2>2, <2>4, <3>1 DEF Decrement
    <2> QED
        BY <2>3, <2>4
<1> QED
    BY <1>1, <1>2

LEMMA ConnectionsKeep ==
    ASSUME PresenceInv, NEW s \in Sockets,
           Connect(s) \/ Reject(s) \/ JoinWorkspace(s) \/ RoleGranted(s)
    PROVE  PresenceInv'
<1> USE DEF PresenceInv
<1>1. UNCHANGED <<vars, yjsRooms, checking, readOnly, membership>>
    BY DEF Connect, Reject, JoinWorkspace, RoleGranted
<1>2. IsFiniteSet(Counted') /\ gauge' = Cardinality(Counted')
    <2>1. CASE Connect(s)
        BY <2>1, GaugeMoves
    <2>2. CASE Reject(s)
        BY <2>2, GaugeMoves DEF Reject
    <2>3. CASE JoinWorkspace(s) \/ RoleGranted(s)
        BY <2>3 DEF JoinWorkspace, RoleGranted, Counted, GatewayTypeOK
    <2> QED
        BY <2>1, <2>2, <2>3
<1>3. GatewayTypeOK'
    <2>1. /\ conn' \in [Sockets -> {"new", "on", "off"}]
          /\ userId' \subseteq Sockets /\ workspaceId' \subseteq Sockets
          /\ role' \in [Sockets -> Roles]
        BY DEF Connect, Reject, JoinWorkspace, RoleGranted, GatewayTypeOK
    <2> QED
        BY <1>1, <1>2, <2>1 DEF GatewayTypeOK, Counted
<1>4. NewIsNowhere'
    <2>1. \A r \in Sockets : conn'[r] = "new" =>
              conn[r] = "new" /\ (r \in userId' <=> r \in userId)
        BY DEF Connect, Reject, JoinWorkspace, RoleGranted, GatewayTypeOK
    <2> QED
        BY <1>1, <2>1 DEF NewIsNowhere, vars, memory, loads
<1>5. ClientsInMemory'
    BY <1>1 DEF ClientsInMemory, vars, memory
<1>6. ClientsHaveRooms' /\ RoomsMatchClients'
    <2>1. \A r \in Sockets : conn'[r] = "on" => conn[r] = "on" \/ (r = s /\ conn[s] = "new")
        BY DEF Connect, Reject, JoinWorkspace, RoleGranted, GatewayTypeOK
    <2> QED
        BY <1>1, <2>1 DEF ClientsHaveRooms, RoomsMatchClients, NewIsNowhere, vars, memory
<1> QED
    BY <1>2, <1>3, <1>4, <1>5, <1>6

LEMMA DisconnectKeeps ==
    ASSUME TypeOK, PresenceInv, NEW s \in Sockets, Disconnect(s)
    PROVE  PresenceInv'
<1> USE DEF PresenceInv
<1>1. LeftOnDisconnect(s) \in SUBSET managed
    BY DEF LeftOnDisconnect
<1>2. /\ \A n \in Nodes : clients'[n] \subseteq clients[n] /\ clients[n] \ {s} \subseteq clients'[n]
      /\ waiters' = waiters /\ deleted' = deleted /\ managed' = managed
    <2>1. RemoveFrom(LeftOnDisconnect(s), s)
        BY DEF Disconnect
    <2>2. /\ \A n \in Nodes : clients'[n] = IF n \in LeftOnDisconnect(s) THEN clients[n] \ {s}
                                                                     ELSE clients[n]
          /\ waiters' = waiters /\ deleted' = deleted /\ managed' = managed
        BY <1>1, <2>1, RemoveEffect
    <2> QED
        BY <2>2
<1>3. /\ conn' = [conn EXCEPT ![s] = "off"] /\ conn \in [Sockets -> {"new", "on", "off"}]
      /\ yjsRooms' = [yjsRooms EXCEPT ![s] = {}] /\ yjsRooms \in [Sockets -> SUBSET Nodes]
      /\ UNCHANGED <<userId, workspaceId, role, membership, checking, readOnly>>
    BY DEF Disconnect, GatewayTypeOK
<1>4. IsFiniteSet(Counted') /\ gauge' = Cardinality(Counted')
    BY GaugeMoves DEF Disconnect
<1>5. GatewayTypeOK'
    BY <1>3, <1>4 DEF GatewayTypeOK, Counted
<1>6. ClientsInMemory' /\ NewIsNowhere'
    BY <1>2, <1>3 DEF ClientsInMemory, NewIsNowhere
<1>7. ClientsHaveRooms' /\ RoomsMatchClients'
    BY <1>2, <1>3 DEF ClientsHaveRooms, RoomsMatchClients
<1> QED
    BY <1>4, <1>5, <1>6, <1>7

LEMMA LeaveKeeps ==
    ASSUME TypeOK, PresenceInv, NEW s \in Sockets, NEW n \in Nodes, YjsLeave(s, n)
    PROVE  PresenceInv'
<1> USE DEF PresenceInv
<1>1. /\ \A m \in Nodes : clients'[m] = IF m = n THEN clients[m] \ {s} ELSE clients[m]
      /\ waiters' = waiters /\ deleted' = deleted /\ managed' = managed
    <2>1. RemoveFrom({n} \cap managed, s) /\ {n} \cap managed \in SUBSET managed
        BY DEF YjsLeave
    <2>2. /\ \A m \in Nodes : clients'[m] = IF m \in {n} \cap managed THEN clients[m] \ {s}
                                                                    ELSE clients[m]
          /\ waiters' = waiters /\ deleted' = deleted /\ managed' = managed
        BY <2>1, RemoveEffect
    <2> QED
        BY <2>2 DEF ClientsInMemory
<1>2. /\ yjsRooms' = [yjsRooms EXCEPT ![s] = @ \ {n}] /\ yjsRooms \in [Sockets -> SUBSET Nodes]
      /\ UNCHANGED <<conn, userId, workspaceId, role, membership, checking, readOnly, gauge>>
    BY DEF YjsLeave, ForgetRoom, GatewayTypeOK
<1>3. GatewayTypeOK' /\ IsFiniteSet(Counted)'
    BY <1>2 DEF GatewayTypeOK, Counted
<1>4. ClientsInMemory' /\ NewIsNowhere'
    BY <1>1, <1>2 DEF ClientsInMemory, NewIsNowhere
<1>5. \A r \in Sockets, m \in Nodes :
          /\ m \in yjsRooms'[r] <=> m \in yjsRooms[r] /\ ~(r = s /\ m = n)
          /\ r \in clients'[m] <=> r \in clients[m] /\ ~(r = s /\ m = n)
    BY <1>1, <1>2
<1>6. ClientsHaveRooms' /\ RoomsMatchClients'
    BY <1>1, <1>2, <1>5 DEF ClientsHaveRooms, RoomsMatchClients
<1> QED
    BY <1>3, <1>4, <1>6

(* Joins: who becomes a client has the room, and the other way round.      *)
LEMMA GetDocKeeps ==
    ASSUME TypeOK, PresenceInv, NEW s \in Sockets, NEW n \in Nodes, conn[s] # "new",
           GetDoc(s, n), UNCHANGED <<conn, userId, workspaceId, role, gauge>>,
           checking' \in [Sockets -> SUBSET Nodes], \A r \in Sockets : checking'[r] \subseteq checking[r],
           membership' \in [Sockets -> Roles \cup {"unknown"}]
    PROVE  PresenceInv'
<1> USE DEF PresenceInv
<1>1. /\ deleted' = deleted /\ managed' = managed
      /\ \A m \in Nodes \ {n} : clients'[m] = clients[m] /\ waiters'[m] = waiters[m]
      /\ waiters'[n] \subseteq waiters[n] \cup {s}
    BY GetDocEffect
<1>2. /\ yjsRooms \in [Sockets -> SUBSET Nodes] /\ readOnly \in [Sockets -> SUBSET Nodes]
    BY DEF GatewayTypeOK
<1>3. CASE n \in managed /\ clients'[n] = clients[n] \cup {s} /\ Register({s}, n)
    <2>1. /\ yjsRooms' \in [Sockets -> SUBSET Nodes] /\ readOnly' \in [Sockets -> SUBSET Nodes]
        BY <1>2, <1>3 DEF Register
    <2>2. \A r \in Sockets : yjsRooms'[r] = IF r = s THEN yjsRooms[r] \cup {n} ELSE yjsRooms[r]
        BY <1>3, RegisterEffect
    <2>3. GatewayTypeOK' /\ IsFiniteSet(Counted)'
        BY <2>1 DEF GatewayTypeOK, Counted
    <2>4. \A r \in Sockets, m \in Nodes :
              /\ m \in yjsRooms'[r] <=> m \in yjsRooms[r] \/ (r = s /\ m = n)
              /\ r \in clients'[m] <=> r \in clients[m] \/ (r = s /\ m = n)
              /\ r \in waiters'[m] => r \in waiters[m] \/ r = s
        BY <1>1, <1>3, <2>2
    <2>5. ClientsInMemory'
        BY <1>1, <1>3 DEF ClientsInMemory
    <2>6. NewIsNowhere'
        BY <2>2, <2>4 DEF NewIsNowhere
    <2>7. ClientsHaveRooms' /\ RoomsMatchClients'
        BY <1>1, <2>4 DEF ClientsHaveRooms, RoomsMatchClients
    <2> QED
        BY <2>3, <2>5, <2>6, <2>7
<1>4. CASE clients'[n] = clients[n] /\ UNCHANGED <<yjsRooms, readOnly>>
    <2>1. GatewayTypeOK' /\ IsFiniteSet(Counted)'
        BY <1>4 DEF GatewayTypeOK, Counted
    <2>2. ClientsInMemory' /\ NewIsNowhere'
        BY <1>1, <1>4 DEF ClientsInMemory, NewIsNowhere
    <2>3. ClientsHaveRooms' /\ RoomsMatchClients'
        BY <1>1, <1>4 DEF ClientsHaveRooms, RoomsMatchClients
    <2> QED
        BY <2>1, <2>2, <2>3
<1> QED
    BY <1>3, <1>4, GetDocEffect

LEMMA ResumeKeeps ==
    ASSUME TypeOK, MemoryInv, PresenceInv, NEW n \in Nodes, JoinsResume(n)
    PROVE  PresenceInv'
<1> USE DEF PresenceInv
<1>1. /\ deleted' = deleted /\ managed' = managed \cup {n} /\ clients[n] = {}
      /\ clients'[n] = waiters[n] /\ waiters'[n] = {}
      /\ \A m \in Nodes \ {n} : clients'[m] = clients[m] /\ waiters'[m] = waiters[m]
    BY LoadedEffect DEF JoinsResume
<1>2. /\ Register(waiters[n], n)
      /\ UNCHANGED <<conn, userId, workspaceId, role, membership, checking, gauge>>
    BY DEF JoinsResume
<1>3. \A r \in Sockets : yjsRooms'[r] = IF r \in waiters[n] THEN yjsRooms[r] \cup {n} ELSE yjsRooms[r]
    BY <1>2, RegisterEffect
<1>4. GatewayTypeOK' /\ IsFiniteSet(Counted)'
    <2>1. /\ yjsRooms' \in [Sockets -> SUBSET Nodes] /\ readOnly' \in [Sockets -> SUBSET Nodes]
        BY <1>2 DEF Register, GatewayTypeOK
    <2> QED
        BY <1>2, <2>1 DEF GatewayTypeOK, Counted
<1>5. ClientsInMemory' /\ NewIsNowhere'
    BY <1>1, <1>2, <1>3 DEF ClientsInMemory, NewIsNowhere
<1>6. \A r \in Sockets, m \in Nodes :
          /\ m \in yjsRooms'[r] <=> m \in yjsRooms[r] \/ (r \in waiters[n] /\ m = n)
          /\ r \in clients'[m] <=> r \in clients[m] \/ (r \in waiters[n] /\ m = n)
    BY <1>1, <1>3
<1>7. ClientsHaveRooms' /\ RoomsMatchClients'
    BY <1>1, <1>2, <1>6 DEF ClientsHaveRooms, RoomsMatchClients
<1> QED
    BY <1>4, <1>5, <1>7

LEMMA RestartKeeps ==
    ASSUME PresenceInv, GatewayRestart
    PROVE  PresenceInv'
<1>1. Counted' = {}
    BY DEF GatewayRestart, Counted
<1>2. \A s \in Sockets : conn'[s] # "on"
    BY DEF GatewayRestart
<1>3. \A n \in Nodes : clients'[n] = {} /\ waiters'[n] = {}
    BY RestartEffect DEF GatewayRestart
<1>4. GatewayTypeOK' /\ IsFiniteSet(Counted')
    BY <1>1, FS_EmptySet DEF GatewayRestart, PresenceInv, GatewayTypeOK, Counted
<1> QED
    BY <1>2, <1>3, <1>4
    DEF GatewayRestart, PresenceInv, ClientsInMemory, NewIsNowhere, ClientsHaveRooms,
        RoomsMatchClients

LEMMA PresenceStep ==
    TypeOK /\ MemoryInv /\ PresenceInv /\ [GatewayNext]_allvars => PresenceInv'
<1> SUFFICES ASSUME TypeOK, MemoryInv, PresenceInv, [GatewayNext]_allvars
             PROVE  PresenceInv'
    OBVIOUS
<1>0. ClientsInMemory /\ NewIsNowhere /\ GatewayTypeOK
    BY DEF PresenceInv
<1>1. ASSUME NEW s \in Sockets, Connect(s) \/ Reject(s) \/ JoinWorkspace(s) \/ RoleGranted(s)
      PROVE  PresenceInv'
    BY <1>1, ConnectionsKeep
<1>2. ASSUME NEW s \in Sockets, Disconnect(s)
      PROVE  PresenceInv'
    BY <1>2, DisconnectKeeps
<1>3. ASSUME NEW s \in Sockets, NEW n \in Nodes, YjsJoin(s, n)
      PROVE  PresenceInv'
    <2>1. NewIsNowhere' /\ GatewayTypeOK'
        BY <1>0, <1>3 DEF YjsJoin, NewIsNowhere, GatewayTypeOK, vars, memory, loads
    <2> QED
        BY <1>3, <2>1 DEF YjsJoin, PresenceInv, ClientsInMemory, ClientsHaveRooms,
           RoomsMatchClients, Counted, vars, memory, loads
<1>4. ASSUME NEW s \in Sockets, NEW n \in Nodes, YjsJoinCached(s, n)
      PROVE  PresenceInv'
    <2>1. /\ conn[s] # "new" /\ GetDoc(s, n)
          /\ UNCHANGED <<conn, userId, workspaceId, role, gauge, checking, membership>>
        BY <1>4 DEF YjsJoinCached
    <2>2. /\ checking' \in [Sockets -> SUBSET Nodes]
          /\ membership' \in [Sockets -> Roles \cup {"unknown"}]
        BY <1>0, <2>1 DEF GatewayTypeOK
    <2> QED
        BY <2>1, <2>2, GetDocKeeps
<1>5. ASSUME NEW s \in Sockets, NEW n \in Nodes, Checked(s, n)
      PROVE  PresenceInv'
    <2>1. /\ conn[s] # "new" /\ UNCHANGED <<conn, userId, workspaceId, role, gauge>>
          /\ checking' \in [Sockets -> SUBSET Nodes]
          /\ \A r \in Sockets : checking'[r] \subseteq checking[r]
          /\ membership' \in [Sockets -> Roles \cup {"unknown"}]
        BY <1>0, <1>5 DEF Checked, NewIsNowhere, GatewayTypeOK
    <2>2. CASE GetDoc(s, n)
        BY <2>1, <2>2, GetDocKeeps
    <2>3. CASE UNCHANGED <<vars, yjsRooms, readOnly>>
        <3>1. NewIsNowhere' /\ GatewayTypeOK'
            BY <1>0, <2>1, <2>3 DEF NewIsNowhere, GatewayTypeOK, vars, memory, loads
        <3> QED
            BY <2>1, <2>3, <3>1 DEF PresenceInv, ClientsInMemory, ClientsHaveRooms,
               RoomsMatchClients, Counted, vars, memory, loads
    <2> QED
        BY <1>5, <2>2, <2>3 DEF Checked
<1>6. ASSUME NEW s \in Sockets, NEW n \in Nodes, YjsLeave(s, n)
      PROVE  PresenceInv'
    BY <1>6, LeaveKeeps
<1>7. ASSUME NEW s \in Sockets, NEW n \in Nodes, NEW u \in Updates,
             YjsSync(s, n, u) \/ YjsSyncStep2(s, n, u)
      PROVE  PresenceInv'
    BY <1>0, <1>7, SyncEffect, NobodyComesKeeps DEF YjsSync, YjsSyncStep2
<1>8. ASSUME NEW n \in Nodes, JoinsResume(n)
      PROVE  PresenceInv'
    BY <1>8, ResumeKeeps
<1>9. ASSUME NEW n \in Nodes, ManagerStep(n)
      PROVE  PresenceInv'
    <2>1. UNCHANGED gvars
        BY <1>9 DEF ManagerStep
    <2> QED
        BY <1>0, <1>9, <2>1, ManagerStepEffect, NobodyComesKeeps
<1>10. CASE GatewayTick
    BY <1>0, <1>10, TickEffect, NobodyComesKeeps DEF GatewayTick
<1>11. CASE GatewayRestart
    BY <1>11, RestartKeeps
<1>12. CASE UNCHANGED allvars
    <2>1. NobodyComes /\ UNCHANGED gvars
        BY <1>0, <1>12 DEF allvars, vars, memory, loads, NobodyComes, ClientsInMemory
    <2> QED
        BY <2>1, NobodyComesKeeps
<1> QED
    BY <1>1, <1>2, <1>3, <1>4, <1>5, <1>6, <1>7, <1>8, <1>9, <1>10, <1>11, <1>12
    DEF GatewayNext

LEMMA PresenceCorrect == GatewaySpec => []PresenceInv
<1>1. GatewayInit => Init
    BY DEF GatewayInit
<1> QED
    BY <1>1, PresenceInitially, PresenceStep, ManagerCorrect, PTL DEF GatewaySpec

(* The variables of the gateway keep their types, and the ws_connections   *)
(* gauge is the number of connections it let in, however they end.         *)
THEOREM GatewayTypeCorrect == GatewaySpec => []GatewayTypeOK
<1>1. PresenceInv => GatewayTypeOK
    BY DEF PresenceInv
<1> QED
    BY <1>1, PresenceCorrect, PTL

(* A connected socket is a client of just the documents its rooms name, so *)
(* that handleDisconnect leaves no ghost behind and forgets no document.   *)
THEOREM RoomsAlwaysMatch == GatewaySpec => []RoomsMatchClients
<1>1. PresenceInv => RoomsMatchClients
    BY DEF PresenceInv
<1> QED
    BY <1>1, PresenceCorrect, PTL

-----------------------------------------------------------------------------
(* What who takes part may do.                                             *)

(* A role found for a socket is its user's still; who waits for a document *)
(* or takes part in it has been found a member.                            *)
RightsInv ==
    /\ \A s \in Sockets : KnownMember(s) => role[s] = membership[s]
    /\ \A s \in Sockets, n \in Nodes : s \in waiters[n] => KnownMember(s)
    /\ \A s \in Sockets : \A n \in yjsRooms[s] :
          KnownMember(s) /\ (n \in readOnly[s] <=> role[s] = "VIEWER")

(* Fewer joins in flight and fewer rooms ask for less.                     *)
LEMMA FewerRightsKeep ==
    ASSUME RightsInv, UNCHANGED <<role, membership, readOnly>>,
           \A n \in Nodes : waiters'[n] \subseteq waiters[n],
           \A s \in Sockets : yjsRooms'[s] \subseteq yjsRooms[s]
    PROVE  RightsInv'
BY DEF RightsInv, KnownMember

LEMMA GetDocKeepsRights ==
    ASSUME TypeOK, PresenceInv, RightsInv, NEW s \in Sockets, NEW n \in Nodes,
           GetDoc(s, n), UNCHANGED role,
           \A r \in Sockets \ {s} : membership'[r] = membership[r],
           membership'[s] = role[s], role[s] # "NONE"
    PROVE  RightsInv'
<1> USE DEF RightsInv, KnownMember
<1>0. role[s] \in {"EDITOR", "VIEWER"} /\ ClientsInMemory /\ yjsRooms \in [Sockets -> SUBSET Nodes]
    BY DEF PresenceInv, GatewayTypeOK, Roles
<1>1. \A r \in Sockets : KnownMember(r)' => role'[r] = membership'[r]
    OBVIOUS
<1>2. KnownMember(s)' /\ \A r \in Sockets : KnownMember(r) => KnownMember(r)'
    BY <1>0
<1>3. \A r \in Sockets, m \in Nodes : r \in waiters'[m] => KnownMember(r)'
    <2>1. /\ \A m \in Nodes \ {n} : waiters'[m] = waiters[m]
          /\ waiters'[n] \subseteq waiters[n] \cup {s}
        BY <1>0, GetDocEffect
    <2>2. \A r \in Sockets, m \in Nodes : r \in waiters'[m] => r \in waiters[m] \/ r = s
        BY <2>1
    <2> QED
        BY <1>2, <2>2
<1>4. \A r \in Sockets : \A m \in yjsRooms'[r] :
          KnownMember(r)' /\ (m \in readOnly'[r] <=> role'[r] = "VIEWER")
    <2>1. CASE Register({s}, n)
        <3>1. \A r \in Sockets \ {s} : yjsRooms'[r] = yjsRooms[r] /\ readOnly'[r] = readOnly[r]
            BY <2>1, RegisterEffect
        <3>2. /\ yjsRooms'[s] = yjsRooms[s] \cup {n}
              /\ n \in readOnly'[s] <=> role[s] = "VIEWER"
              /\ \A m \in Nodes \ {n} : m \in readOnly'[s] <=> m \in readOnly[s]
            BY <2>1, RegisterEffect
        <3>3. \A m \in yjsRooms'[s] : m \in readOnly'[s] <=> role'[s] = "VIEWER"
            BY <1>0, <3>2
        <3> QED
            BY <1>2, <3>1, <3>3
    <2>2. CASE UNCHANGED <<yjsRooms, readOnly>>
        BY <1>2, <2>2
    <2> QED
        BY <1>0, <2>1, <2>2, GetDocEffect
<1> QED
    BY <1>1, <1>3, <1>4

LEMMA RightsStep ==
    TypeOK /\ MemoryInv /\ PresenceInv /\ RightsInv /\ [GatewayNext]_allvars => RightsInv'
<1> SUFFICES ASSUME TypeOK, MemoryInv, PresenceInv, RightsInv, [GatewayNext]_allvars
             PROVE  RightsInv'
    OBVIOUS
<1>0. ClientsInMemory /\ NewIsNowhere /\ GatewayTypeOK
    BY DEF PresenceInv
<1>1. ASSUME NEW s \in Sockets, Connect(s) \/ Reject(s) \/ JoinWorkspace(s)
      PROVE  RightsInv'
    BY <1>1, FewerRightsKeep DEF Connect, Reject, JoinWorkspace, vars, loads
<1>2. ASSUME NEW s \in Sockets, RoleGranted(s)
      PROVE  RightsInv'
    <2>1. /\ role[s] = "NONE" /\ \A r \in Sockets \ {s} : role'[r] = role[r]
          /\ UNCHANGED <<waiters, membership, yjsRooms, readOnly>>
        BY <1>0, <1>2 DEF RoleGranted, GatewayTypeOK, vars, loads
    <2>2. ~KnownMember(s)
        BY <2>1 DEF RightsInv, KnownMember
    <2> QED
        BY <2>1, <2>2 DEF RightsInv, KnownMember
<1>3. ASSUME NEW s \in Sockets, Disconnect(s)
      PROVE  RightsInv'
    <2>1. LeftOnDisconnect(s) \in SUBSET managed /\ RemoveFrom(LeftOnDisconnect(s), s)
        BY <1>3 DEF LeftOnDisconnect, Disconnect
    <2>2. waiters' = waiters
        BY <1>0, <2>1, RemoveEffect
    <2> QED
        BY <1>0, <1>3, <2>2, FewerRightsKeep DEF Disconnect, GatewayTypeOK
<1>4. ASSUME NEW s \in Sockets, NEW n \in Nodes, YjsJoin(s, n)
      PROVE  RightsInv'
    BY <1>4, FewerRightsKeep DEF YjsJoin, vars, loads
<1>5. ASSUME NEW s \in Sockets, NEW n \in Nodes, YjsJoinCached(s, n)
      PROVE  RightsInv'
    <2>1. /\ GetDoc(s, n) /\ UNCHANGED <<role, membership>>
          /\ membership[s] = role[s] /\ role[s] # "NONE"
        BY <1>5 DEF YjsJoinCached, RightsInv, KnownMember
    <2> QED
        BY <2>1, GetDocKeepsRights
<1>6. ASSUME NEW s \in Sockets, NEW n \in Nodes, Checked(s, n)
      PROVE  RightsInv'
    <2>1. /\ UNCHANGED role /\ membership'[s] = role[s]
          /\ \A r \in Sockets \ {s} : membership'[r] = membership[r]
        BY <1>0, <1>6 DEF Checked, GatewayTypeOK
    <2>2. CASE role[s] = "NONE"
        <3>1. ~KnownMember(s) /\ ~KnownMember(s)' /\ UNCHANGED <<waiters, yjsRooms, readOnly>>
            BY <1>6, <2>1, <2>2 DEF Checked, RightsInv, KnownMember, vars, loads
        <3> QED
            BY <2>1, <3>1 DEF RightsInv, KnownMember
    <2>3. CASE role[s] # "NONE"
        BY <1>6, <2>1, <2>3, GetDocKeepsRights DEF Checked
    <2> QED
        BY <2>2, <2>3
<1>7. ASSUME NEW s \in Sockets, NEW n \in Nodes, YjsLeave(s, n)
      PROVE  RightsInv'
    <2>1. RemoveFrom({n} \cap managed, s) /\ {n} \cap managed \in SUBSET managed
        BY <1>7 DEF YjsLeave
    <2>2. waiters' = waiters
        BY <1>0, <2>1, RemoveEffect
    <2> QED
        BY <1>0, <1>7, <2>2, FewerRightsKeep DEF YjsLeave, ForgetRoom, GatewayTypeOK
<1>8. ASSUME NEW n \in Nodes, JoinsResume(n)
      PROVE  RightsInv'
    <2>1. /\ Register(waiters[n], n) /\ UNCHANGED <<role, membership>>
          /\ yjsRooms \in [Sockets -> SUBSET Nodes]
        BY <1>0, <1>8 DEF JoinsResume, GatewayTypeOK
    <2>2. \A r \in Sockets, m \in Nodes : r \in waiters'[m] => r \in waiters[m]
        BY <1>0, <1>8, LoadedEffect DEF JoinsResume
    <2>3. ASSUME NEW r \in Sockets, NEW m \in yjsRooms'[r]
          PROVE  KnownMember(r) /\ (m \in readOnly'[r] <=> role[r] = "VIEWER")
        <3>1. CASE r \in waiters[n]
            <4>1. /\ yjsRooms'[r] = yjsRooms[r] \cup {n}
                  /\ n \in readOnly'[r] <=> membership[r] = "VIEWER"
                  /\ \A k \in Nodes \ {n} : k \in readOnly'[r] <=> k \in readOnly[r]
                <5>1. membership'[r] = membership[r]
                    BY <2>1
                <5> DEFINE S == waiters[n]
                <5>2. Register(S, n) /\ r \in S
                    BY <2>1, <3>1
                <5> HIDE DEF S
                <5>3. /\ yjsRooms'[r] = IF r \in S THEN yjsRooms[r] \cup {n} ELSE yjsRooms[r]
                      /\ r \in S => /\ n \in readOnly'[r] <=> membership'[r] = "VIEWER"
                                    /\ \A k \in Nodes \ {n} :
                                          k \in readOnly'[r] <=> k \in readOnly[r]
                    BY <5>2, RegisterEffect, Zenon
                <5>4. yjsRooms'[r] = yjsRooms[r] \cup {n}
                    BY <5>2, <5>3, Zenon
                <5>5. n \in readOnly'[r] <=> membership[r] = "VIEWER"
                    BY <5>1, <5>2, <5>3, Zenon
                <5>6. \A k \in Nodes \ {n} : k \in readOnly'[r] <=> k \in readOnly[r]
                    BY <5>2, <5>3, Zenon
                <5> QED
                    BY <5>4, <5>5, <5>6, Zenon
            <4>2. KnownMember(r) /\ role[r] = membership[r]
                BY <3>1 DEF RightsInv
            <4> QED
                BY <2>1, <2>3, <4>1, <4>2 DEF RightsInv
        <3>2. CASE r \notin waiters[n]
            BY <2>1, <2>3, <3>2, RegisterEffect DEF RightsInv
        <3> QED
            BY <3>1, <3>2
    <2> QED
        BY <2>1, <2>2, <2>3 DEF RightsInv, KnownMember
<1>9. ASSUME NobodyComes, UNCHANGED gvars
      PROVE  RightsInv'
    BY <1>9, FewerRightsKeep DEF NobodyComes, gvars
<1>10. ASSUME NEW s \in Sockets, NEW n \in Nodes, NEW u \in Updates,
              YjsSync(s, n, u) \/ YjsSyncStep2(s, n, u)
       PROVE  RightsInv'
    BY <1>0, <1>9, <1>10, SyncEffect DEF YjsSync, YjsSyncStep2
<1>11. ASSUME NEW n \in Nodes, ManagerStep(n)
       PROVE  RightsInv'
    <2>1. UNCHANGED gvars
        BY <1>11 DEF ManagerStep
    <2> QED
        BY <1>0, <1>9, <1>11, <2>1, ManagerStepEffect
<1>12. CASE GatewayTick
    BY <1>0, <1>9, <1>12, TickEffect DEF GatewayTick
<1>13. CASE GatewayRestart
    <2>1. \A n \in Nodes : waiters'[n] = {}
        BY <1>13, RestartEffect DEF GatewayRestart
    <2> QED
        BY <1>13, <2>1 DEF GatewayRestart, RightsInv, KnownMember
<1>14. CASE UNCHANGED allvars
    BY <1>14, FewerRightsKeep DEF allvars, vars, loads, gvars
<1> QED
    BY <1>1, <1>2, <1>3, <1>4, <1>5, <1>6, <1>7, <1>8, <1>10, <1>11, <1>12, <1>13, <1>14
    DEF GatewayNext

(* Who takes part in a document is a member, and read-only exactly as a    *)
(* viewer, although a membership is looked up once per socket and kept.    *)
THEOREM RightsStayCurrent == GatewaySpec => []RightsAreCurrent
<1>1. GatewayInit => Init /\ RightsInv
    BY DEF GatewayInit, Init, RightsInv, KnownMember
<1>2. RightsInv => RightsAreCurrent
    BY DEF RightsInv, RightsAreCurrent, KnownMember
<1> QED
    BY <1>1, <1>2, PresenceCorrect, ManagerCorrect, RightsStep, PTL DEF GatewaySpec

-----------------------------------------------------------------------------
(* Who leaves leaves nothing behind, if nobody leaves in a join.           *)

OffIsNowhere ==
    \A s \in Sockets : conn[s] # "on" =>
        checking[s] = {} /\ \A n \in Nodes : s \notin waiters[n] /\ s \notin clients[n]

LEMMA FewerJoinsKeep ==
    ASSUME OffIsNowhere, UNCHANGED <<conn, checking>>,
           \A n \in Nodes : waiters'[n] \subseteq waiters[n] /\ clients'[n] \subseteq clients[n]
    PROVE  OffIsNowhere'
BY DEF OffIsNowhere

LEMMA PatienceStep ==
    /\ TypeOK /\ MemoryInv /\ PresenceInv /\ OffIsNowhere
    /\ ~Impatient /\ [GatewayNext]_allvars
    => OffIsNowhere'
<1> SUFFICES ASSUME TypeOK, MemoryInv, PresenceInv, OffIsNowhere,
                    ~Impatient, [GatewayNext]_allvars
             PROVE  OffIsNowhere'
    OBVIOUS
<1>0. ClientsInMemory /\ NewIsNowhere /\ ClientsHaveRooms /\ GatewayTypeOK
    BY DEF PresenceInv
<1>1. ASSUME NEW s \in Sockets, Connect(s) \/ Reject(s) \/ JoinWorkspace(s) \/ RoleGranted(s)
      PROVE  OffIsNowhere'
    <2>1. /\ UNCHANGED <<waiters, clients, checking>>
          /\ \A r \in Sockets : conn'[r] # "on" => conn[r] # "on"
        BY <1>0, <1>1 DEF Connect, Reject, JoinWorkspace, RoleGranted, GatewayTypeOK,
           vars, memory, loads
    <2> QED
        BY <2>1 DEF OffIsNowhere
<1>2. ASSUME NEW s \in Sockets, Disconnect(s)
      PROVE  OffIsNowhere'
    <2>1. LeftOnDisconnect(s) \in SUBSET managed /\ RemoveFrom(LeftOnDisconnect(s), s)
        BY <1>2 DEF LeftOnDisconnect, Disconnect
    <2>2. /\ \A n \in Nodes : clients'[n] = IF n \in LeftOnDisconnect(s) THEN clients[n] \ {s}
                                                                     ELSE clients[n]
          /\ waiters' = waiters
        BY <1>0, <2>1, RemoveEffect
    <2>3. checking' = checking /\ checking[s] = {} /\ \A n \in Nodes : s \notin waiters[n]
        BY <1>2 DEF Disconnect, MayGo, Joining
    <2>4. \A n \in Nodes : s \in clients[n] => n \in LeftOnDisconnect(s)
        BY <1>0, <1>2 DEF Disconnect, ClientsHaveRooms, ClientsInMemory, LeftOnDisconnect
    <2>5. \A n \in Nodes : s \notin clients'[n] /\ clients'[n] \subseteq clients[n]
        BY <2>2, <2>4
    <2>6. \A r \in Sockets : conn'[r] # "on" => conn[r] # "on" \/ r = s
        BY <1>0, <1>2 DEF Disconnect, GatewayTypeOK
    <2> QED
        BY <2>2, <2>3, <2>5, <2>6 DEF OffIsNowhere
<1>3. ASSUME NEW s \in Sockets, NEW n \in Nodes, YjsJoin(s, n)
      PROVE  OffIsNowhere'
    BY <1>0, <1>3 DEF YjsJoin, OffIsNowhere, GatewayTypeOK, vars, memory, loads
<1>4. ASSUME NEW s \in Sockets, NEW n \in Nodes, conn[s] = "on", UNCHANGED conn,
             \A r \in Sockets : checking'[r] \subseteq checking[r], GetDoc(s, n)
      PROVE  OffIsNowhere'
    <2>1. /\ \A m \in Nodes \ {n} : clients'[m] = clients[m] /\ waiters'[m] = waiters[m]
          /\ clients'[n] \subseteq clients[n] \cup {s}
          /\ waiters'[n] \subseteq waiters[n] \cup {s}
        BY <1>0, <1>4, GetDocEffect
    <2>2. \A r \in Sockets \ {s}, m \in Nodes :
              /\ r \in clients'[m] => r \in clients[m]
              /\ r \in waiters'[m] => r \in waiters[m]
        BY <2>1
    <2> QED
        BY <1>4, <2>2 DEF OffIsNowhere
<1>5. ASSUME NEW s \in Sockets, NEW n \in Nodes, YjsJoinCached(s, n)
      PROVE  OffIsNowhere'
    BY <1>4, <1>5 DEF YjsJoinCached
<1>6. ASSUME NEW s \in Sockets, NEW n \in Nodes, Checked(s, n)
      PROVE  OffIsNowhere'
    <2>1. /\ conn[s] = "on" /\ UNCHANGED conn
          /\ \A r \in Sockets : checking'[r] \subseteq checking[r]
        BY <1>0, <1>6 DEF Checked, OffIsNowhere, GatewayTypeOK
    <2>2. CASE GetDoc(s, n)
        BY <1>4, <2>1, <2>2
    <2>3. CASE UNCHANGED vars
        BY <2>1, <2>3 DEF OffIsNowhere, vars, memory, loads
    <2> QED
        BY <1>6, <2>2, <2>3 DEF Checked
<1>7. ASSUME NEW s \in Sockets, NEW n \in Nodes, YjsLeave(s, n)
      PROVE  OffIsNowhere'
    <2>1. RemoveFrom({n} \cap managed, s) /\ {n} \cap managed \in SUBSET managed
        BY <1>7 DEF YjsLeave
    <2>2. waiters' = waiters /\ \A m \in Nodes : clients'[m] \subseteq clients[m]
        BY <1>0, <2>1, RemoveEffect
    <2> QED
        BY <1>7, <2>2, FewerJoinsKeep DEF YjsLeave
<1>8. ASSUME NEW n \in Nodes, JoinsResume(n)
      PROVE  OffIsNowhere'
    <2>1. /\ clients'[n] = waiters[n] /\ waiters'[n] = {}
          /\ \A m \in Nodes \ {n} : clients'[m] = clients[m] /\ waiters'[m] = waiters[m]
          /\ UNCHANGED <<conn, checking>>
        BY <1>0, <1>8, LoadedEffect DEF JoinsResume
    <2> QED
        BY <2>1 DEF OffIsNowhere
<1>9. ASSUME NobodyComes, UNCHANGED gvars
      PROVE  OffIsNowhere'
    BY <1>9, FewerJoinsKeep DEF NobodyComes, gvars
<1>10. ASSUME NEW s \in Sockets, NEW n \in Nodes, NEW u \in Updates,
              YjsSync(s, n, u) \/ YjsSyncStep2(s, n, u)
       PROVE  OffIsNowhere'
    BY <1>0, <1>9, <1>10, SyncEffect DEF YjsSync, YjsSyncStep2
<1>11. ASSUME NEW n \in Nodes, ManagerStep(n)
       PROVE  OffIsNowhere'
    <2>1. UNCHANGED gvars
        BY <1>11 DEF ManagerStep
    <2> QED
        BY <1>0, <1>9, <1>11, <2>1, ManagerStepEffect
<1>12. CASE GatewayTick
    BY <1>0, <1>9, <1>12, TickEffect DEF GatewayTick
<1>13. CASE GatewayRestart
    BY <1>13, RestartEffect DEF GatewayRestart, OffIsNowhere
<1>14. CASE UNCHANGED allvars
    BY <1>14, FewerJoinsKeep DEF allvars, vars, memory, loads, gvars
<1> QED
    BY <1>1, <1>2, <1>3, <1>5, <1>6, <1>7, <1>8, <1>10, <1>11, <1>12, <1>13, <1>14
    DEF GatewayNext

(* If no client disconnects while a join of its own is pending, no         *)
(* document has a client that is gone, and none is kept in memory for it.  *)
THEOREM PatientClientsAreConnected ==
    ASSUME ~Impatient
    PROVE  GatewaySpec => []ClientsAreConnected
<1>1. GatewayInit => Init /\ OffIsNowhere
    BY DEF GatewayInit, Init, OffIsNowhere
<1>2. TypeOK /\ MemoryInv /\ PresenceInv /\ OffIsNowhere /\ [GatewayNext]_allvars => OffIsNowhere'
    BY PatienceStep
<1>3. OffIsNowhere => ClientsAreConnected
    BY DEF OffIsNowhere, ClientsAreConnected
<1> QED
    BY <1>1, <1>2, <1>3, PresenceCorrect, ManagerCorrect, PTL DEF GatewaySpec
=============================================================================
