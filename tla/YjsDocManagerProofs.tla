------------------------ MODULE YjsDocManagerProofs ------------------------
(* Theorems about YjsDocManager and their proofs.                          *)
EXTENDS YjsDocManager, TLAPS

-----------------------------------------------------------------------------
(* Type correctness.                                                       *)

(* A free flight id is an id.                                              *)
LEMMA FreeIdIsId ==
    ASSUME NEW n, FreeIds(n) # {}
    PROVE  (CHOOSE i \in FreeIds(n) : TRUE) \in Ids
BY DEF FreeIds

(* The snapshots of a flush are flights of age 0 of the flushed nodes,     *)
(* and each carries the document as it is.                                 *)
LEMMA SnapshotsAreFlights ==
    ASSUME TypeOK, NEW S \in SUBSET Nodes, CanFlush(S), NEW wait \in BOOLEAN
    PROVE  Snapshots(S, wait) \subseteq Flight
<1> SUFFICES ASSUME NEW n \in S
             PROVE  [node |-> n, id |-> CHOOSE i \in FreeIds(n) : TRUE,
                     state |-> doc[n], age |-> 0, awaited |-> wait] \in Flight
    BY DEF Snapshots
<1>1. (CHOOSE i \in FreeIds(n) : TRUE) \in Ids
    BY FreeIdIsId DEF CanFlush
<1>2. 0 \in 0..MaxLag /\ doc[n] \in SUBSET Content
    BY Bounds DEF TypeOK
<1> QED
    BY <1>1, <1>2 DEF Flight

(* A flush keeps the types of what it changes.                             *)
LEMMA FlushType ==
    ASSUME TypeOK, NEW S \in SUBSET Nodes, NEW kept \in SUBSET Flight,
           NEW wait \in BOOLEAN, FlushDocs(S, kept, wait)
    PROVE  /\ saveTimer' \in [Nodes -> BOOLEAN]
           /\ redis' \in [Nodes -> (SUBSET Content) \cup {Nil}]
           /\ flights' \subseteq Flight
<1>1. saveTimer' \in [Nodes -> BOOLEAN]
    BY DEF FlushDocs, TypeOK
<1>2. redis' \in [Nodes -> (SUBSET Content) \cup {Nil}]
    BY DEF FlushDocs, TypeOK
<1>3. flights' \subseteq Flight
    BY SnapshotsAreFlights DEF FlushDocs
<1> QED
    BY <1>1, <1>2, <1>3

(* Dropping documents keeps the types of the memory.                       *)
LEMMA DropType ==
    ASSUME TypeOK, NEW S, Drop(S)
    PROVE  /\ managed' \subseteq Nodes
           /\ doc' \in [Nodes -> SUBSET Content]
           /\ clients' \in [Nodes -> SUBSET Sockets]
           /\ saveTimer' \in [Nodes -> BOOLEAN]
           /\ idleTimer' \in [Nodes -> Ages \cup {Nil}]
BY DEF Drop, TypeOK

LEMMA DbContentType ==
    ASSUME TypeOK, NEW n \in Nodes
    PROVE  DbContent(n) \in SUBSET Content
BY DEF DbContent, TypeOK, Content

LEMMA OrphanedType ==
    ASSUME TypeOK, NEW n \in Nodes
    PROVE  Orphaned(n) \in SUBSET Ages
BY DEF Orphaned, TypeOK

LEMMA InitType == Init => TypeOK
BY DEF Init, TypeOK

LEMMA TypeStep == TypeOK /\ [Next]_vars => TypeOK'
<1> SUFFICES ASSUME TypeOK, [Next]_vars
             PROVE  TypeOK'
    OBVIOUS
<1> USE DEF memory, loads, TakenPart
<1>1. ASSUME NEW n \in Nodes, NEW s \in Sockets, Join(n, s)
      PROVE  TypeOK'
    <2>1. CASE JoinManaged(n, s)
        BY <2>1 DEF JoinManaged, TypeOK
    <2>2. CASE JoinPending(n, s)
        BY <2>2 DEF JoinPending, TypeOK
    <2>3. CASE JoinLoads(n, s)
        <3>1. /\ fetched' \in [Nodes -> (SUBSET Content) \cup {Nil}]
              /\ \A m \in Nodes : m # n => fetched'[m] = fetched[m]
            BY <2>3 DEF JoinLoads, TypeOK
        <3> QED
            BY <2>3, <3>1 DEF JoinLoads, TypeOK
    <2> QED
        BY <1>1, <2>1, <2>2, <2>3 DEF Join
<1>2. ASSUME NEW n \in Nodes, RedisMiss(n)
      PROVE  TypeOK'
    BY <1>2 DEF RedisMiss, TypeOK
<1>3. ASSUME NEW n \in Nodes, DbRead(n)
      PROVE  TypeOK'
    <2>1. DbContent(n) \in SUBSET Content /\ DbContent(n) # Nil
        BY DbContentType, NilIsFresh
    <2> QED
        BY <1>3, <2>1 DEF DbRead, TypeOK
<1>4. ASSUME NEW n \in Nodes, DocLoaded(n)
      PROVE  TypeOK'
    <2>1. fetched[n] \in SUBSET Content
        BY <1>4 DEF DocLoaded, TypeOK
    <2> QED
        BY <1>4, <2>1 DEF DocLoaded, EndLoad, TypeOK
<1>5. ASSUME NEW n \in Nodes, LoadFails(n)
      PROVE  TypeOK'
    BY <1>5 DEF LoadFails, EndLoad, TypeOK
<1>6. ASSUME NEW N \in SUBSET Nodes, NEW s \in Sockets, RemoveClient(N, s)
      PROVE  TypeOK'
    <2>1. Emptied(N, s) \in SUBSET Nodes /\ FlushDocs(Emptied(N, s), flights, FALSE)
        BY <1>6 DEF RemoveClient, FlushEmptied, Emptied
    <2>2. /\ saveTimer' \in [Nodes -> BOOLEAN]
          /\ redis' \in [Nodes -> (SUBSET Content) \cup {Nil}]
          /\ flights' \subseteq Flight
        BY <2>1, FlushType DEF TypeOK
    <2>3. orphans' \in [Nodes -> SUBSET Ages]
        BY <1>6, OrphanedType DEF RemoveClient, TypeOK
    <2>4. idleTimer' \in [Nodes -> Ages \cup {Nil}]
        BY <1>6, Bounds DEF RemoveClient, TypeOK, Ages
    <2> QED
        BY <1>6, <2>2, <2>3, <2>4 DEF RemoveClient, TypeOK
<1>7. ASSUME NEW n \in Nodes, NEW u \in Updates, Update(n, u) \/ UpdateUnscheduled(n, u)
      PROVE  TypeOK'
    <2>1. doc[n] \cup {u} \in SUBSET Content
        BY DEF TypeOK, Content
    <2>2. doc' = [doc EXCEPT ![n] = doc[n] \cup {u}]
        BY <1>7 DEF Update, UpdateUnscheduled
    <2>3. doc' \in [Nodes -> SUBSET Content]
        BY <2>1, <2>2 DEF TypeOK
    <2>4. saveTimer' \in [Nodes -> BOOLEAN]
        BY <1>7 DEF Update, UpdateUnscheduled, TypeOK
    <2>5. late' \in [Nodes -> SUBSET Content]
        <3>1. Merged(n, u)
            BY <1>7 DEF Update, UpdateUnscheduled
        <3>2. late[n] \cup ({u} \ doc[n]) \in SUBSET Content
            BY DEF TypeOK, Content
        <3> QED
            BY <3>1, <3>2 DEF Merged, TypeOK
    <2> QED
        BY <1>7, <2>3, <2>4, <2>5 DEF Update, UpdateUnscheduled, TypeOK
<1>8. ASSUME NEW n \in Nodes, SaveTimerFires(n)
      PROVE  TypeOK'
    <2>1. /\ saveTimer' \in [Nodes -> BOOLEAN]
          /\ redis' \in [Nodes -> (SUBSET Content) \cup {Nil}]
          /\ flights' \subseteq Flight
        BY <1>8, FlushType DEF SaveTimerFires, TypeOK
    <2> QED
        BY <1>8, <2>1 DEF SaveTimerFires, TypeOK
<1>9. ASSUME NEW n \in Nodes, IdleTimerFires(n)
      PROVE  TypeOK'
    BY <1>9, DropType DEF IdleTimerFires, TypeOK
<1>10. ASSUME NEW n \in Nodes, OrphanFires(n)
       PROVE  TypeOK'
    <2>1. orphans' \in [Nodes -> SUBSET Ages]
        BY <1>10 DEF OrphanFires, TypeOK
    <2> QED
        BY <1>10, <2>1, DropType DEF OrphanFires, TypeOK
<1>11. ASSUME NEW n \in Nodes, NEW i \in Ids, SaveToDb(n, i)
       PROVE  TypeOK'
    BY <1>11 DEF SaveToDb, InFlight, Flight, TypeOK
<1>12. ASSUME NEW n \in Nodes, NEW i \in Ids, SaveToDbFails(n, i)
       PROVE  TypeOK'
    BY <1>12 DEF SaveToDbFails, InFlight, TypeOK
<1>13. ASSUME NEW n \in Nodes, Expire(n)
       PROVE  TypeOK'
    BY <1>13 DEF Expire, TypeOK
<1>14. ASSUME NEW n \in Nodes, CleanupNode(n)
       PROVE  TypeOK'
    BY <1>14, DropType DEF CleanupNode, TypeOK
<1>15. CASE Tick
    <2>1. Aged \subseteq Flight
        BY <1>15, Bounds DEF Tick, NothingDue, Aged, TypeOK, Flight
    <2>2. /\ saveTimer' \in [Nodes -> BOOLEAN]
          /\ redis' \in [Nodes -> (SUBSET Content) \cup {Nil}]
          /\ flights' \subseteq Flight
        BY <1>15, <2>1, FlushType DEF Tick, FlushedAtTick, TypeOK
    <2>3. \A n \in Nodes : \A a \in orphans[n] : a + 1 \in Ages
        BY <1>15, Bounds DEF Tick, NothingDue, TypeOK, Ages
    <2>4. \A n \in Nodes : idleTimer[n] # Nil => idleTimer[n] + 1 \in Ages
        BY <1>15, Bounds DEF Tick, NothingDue, TypeOK, Ages
    <2>5. orphans' \in [Nodes -> SUBSET Ages]
        BY <1>15, <2>3 DEF Tick
    <2>6. idleTimer' \in [Nodes -> Ages \cup {Nil}]
        BY <1>15, <2>4 DEF Tick
    <2> QED
        BY <1>15, <2>2, <2>5, <2>6 DEF Tick, TypeOK
<1>16. CASE BeginClose
    <2>1. /\ saveTimer' \in [Nodes -> BOOLEAN]
          /\ redis' \in [Nodes -> (SUBSET Content) \cup {Nil}]
          /\ flights' \subseteq Flight
        BY <1>16, FlushType DEF BeginClose, TypeOK
    <2> QED
        BY <1>16, <2>1 DEF BeginClose, TypeOK
<1>17. CASE FinishClose
    <2>1. orphans' \in [Nodes -> SUBSET Ages]
        BY <1>17, OrphanedType DEF FinishClose
    <2> QED
        BY <1>17, <2>1, DropType DEF FinishClose, TypeOK
<1>18. CASE Restart
    BY <1>18, DropType DEF Restart, TypeOK
<1>19. CASE UNCHANGED vars
    BY <1>19 DEF vars, TypeOK
<1> QED
    BY <1>1, <1>2, <1>3, <1>4, <1>5, <1>6, <1>7, <1>8, <1>9, <1>10, <1>11,
       <1>12, <1>13, <1>14, <1>15, <1>16, <1>17, <1>18, <1>19 DEF Next

(* Every variable of the manager keeps its type, for any nodes, sockets,   *)
(* updates, bounds and environment.                                        *)
THEOREM TypeCorrect == Spec => []TypeOK
BY InitType, TypeStep, PTL DEF Spec

-----------------------------------------------------------------------------
(* The documents in memory, whatever the environment does.                 *)

(* A node is loaded or managed, not both; somebody waits for each load;    *)
(* clients and an armed handle belong to a managed document.               *)
MemoryInv ==
    /\ \A n \in Nodes : loading[n] # "none" => n \notin managed /\ waiters[n] # {}
    /\ \A n \in Nodes : idleTimer[n] # Nil \/ clients[n] # {} => n \in managed
    /\ IdleIsArmed

LEMMA InitMemory == Init => MemoryInv
BY DEF Init, MemoryInv, IdleIsArmed

(* Dropping documents keeps the others watched.                            *)
LEMMA DropMemory ==
    ASSUME TypeOK, MemoryInv, NEW S, Drop(S),
           \A n \in Nodes : \/ loading'[n] = "none"
                            \/ loading'[n] = loading[n] /\ waiters'[n] = waiters[n]
    PROVE  MemoryInv'
<1>1. \A n \in Nodes :
          /\ n \in managed' <=> (n \in managed /\ n \notin S)
          /\ clients'[n] = IF n \in S THEN {} ELSE clients[n]
          /\ idleTimer'[n] = IF n \in S THEN Nil ELSE idleTimer[n]
    BY DEF Drop
<1>2. managed' \subseteq Nodes
    BY DEF Drop, TypeOK
<1> QED
    BY <1>1, <1>2 DEF MemoryInv, IdleIsArmed

LEMMA MemoryStep == TypeOK /\ MemoryInv /\ [Next]_vars => MemoryInv'
<1> SUFFICES ASSUME TypeOK, MemoryInv, [Next]_vars
             PROVE  MemoryInv'
    OBVIOUS
<1> USE DEF memory, loads, MemoryInv, IdleIsArmed
<1>1. ASSUME NEW n \in Nodes, NEW s \in Sockets, Join(n, s)
      PROVE  MemoryInv'
    <2>1. CASE JoinManaged(n, s)
        BY <2>1 DEF JoinManaged, TypeOK
    <2>2. CASE JoinPending(n, s)
        BY <2>2 DEF JoinPending, TypeOK
    <2>3. CASE JoinLoads(n, s)
        BY <2>3 DEF JoinLoads, NotInMemory, TypeOK
    <2> QED
        BY <1>1, <2>1, <2>2, <2>3 DEF Join
<1>2. ASSUME NEW n \in Nodes, RedisMiss(n) \/ DbRead(n) \/ LoadFails(n)
      PROVE  MemoryInv'
    <2>1. /\ \A m \in Nodes \ {n} : loading'[m] = loading[m] /\ waiters'[m] = waiters[m]
          /\ loading[n] # "none"
          /\ loading'[n] = "none" \/ waiters'[n] = waiters[n]
        BY <1>2 DEF RedisMiss, DbRead, LoadFails, EndLoad, TypeOK
    <2>2. UNCHANGED memory
        BY <1>2 DEF RedisMiss, DbRead, LoadFails
    <2> QED
        BY <2>1, <2>2
<1>3. ASSUME NEW n \in Nodes, DocLoaded(n)
      PROVE  MemoryInv'
    BY <1>3 DEF DocLoaded, EndLoad, TypeOK
<1>4. ASSUME NEW N \in SUBSET Nodes, NEW s \in Sockets, RemoveClient(N, s)
      PROVE  MemoryInv'
    <2>1. \A n \in Nodes : idleTimer'[n] = IF n \in Emptied(N, s) THEN 0 ELSE idleTimer[n]
        BY <1>4 DEF RemoveClient
    <2>2. 0 # Nil
        BY NilIsFresh, Bounds DEF Ages
    <2> QED
        BY <1>4, <2>1, <2>2 DEF RemoveClient, Emptied, TypeOK
<1>5. ASSUME NEW n \in Nodes, NEW u \in Updates, Update(n, u) \/ UpdateUnscheduled(n, u)
      PROVE  MemoryInv'
    BY <1>5 DEF Update, UpdateUnscheduled
<1>6. ASSUME NEW n \in Nodes, SaveTimerFires(n)
      PROVE  MemoryInv'
    BY <1>6 DEF SaveTimerFires
<1>7. ASSUME NEW n \in Nodes, IdleTimerFires(n) \/ OrphanFires(n) \/ CleanupNode(n)
      PROVE  MemoryInv'
    <2>1. UNCHANGED loads /\ \E S : Drop(S)
        BY <1>7 DEF IdleTimerFires, OrphanFires, CleanupNode
    <2> QED
        BY <2>1, DropMemory
<1>8. ASSUME NEW n \in Nodes, NEW i \in Ids, SaveToDb(n, i) \/ SaveToDbFails(n, i)
      PROVE  MemoryInv'
    BY <1>8 DEF SaveToDb, SaveToDbFails
<1>9. ASSUME NEW n \in Nodes, Expire(n)
      PROVE  MemoryInv'
    BY <1>9 DEF Expire
<1>10. CASE Tick
    <2>1. \A n \in Nodes : idleTimer[n] # Nil => idleTimer[n] + 1 \in Ages
        BY <1>10, Bounds DEF Tick, NothingDue, TypeOK, Ages
    <2>2. \A n \in Nodes : idleTimer'[n] = Nil <=> idleTimer[n] = Nil
        BY <1>10, <2>1, NilIsFresh DEF Tick
    <2> QED
        BY <1>10, <2>2 DEF Tick, TypeOK
<1>11. CASE BeginClose
    BY <1>11 DEF BeginClose
<1>12. CASE FinishClose \/ Restart
    <2>1. Drop(Nodes) /\ (UNCHANGED loads \/ loading' = [n \in Nodes |-> "none"])
        BY <1>12 DEF FinishClose, Restart
    <2> QED
        BY <2>1, DropMemory
<1>13. CASE UNCHANGED vars
    BY <1>13 DEF vars
<1> QED
    BY <1>1, <1>2, <1>3, <1>4, <1>5, <1>6, <1>7, <1>8, <1>9, <1>10, <1>11,
       <1>12, <1>13 DEF Next

LEMMA MemoryCorrect == Spec => []MemoryInv
BY TypeCorrect, InitMemory, MemoryStep, InitType, TypeStep, PTL DEF Spec

(* A document in memory has a client or an armed idle timer, never both:   *)
(* in every environment, with failing stores and stray leaves too.         *)
THEOREM EveryDocIsWatched == Spec => []IdleIsArmed
<1>1. MemoryInv => IdleIsArmed
    BY DEF MemoryInv
<1> QED
    BY <1>1, MemoryCorrect, PTL

(* Nothing ever takes an update out of a document that stays in memory:    *)
(* no load replaces it and no step removes from it.                        *)
THEOREM MemoryOnlyGrows == Spec => MemoryGrows
<1> DEFINE Grows == \A n \in Nodes : n \in managed /\ n \in managed' => doc[n] \subseteq doc'[n]
<1>1. ASSUME TypeOK, MemoryInv, [Next]_vars
      PROVE  Grows
    <2> USE <1>1 DEF memory, loads
    <2>1. CASE UNCHANGED doc
        BY <2>1
    <2>2. ASSUME NEW n \in Nodes, DocLoaded(n)
          PROVE  Grows
        BY <2>2 DEF DocLoaded, MemoryInv, TypeOK
    <2>3. ASSUME NEW n \in Nodes, NEW u \in Updates, Update(n, u) \/ UpdateUnscheduled(n, u)
          PROVE  Grows
        BY <2>3 DEF Update, UpdateUnscheduled, TypeOK
    <2>4. ASSUME NEW S, Drop(S)
          PROVE  Grows
        BY <2>4 DEF Drop
    <2>5. ASSUME NEW n \in Nodes, NEW s \in Sockets, Join(n, s)
          PROVE  UNCHANGED doc
        BY <2>5 DEF Join, JoinManaged, JoinPending, JoinLoads
    <2>6. ASSUME NEW n \in Nodes,
                 \/ RedisMiss(n) \/ DbRead(n) \/ LoadFails(n) \/ SaveTimerFires(n) \/ Expire(n)
                 \/ \E i \in Ids : SaveToDb(n, i) \/ SaveToDbFails(n, i)
          PROVE  UNCHANGED doc
        BY <2>6 DEF RedisMiss, DbRead, LoadFails, SaveTimerFires, Expire, SaveToDb,
           SaveToDbFails
    <2>7. CASE Tick \/ BeginClose \/ UNCHANGED vars
        BY <2>7, <2>1 DEF Tick, BeginClose, vars
    <2>8. ASSUME NEW n \in Nodes, IdleTimerFires(n) \/ OrphanFires(n) \/ CleanupNode(n)
          PROVE  Grows
        BY <2>4, <2>8 DEF IdleTimerFires, OrphanFires, CleanupNode
    <2>9. ASSUME NEW N \in SUBSET Nodes, NEW s \in Sockets, RemoveClient(N, s)
          PROVE  UNCHANGED doc
        BY <2>9 DEF RemoveClient
    <2>10. CASE FinishClose \/ Restart
        BY <2>4, <2>10 DEF FinishClose, Restart
    <2> QED
        BY <2>1, <2>2, <2>3, <2>5, <2>6, <2>7, <2>8, <2>9, <2>10 DEF Next
<1>2. TypeOK /\ MemoryInv /\ [Next]_vars => [Grows]_vars
    BY <1>1
<1> QED
    BY <1>2, TypeCorrect, MemoryCorrect, PTL DEF Spec, MemoryGrows
=============================================================================
