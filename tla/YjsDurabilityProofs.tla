------------------------ MODULE YjsDurabilityProofs ------------------------
(* YjsDocManager keeps the contract of DurableDocs.  The argument: while   *)
(* Redis calls succeed, the Redis key of a node is ahead of its row and of *)
(* every save in flight, and a document in memory is ahead of its key; a   *)
(* document without clients is ahead of it by late updates only, and a     *)
(* load in progress carries what a load would give now.  So loading        *)
(* changes nothing an editor or a fresh server can see, and evicting takes *)
(* late updates away at most.                                              *)
EXTENDS YjsDocManagerProofs

(* The inductive invariant for one living node.                            *)
FlightsAreCached(n) == \A f \in flights : f.node = n => redis[n] # Nil
StoresAreBehind(n) ==
    /\ DbContent(n) \subseteq Loadable(n)
    /\ \A f \in flights : f.node = n => f.state \subseteq Loadable(n)
MemoryIsAhead(n) == n \in managed => Loadable(n) \subseteq doc[n]
IdleIsCached(n) ==
    (n \in managed /\ clients[n] = {}) => /\ redis[n] # Nil
                                          /\ doc[n] \ Loadable(n) \subseteq late[n]
LoadIsFresh(n) ==
    /\ loading[n] = "redis" =>
           IF fetched[n] = Nil THEN redis[n] = Nil
           ELSE /\ UpToLate(n, Loadable(n), fetched[n])
                /\ "expire" \notin Env => fetched[n] = Loadable(n)
    /\ loading[n] = "db" => redis[n] = Nil
    /\ loading[n] = "read" => redis[n] = Nil /\ fetched[n] = DbContent(n)

SavedAt(n) ==
    /\ FlightsAreCached(n) /\ StoresAreBehind(n) /\ MemoryIsAhead(n)
    /\ IdleIsCached(n) /\ LoadIsFresh(n)

SavedInv == \A n \in Nodes \ deleted : SavedAt(n)

LEMMA InitSaved == Init => SavedInv
BY DEF Init, SavedInv, SavedAt, FlightsAreCached, StoresAreBehind, MemoryIsAhead,
   IdleIsCached, LoadIsFresh, Loadable

(* A node whose document, load and stores a step leaves alone.             *)
Untouched(n) ==
    /\ n \in managed' <=> n \in managed
    /\ doc'[n] = doc[n] /\ clients'[n] = clients[n] /\ late'[n] = late[n]
    /\ loading'[n] = loading[n] /\ fetched'[n] = fetched[n]
    /\ redis'[n] = redis[n] /\ db'[n] = db[n]
    /\ \A f \in flights' : f.node = n => \E g \in flights : g.node = n /\ g.state = f.state

LEMMA UntouchedSaved ==
    ASSUME NEW n \in Nodes, SavedAt(n), Untouched(n)
    PROVE  SavedAt(n)'
<1>1. DbContent(n)' = DbContent(n) /\ Loadable(n)' = Loadable(n)
    BY DEF Untouched, DbContent, Loadable
<1>2. FlightsAreCached(n)' /\ StoresAreBehind(n)'
    BY <1>1 DEF Untouched, SavedAt, FlightsAreCached, StoresAreBehind
<1>3. MemoryIsAhead(n)' /\ IdleIsCached(n)'
    BY <1>1 DEF Untouched, SavedAt, MemoryIsAhead, IdleIsCached
<1>4. LoadIsFresh(n)'
    BY <1>1 DEF Untouched, SavedAt, LoadIsFresh, UpToLate
<1> QED
    BY <1>2, <1>3, <1>4 DEF SavedAt

(* What a flush does to a node, when no Redis call fails.                  *)
LEMMA FlushEffect ==
    ASSUME TypeOK, "fault" \notin Env, NEW S \in SUBSET Nodes, NEW kept,
           NEW wait, FlushDocs(S, kept, wait)
    PROVE  /\ \A n \in Nodes : redis'[n] = IF n \in S THEN doc[n] ELSE redis[n]
           /\ \A f \in flights' : f \in kept \/ (f.node \in S /\ f.state = doc[f.node])
<1>1. \E lost \in {{}} :
          redis' = [n \in Nodes |-> IF n \in S \ lost THEN doc[n] ELSE redis[n]]
    BY DEF FlushDocs, Losses
<1>2. \A n \in Nodes : redis'[n] = IF n \in S THEN doc[n] ELSE redis[n]
    BY <1>1
<1>3. \A f \in flights' : f \in kept \/ (f.node \in S /\ f.state = doc[f.node])
    BY DEF FlushDocs, Snapshots
<1> QED
    BY <1>2, <1>3

(* A flush of managed documents, whatever else it clears or arms.          *)
LEMMA FlushSaved ==
    ASSUME TypeOK, MemoryInv, SavedInv, "fault" \notin Env,
           NEW S \in SUBSET managed, NEW kept, NEW wait, FlushDocs(S, kept, wait),
           \A f \in kept : \E g \in flights : g.node = f.node /\ g.state = f.state,
           UNCHANGED <<managed, doc, loads, db, deleted, late>>,
           \A n \in managed : clients'[n] = {} => clients[n] = {} \/ n \in S
    PROVE  SavedInv'
<1> SUFFICES ASSUME NEW n \in Nodes \ deleted
             PROVE  SavedAt(n)'
    BY DEF SavedInv
<1>1. /\ redis'[n] = IF n \in S THEN doc[n] ELSE redis[n]
      /\ \A f \in flights' : f \in kept \/ (f.node \in S /\ f.state = doc[f.node])
    BY FlushEffect DEF TypeOK
<1>2. SavedAt(n) /\ DbContent(n)' = DbContent(n)
    BY DEF SavedInv, DbContent
<1>3. CASE n \in S
    <2>1. redis'[n] = doc[n] /\ doc[n] # Nil /\ Loadable(n)' = doc[n]
        BY <1>1, <1>3, NilIsFresh DEF TypeOK, Loadable
    <2>2. loading'[n] = "none"
        BY <1>3 DEF MemoryInv, loads, TypeOK
    <2>3. Loadable(n) \subseteq doc[n]
        BY <1>2, <1>3 DEF SavedAt, MemoryIsAhead
    <2>4. FlightsAreCached(n)' /\ LoadIsFresh(n)'
        BY <2>1, <2>2 DEF FlightsAreCached, LoadIsFresh
    <2>5. StoresAreBehind(n)'
        BY <1>1, <1>2, <2>1, <2>3 DEF SavedAt, StoresAreBehind
    <2>6. MemoryIsAhead(n)' /\ IdleIsCached(n)'
        BY <2>1 DEF MemoryIsAhead, IdleIsCached
    <2> QED
        BY <2>4, <2>5, <2>6 DEF SavedAt
<1>4. CASE n \notin S
    <2>1. \A f \in flights' : f.node = n => \E g \in flights : g.node = n /\ g.state = f.state
        BY <1>1, <1>4
    <2>2. Loadable(n)' = Loadable(n) /\ redis'[n] = redis[n]
        BY <1>1, <1>2, <1>4 DEF Loadable
    <2>3. FlightsAreCached(n)' /\ StoresAreBehind(n)'
        BY <1>2, <2>1, <2>2 DEF SavedAt, FlightsAreCached, StoresAreBehind
    <2>4. MemoryIsAhead(n)' /\ IdleIsCached(n)'
        BY <1>2, <1>4, <2>2 DEF SavedAt, MemoryIsAhead, IdleIsCached
    <2>5. LoadIsFresh(n)'
        BY <1>2, <2>2 DEF SavedAt, LoadIsFresh, UpToLate, loads
    <2> QED
        BY <2>3, <2>4, <2>5 DEF SavedAt
<1> QED
    BY <1>3, <1>4

(* The Redis key of a living node expires only when the row has all of it  *)
(* but late updates.                                                       *)
ExpiryIsHarmless ==
    \A n \in Nodes \ deleted : Expire(n) => Loadable(n) \ DbContent(n) \subseteq late[n]

LEMMA SavedStep ==
    ASSUME TypeOK, MemoryInv, SavedInv, "fault" \notin Env, ExpiryIsHarmless,
           [Next]_vars
    PROVE  SavedInv'
<1> USE DEF memory, loads
<1> DEFINE Others(n) == \A m \in Nodes \ {n} : Untouched(m)
<1>0. ASSUME NEW n \in Nodes, Others(n), deleted \subseteq deleted',
             n \notin deleted' => SavedAt(n)'
      PROVE  SavedInv'
    BY <1>0, UntouchedSaved DEF SavedInv
<1>1. ASSUME NEW n \in Nodes, NEW s \in Sockets, Join(n, s)
      PROVE  SavedInv'
    <2>1. CASE JoinManaged(n, s)
        <3>1. Others(n)
            BY <2>1 DEF JoinManaged, TakenPart, Untouched, TypeOK
        <3>2. clients'[n] # {} /\ loading[n] = "none"
            BY <2>1 DEF JoinManaged, MemoryInv, TypeOK
        <3>3. DbContent(n)' = DbContent(n) /\ Loadable(n)' = Loadable(n)
            BY <2>1 DEF JoinManaged, DbContent, Loadable
        <3>4. n \notin deleted => SavedAt(n)'
            BY <2>1, <3>2, <3>3 DEF JoinManaged, SavedInv, SavedAt, FlightsAreCached,
               StoresAreBehind, MemoryIsAhead, IdleIsCached, LoadIsFresh
        <3> QED
            BY <2>1, <3>1, <3>4, <1>0 DEF JoinManaged
    <2>2. CASE JoinPending(n, s)
        BY <2>2, UntouchedSaved DEF JoinPending, Untouched, SavedInv
    <2>3. CASE JoinLoads(n, s)
        <3>1. Others(n)
            BY <2>3 DEF JoinLoads, Untouched, TypeOK
        <3>2. \E lost \in {{}} : fetched' =
                  [fetched EXCEPT ![n] = IF n \in lost THEN Nil ELSE redis[n]]
            BY <2>3 DEF JoinLoads, Losses
        <3>3. fetched'[n] = redis[n] /\ loading'[n] = "redis"
            BY <2>3, <3>2 DEF JoinLoads, TypeOK
        <3>4. DbContent(n)' = DbContent(n) /\ Loadable(n)' = Loadable(n)
            BY <2>3 DEF JoinLoads, DbContent, Loadable
        <3>5. LoadIsFresh(n)'
            BY <2>3, <3>3, <3>4 DEF JoinLoads, LoadIsFresh, Loadable, UpToLate
        <3>6. n \notin deleted => SavedAt(n)'
            BY <2>3, <3>4, <3>5 DEF JoinLoads, SavedInv, SavedAt, FlightsAreCached,
               StoresAreBehind, MemoryIsAhead, IdleIsCached
        <3> QED
            BY <2>3, <3>1, <3>6, <1>0 DEF JoinLoads
    <2> QED
        BY <1>1, <2>1, <2>2, <2>3 DEF Join
<1>2. ASSUME NEW n \in Nodes, RedisMiss(n) \/ DbRead(n) \/ LoadFails(n)
      PROVE  SavedInv'
    <2>1. Others(n)
        BY <1>2 DEF RedisMiss, DbRead, LoadFails, EndLoad, Untouched, TypeOK
    <2>2. /\ UNCHANGED <<memory, redis, db, flights, deleted, late>>
          /\ DbContent(n)' = DbContent(n) /\ Loadable(n)' = Loadable(n)
        BY <1>2 DEF RedisMiss, DbRead, LoadFails, DbContent, Loadable
    <2>3. n \notin deleted => LoadIsFresh(n)'
        BY <1>2, <2>2 DEF RedisMiss, DbRead, LoadFails, EndLoad, SavedInv, SavedAt,
           LoadIsFresh, TypeOK
    <2>4. n \notin deleted => SavedAt(n)'
        BY <2>2, <2>3 DEF SavedInv, SavedAt, FlightsAreCached, StoresAreBehind,
           MemoryIsAhead, IdleIsCached
    <2> QED
        BY <2>1, <2>2, <2>4, <1>0
<1>3. ASSUME NEW n \in Nodes, DocLoaded(n)
      PROVE  SavedInv'
    <2>1. Others(n)
        BY <1>3 DEF DocLoaded, EndLoad, TakenPart, Untouched, TypeOK
    <2>2. clients'[n] # {} /\ loading'[n] = "none" /\ doc'[n] = fetched[n]
        BY <1>3 DEF DocLoaded, EndLoad, MemoryInv, TypeOK
    <2>3. DbContent(n)' = DbContent(n) /\ Loadable(n)' = Loadable(n)
        BY <1>3 DEF DocLoaded, DbContent, Loadable
    <2>4. n \notin deleted => Loadable(n) \subseteq fetched[n]
        BY <1>3 DEF DocLoaded, SavedInv, SavedAt, LoadIsFresh, UpToLate, Loadable
    <2>5. n \notin deleted => SavedAt(n)'
        BY <1>3, <2>2, <2>3, <2>4 DEF DocLoaded, SavedInv, SavedAt, FlightsAreCached,
           StoresAreBehind, MemoryIsAhead, IdleIsCached, LoadIsFresh
    <2> QED
        BY <1>3, <2>1, <2>5, <1>0 DEF DocLoaded
<1>4. ASSUME NEW N \in SUBSET Nodes, NEW s \in Sockets, RemoveClient(N, s)
      PROVE  SavedInv'
    <2>1. /\ Emptied(N, s) \in SUBSET managed
          /\ FlushDocs(Emptied(N, s), flights, FALSE)
          /\ \A n \in managed : clients'[n] = {} =>
                                    clients[n] = {} \/ n \in Emptied(N, s)
        BY <1>4 DEF RemoveClient, FlushEmptied, Emptied, TypeOK
    <2> QED
        BY <1>4, <2>1, FlushSaved DEF RemoveClient
<1>5. ASSUME NEW n \in Nodes, NEW u \in Updates, Update(n, u) \/ UpdateUnscheduled(n, u)
      PROVE  SavedInv'
    <2>1. /\ n \in managed /\ Merged(n, u)
          /\ doc' = [doc EXCEPT ![n] = doc[n] \cup {u}]
          /\ UNCHANGED <<managed, clients, loads, redis, db, flights, deleted>>
        BY <1>5 DEF Update, UpdateUnscheduled
    <2>2. Others(n)
        BY <2>1 DEF Merged, Untouched, TypeOK
    <2>3. /\ doc'[n] = doc[n] \cup {u}
          /\ late'[n] = IF clients[n] = {} THEN late[n] \cup ({u} \ doc[n]) ELSE late[n]
        BY <2>1 DEF Merged, TypeOK
    <2>4. DbContent(n)' = DbContent(n) /\ Loadable(n)' = Loadable(n)
        BY <2>1 DEF DbContent, Loadable
    <2>5. loading'[n] = "none"
        BY <2>1 DEF MemoryInv
    <2>6. n \notin deleted => FlightsAreCached(n)' /\ StoresAreBehind(n)' /\ LoadIsFresh(n)'
        BY <2>1, <2>4, <2>5 DEF SavedInv, SavedAt, FlightsAreCached, StoresAreBehind,
           LoadIsFresh
    <2>7. n \notin deleted => MemoryIsAhead(n)'
        BY <2>1, <2>3, <2>4 DEF SavedInv, SavedAt, MemoryIsAhead
    <2>8. n \notin deleted => IdleIsCached(n)'
        BY <2>1, <2>3, <2>4 DEF SavedInv, SavedAt, IdleIsCached
    <2>9. n \notin deleted => SavedAt(n)'
        BY <2>6, <2>7, <2>8 DEF SavedAt
    <2> QED
        BY <2>1, <2>2, <2>9, <1>0
<1>6. ASSUME NEW n \in Nodes, SaveTimerFires(n)
      PROVE  SavedInv'
    <2>1. {n} \in SUBSET managed
        BY <1>6 DEF SaveTimerFires
    <2> QED
        BY <1>6, <2>1, FlushSaved DEF SaveTimerFires
<1>7. ASSUME NEW n \in Nodes, IdleTimerFires(n) \/ OrphanFires(n)
      PROVE  SavedInv'
    <2>1. Drop(Evictable(n)) /\ UNCHANGED <<loads, redis, db, flights, deleted, late>>
        BY <1>7 DEF IdleTimerFires, OrphanFires
    <2>2. \A m \in Nodes : m \in managed' =>
              m \in managed /\ clients'[m] = clients[m] /\ doc'[m] = doc[m]
        BY <2>1 DEF Drop, TypeOK
    <2>3. ASSUME NEW m \in Nodes \ deleted
          PROVE  SavedAt(m)'
        <3>1. DbContent(m)' = DbContent(m) /\ Loadable(m)' = Loadable(m)
            BY <2>1 DEF DbContent, Loadable
        <3> QED
            BY <2>1, <2>2, <3>1 DEF SavedInv, SavedAt, FlightsAreCached, StoresAreBehind,
               MemoryIsAhead, IdleIsCached, LoadIsFresh, UpToLate
    <2> QED
        BY <2>1, <2>3 DEF SavedInv
<1>8. ASSUME NEW n \in Nodes, NEW i \in Ids, SaveToDb(n, i) \/ SaveToDbFails(n, i)
      PROVE  SavedInv'
    <2>1. PICK f \in flights :
              /\ f.node = n /\ flights' = flights \ {f}
              /\ db' = db \/ db' = [db EXCEPT ![n] = f.state]
              /\ UNCHANGED <<memory, loads, redis, deleted, late>>
        BY <1>8 DEF SaveToDb, SaveToDbFails, InFlight
    <2>2. Others(n)
        BY <2>1 DEF Untouched, TypeOK
    <2>3. n \notin deleted => SavedAt(n)'
        <3>1. HAVE n \notin deleted
        <3>2. SavedAt(n) /\ redis[n] # Nil
            BY <2>1, <3>1 DEF SavedInv, SavedAt, FlightsAreCached
        <3>3. Loadable(n)' = Loadable(n)
            BY <2>1, <3>2 DEF Loadable
        <3>4. DbContent(n)' \subseteq Loadable(n)
            <4>1. f.state \in SUBSET Content /\ f.state # Nil
                BY NilIsFresh DEF TypeOK, Flight
            <4>2. DbContent(n)' = DbContent(n) \/ DbContent(n)' = f.state
                BY <2>1, <4>1 DEF DbContent, TypeOK
            <4> QED
                BY <2>1, <3>2, <4>2 DEF SavedAt, StoresAreBehind
        <3>5. StoresAreBehind(n)' /\ FlightsAreCached(n)'
            BY <2>1, <3>2, <3>3, <3>4 DEF SavedAt, StoresAreBehind, FlightsAreCached
        <3>6. MemoryIsAhead(n)' /\ IdleIsCached(n)'
            BY <2>1, <3>2, <3>3 DEF SavedAt, MemoryIsAhead, IdleIsCached
        <3>7. LoadIsFresh(n)'
            BY <2>1, <3>2, <3>3 DEF SavedAt, LoadIsFresh, UpToLate
        <3> QED
            BY <3>5, <3>6, <3>7 DEF SavedAt
    <2> QED
        BY <2>1, <2>2, <2>3, <1>0
<1>9. ASSUME NEW n \in Nodes, Expire(n)
      PROVE  SavedInv'
    <2>1. Others(n)
        BY <1>9 DEF Expire, Untouched, TypeOK
    <2>2. /\ redis'[n] = Nil /\ redis[n] # Nil /\ n \notin managed /\ "expire" \in Env
          /\ UNCHANGED <<memory, loads, db, flights, deleted, late>>
        BY <1>9 DEF Expire, TypeOK
    <2>3. \A f \in flights : f.node # n
        BY <1>9 DEF Expire, InFlight
    <2>4. Loadable(n)' = DbContent(n) /\ DbContent(n)' = DbContent(n)
        BY <2>2 DEF Loadable, DbContent
    <2>5. n \notin deleted => Loadable(n) \ DbContent(n) \subseteq late[n]
        BY <1>9 DEF ExpiryIsHarmless
    <2>6. n \notin deleted => LoadIsFresh(n)'
        <3>1. HAVE n \notin deleted
        <3>2. LoadIsFresh(n) /\ DbContent(n) \subseteq Loadable(n)
            BY <3>1 DEF SavedInv, SavedAt, StoresAreBehind
        <3>3. UpToLate(n, Loadable(n), fetched[n]) => UpToLate(n, Loadable(n), fetched[n])'
            BY <2>2, <2>4, <2>5, <3>1, <3>2 DEF UpToLate
        <3> QED
            BY <2>2, <2>4, <3>2, <3>3 DEF LoadIsFresh
    <2>7. n \notin deleted => SavedAt(n)'
        BY <2>2, <2>3, <2>4, <2>6 DEF SavedAt, FlightsAreCached, StoresAreBehind,
           MemoryIsAhead, IdleIsCached
    <2> QED
        BY <2>1, <2>2, <2>7, <1>0
<1>10. ASSUME NEW n \in Nodes, CleanupNode(n)
       PROVE  SavedInv'
    <2>1. Others(n)
        BY <1>10 DEF CleanupNode, Drop, Untouched, TypeOK
    <2> QED
        BY <1>10, <2>1, <1>0 DEF CleanupNode
<1>11. CASE Tick
    <2>1. \A f \in Aged : \E g \in flights : g.node = f.node /\ g.state = f.state
        <3>1. \A g \in flights : LET f == [g EXCEPT !.age = g.age + 1]
                                 IN  f.node = g.node /\ f.state = g.state
            BY DEF TypeOK, Flight
        <3> QED
            BY <3>1 DEF Aged
    <2> QED
        BY <1>11, <2>1, FlushSaved DEF Tick, FlushedAtTick
<1>12. CASE BeginClose
    BY <1>12, FlushSaved DEF BeginClose
<1>13. CASE FinishClose
    <2>1. /\ managed' = {} /\ UNCHANGED <<loads, redis, db, flights, deleted, late>>
        BY <1>13 DEF FinishClose, Drop, TypeOK
    <2>2. ASSUME NEW m \in Nodes \ deleted
          PROVE  SavedAt(m)'
        <3>1. DbContent(m)' = DbContent(m) /\ Loadable(m)' = Loadable(m)
            BY <2>1 DEF DbContent, Loadable
        <3> QED
            BY <2>1, <3>1 DEF SavedInv, SavedAt, FlightsAreCached, StoresAreBehind,
               MemoryIsAhead, IdleIsCached, LoadIsFresh, UpToLate
    <2> QED
        BY <2>1, <2>2 DEF SavedInv
<1>14. CASE Restart
    <2>1. /\ managed' = {} /\ flights' = {} /\ \A m \in Nodes : loading'[m] = "none"
          /\ UNCHANGED <<redis, db, deleted>>
        BY <1>14 DEF Restart, Drop, TypeOK
    <2>2. \A m \in Nodes : DbContent(m)' = DbContent(m) /\ Loadable(m)' = Loadable(m)
        BY <2>1 DEF DbContent, Loadable
    <2> QED
        BY <2>1, <2>2 DEF SavedInv, SavedAt, FlightsAreCached, StoresAreBehind,
           MemoryIsAhead, IdleIsCached, LoadIsFresh
<1>15. CASE UNCHANGED vars
    BY <1>15, UntouchedSaved DEF vars, Untouched, SavedInv
<1> QED
    BY <1>1, <1>2, <1>3, <1>4, <1>5, <1>6, <1>7, <1>8, <1>9, <1>10, <1>11,
       <1>12, <1>13, <1>14, <1>15 DEF Next

-----------------------------------------------------------------------------
(* Every step is a step of DurableDocs, or changes nothing it speaks of.   *)

SeenAt(n) == IF n \in managed THEN doc[n] ELSE Loadable(n)

Attended == {n \in Nodes \ deleted : clients[n] # {}}

DurableStep ==
    [Durable!DDNext]_<<SeenContent, SavedContent, LateContent, Attended, deleted>>

(* Nothing but, for some nodes, what it stands for has changed.            *)
SameAt(n) == /\ SeenAt(n)' = SeenAt(n) /\ Loadable(n)' = Loadable(n)
             /\ late'[n] = late[n] /\ (clients'[n] = {} <=> clients[n] = {})

LEMMA QuietStep ==
    ASSUME deleted' = deleted, \A n \in Nodes \ deleted : SameAt(n)
    PROVE  DurableStep
<1>1. SeenContent' = SeenContent
    BY DEF SeenContent, SeenAt, SameAt
<1>2. SavedContent' = SavedContent
    BY DEF SavedContent, SameAt
<1>3. LateContent' = LateContent
    BY DEF LateContent, SameAt
<1>4. Attended' = Attended
    BY DEF Attended, SameAt
<1> QED
    BY <1>1, <1>2, <1>3, <1>4 DEF DurableStep

(* When memory, Redis and rows stay as they are, so does all that is seen. *)
LEMMA SameStores ==
    ASSUME UNCHANGED <<managed, doc, clients, redis, db, deleted, late>>
    PROVE  DurableStep
<1>1. \A n \in Nodes : SameAt(n)
    BY DEF SameAt, SeenAt, Loadable, DbContent
<1> QED
    BY <1>1, QuietStep

(* A flush saves what it flushes; what it leaves without clients is saved. *)
LEMMA FlushStep ==
    ASSUME TypeOK, "fault" \notin Env, NEW S \in SUBSET managed, NEW kept, NEW wait,
           FlushDocs(S, kept, wait), UNCHANGED <<managed, doc, db, deleted, late>>,
           \/ UNCHANGED clients
           \/ \A n \in Nodes \ deleted :
                  clients'[n] = {} <=> n \in S \/ clients[n] = {}
    PROVE  DurableStep
<1>1. \A n \in Nodes : redis'[n] = IF n \in S THEN doc[n] ELSE redis[n]
    BY FlushEffect DEF TypeOK
<1>2. \A n \in Nodes : Loadable(n)' = IF n \in S THEN doc[n] ELSE Loadable(n)
    <2> SUFFICES ASSUME NEW n \in Nodes
                 PROVE  Loadable(n)' = IF n \in S THEN doc[n] ELSE Loadable(n)
        OBVIOUS
    <2>1. doc[n] # Nil
        BY NilIsFresh DEF TypeOK
    <2>2. DbContent(n)' = DbContent(n)
        BY DEF DbContent
    <2> QED
        BY <1>1, <2>1, <2>2 DEF Loadable
<1>3. SeenContent' = SeenContent
    BY <1>2 DEF SeenContent
<1>4. SavedContent' = [n \in Nodes |-> IF n \in S \ deleted THEN SeenContent[n]
                                                           ELSE SavedContent[n]]
    BY <1>2 DEF SavedContent, SeenContent
<1>5. LateContent' = LateContent
    BY DEF LateContent
<1>6. S \ deleted \in SUBSET Nodes
    BY DEF TypeOK
<1>7. CASE UNCHANGED clients
    <2>1. Attended' = Attended
        BY <1>7 DEF Attended
    <2>2. Durable!SaveDocs(S \ deleted)
        BY <1>3, <1>4, <1>5, <2>1 DEF Durable!SaveDocs, Attended
    <2> QED
        BY <1>6, <2>2 DEF DurableStep, Durable!DDNext
<1>8. CASE \A n \in Nodes \ deleted : clients'[n] = {} <=> n \in S \/ clients[n] = {}
    <2>1. PICK T \in SUBSET Nodes : T = S \ deleted
        BY <1>6
    <2>2. Attended' = Attended \ T
        BY <1>8, <2>1 DEF Attended
    <2>3. Durable!Leave(T)
        BY <1>3, <1>4, <1>5, <2>1, <2>2 DEF Durable!Leave, Attended
    <2> QED
        BY <2>3 DEF DurableStep, Durable!DDNext
<1> QED
    BY <1>7, <1>8

(* A step that leaves memory empty and the stores alone is a stop.         *)
LEMMA StopStep ==
    ASSUME managed' = {}, \A n \in Nodes : clients'[n] = {},
           UNCHANGED <<redis, db, deleted, late>>
    PROVE  DurableStep
<1>1. \A n \in Nodes : Loadable(n)' = Loadable(n)
    BY DEF Loadable, DbContent
<1>2. /\ SavedContent' = SavedContent /\ SeenContent' = SavedContent
      /\ LateContent' = LateContent /\ Attended' = {}
    BY <1>1 DEF SavedContent, SeenContent, LateContent, Attended
<1>3. Durable!Stop
    BY <1>2 DEF Durable!Stop, Attended
<1> QED
    BY <1>3 DEF DurableStep, Durable!DDNext

(* Somebody takes part in a document, in memory or just loaded.            *)
LEMMA AttendStep ==
    ASSUME TypeOK, NEW n \in Nodes, TakenPart(n), clients'[n] # {},
           UNCHANGED <<redis, db, deleted>>,
           \A m \in Nodes \ {n} : SeenAt(m)' = SeenAt(m) /\ clients'[m] = clients[m],
           n \notin deleted =>
               /\ SeenAt(n) \subseteq SeenAt(n)'
               /\ SeenAt(n)' \ SeenAt(n) \subseteq late[n]
               /\ "expire" \notin Env => SeenAt(n)' = SeenAt(n)
    PROVE  DurableStep
<1>1. SavedContent' = SavedContent
    BY DEF SavedContent, Loadable, DbContent
<1>2. late'[n] = {} /\ \A m \in Nodes \ {n} : late'[m] = late[m]
    BY DEF TakenPart, TypeOK
<1>3. CASE n \in deleted
    <2>1. \A m \in Nodes \ deleted : SameAt(m)
        BY <1>2, <1>3 DEF SameAt, Loadable, DbContent
    <2> QED
        BY <2>1, QuietStep
<1>4. CASE n \notin deleted
    <2>1. LateContent' = [LateContent EXCEPT ![n] = {}]
        BY <1>2, <1>4 DEF LateContent
    <2>2. Attended' = Attended \cup {n}
        BY <1>4 DEF Attended
    <2> DEFINE Back == SeenAt(n)' \ SeenAt(n)
    <2>3. /\ Back \in SUBSET (IF "expire" \notin Env THEN {} ELSE LateContent[n])
          /\ SeenAt(n)' = SeenAt(n) \cup Back
        BY <1>4 DEF LateContent
    <2> HIDE DEF Back
    <2>4. SeenContent' = [SeenContent EXCEPT ![n] = SeenContent[n] \cup Back]
        BY <1>4, <2>3 DEF SeenContent, SeenAt
    <2>5. Durable!Attend(n)
        BY <1>1, <1>4, <2>1, <2>2, <2>3, <2>4 DEF Durable!Attend, Attended
    <2> QED
        BY <2>5 DEF DurableStep, Durable!DDNext
<1> QED
    BY <1>3, <1>4

LEMMA RefinedStep ==
    ASSUME TypeOK, MemoryInv, SavedInv, "fault" \notin Env, ExpiryIsHarmless,
           [Next]_vars
    PROVE  DurableStep
<1> USE DEF memory, loads
<1>1. ASSUME NEW n \in Nodes, NEW s \in Sockets, Join(n, s)
      PROVE  DurableStep
    <2>1. CASE JoinManaged(n, s)
        <3>1. clients'[n] # {} /\ \A m \in Nodes \ {n} : clients'[m] = clients[m]
            BY <2>1 DEF JoinManaged, TypeOK
        <3>2. \A m \in Nodes : SeenAt(m)' = SeenAt(m)
            BY <2>1 DEF JoinManaged, SeenAt, Loadable, DbContent
        <3> QED
            BY <2>1, <3>1, <3>2, AttendStep DEF JoinManaged
    <2>2. CASE JoinPending(n, s) \/ JoinLoads(n, s)
        BY <2>2, SameStores DEF JoinPending, JoinLoads
    <2> QED
        BY <1>1, <2>1, <2>2 DEF Join
<1>2. ASSUME NEW n \in Nodes, RedisMiss(n) \/ DbRead(n) \/ LoadFails(n)
      PROVE  DurableStep
    <2>1. UNCHANGED <<managed, doc, clients, redis, db, deleted, late>>
        BY <1>2 DEF RedisMiss, DbRead, LoadFails
    <2> QED
        BY <2>1, SameStores
<1>3. ASSUME NEW n \in Nodes, DocLoaded(n)
      PROVE  DurableStep
    <2>1. \A m \in Nodes : Loadable(m)' = Loadable(m)
        BY <1>3 DEF DocLoaded, Loadable, DbContent
    <2>2. n \notin managed /\ managed' = managed \cup {n}
        BY <1>3 DEF DocLoaded, MemoryInv
    <2>3. /\ doc'[n] = fetched[n] /\ clients'[n] # {}
          /\ \A m \in Nodes \ {n} : doc'[m] = doc[m] /\ clients'[m] = clients[m]
        BY <1>3 DEF DocLoaded, MemoryInv, TypeOK
    <2>4. n \notin deleted =>
              /\ UpToLate(n, Loadable(n), fetched[n])
              /\ "expire" \notin Env => fetched[n] = Loadable(n)
        BY <1>3 DEF DocLoaded, SavedInv, SavedAt, LoadIsFresh, Loadable, UpToLate
    <2>5. \A m \in Nodes \ {n} : SeenAt(m)' = SeenAt(m)
        BY <2>1, <2>2, <2>3 DEF SeenAt
    <2>6. SeenAt(n) = Loadable(n) /\ SeenAt(n)' = fetched[n]
        BY <2>2, <2>3 DEF SeenAt
    <2> QED
        BY <1>3, <2>3, <2>4, <2>5, <2>6, AttendStep DEF DocLoaded, UpToLate
<1>4. ASSUME NEW N \in SUBSET Nodes, NEW s \in Sockets, RemoveClient(N, s)
      PROVE  DurableStep
    <2>1. Emptied(N, s) \in SUBSET managed /\ FlushDocs(Emptied(N, s), flights, FALSE)
        BY <1>4 DEF RemoveClient, FlushEmptied, Emptied
    <2>2. \A n \in Nodes : clients'[n] = {} <=> n \in Emptied(N, s) \/ clients[n] = {}
        BY <1>4 DEF RemoveClient, Emptied, TypeOK
    <2> QED
        BY <1>4, <2>1, <2>2, FlushStep DEF RemoveClient
<1>5. ASSUME NEW n \in Nodes, NEW u \in Updates, Update(n, u) \/ UpdateUnscheduled(n, u)
      PROVE  DurableStep
    <2>1. /\ n \in managed /\ Merged(n, u)
          /\ doc' = [doc EXCEPT ![n] = doc[n] \cup {u}]
          /\ UNCHANGED <<managed, clients, redis, db, deleted>>
        BY <1>5 DEF Update, UpdateUnscheduled
    <2>2. \A m \in Nodes : Loadable(m)' = Loadable(m)
        BY <2>1 DEF Loadable, DbContent
    <2>3. /\ doc'[n] = doc[n] \cup {u} /\ \A m \in Nodes \ {n} : doc'[m] = doc[m]
          /\ late'[n] = IF clients[n] = {} THEN late[n] \cup ({u} \ doc[n]) ELSE late[n]
          /\ \A m \in Nodes \ {n} : late'[m] = late[m]
        BY <2>1 DEF Merged, TypeOK
    <2>4. CASE n \in deleted
        <3>1. \A m \in Nodes \ deleted : SameAt(m)
            BY <2>1, <2>2, <2>3, <2>4 DEF SameAt, SeenAt
        <3> QED
            BY <2>1, <3>1, QuietStep
    <2>5. CASE n \notin deleted
        <3>1. SavedContent' = SavedContent /\ Attended' = Attended
            BY <2>1, <2>2 DEF SavedContent, Attended
        <3>2. SeenContent' = [SeenContent EXCEPT ![n] = SeenContent[n] \cup {u}]
            BY <2>1, <2>2, <2>3, <2>5 DEF SeenContent
        <3>3. SeenContent[n] = doc[n] /\ (n \in Attended <=> clients[n] # {})
            BY <2>1, <2>5 DEF SeenContent, Attended
        <3>4. LateContent' = [LateContent EXCEPT ![n] =
                  IF n \in Attended THEN LateContent[n]
                  ELSE LateContent[n] \cup ({u} \ SeenContent[n])]
            <4>1. ASSUME NEW m \in Nodes, m # n
                  PROVE  LateContent'[m] = LateContent[m]
                BY <2>1, <2>3, <4>1 DEF LateContent
            <4>2. LateContent'[n] = IF n \in Attended THEN LateContent[n]
                                    ELSE LateContent[n] \cup ({u} \ SeenContent[n])
                BY <2>1, <2>3, <2>5, <3>3 DEF LateContent
            <4> QED
                BY <4>1, <4>2 DEF LateContent
        <3>5. Durable!Edit(n, u)
            BY <2>1, <2>5, <3>1, <3>2, <3>4 DEF Durable!Edit, Attended
        <3> QED
            BY <3>5 DEF DurableStep, Durable!DDNext, Content
    <2> QED
        BY <2>4, <2>5
<1>6. ASSUME NEW n \in Nodes, SaveTimerFires(n)
      PROVE  DurableStep
    <2>1. {n} \in SUBSET managed
        BY <1>6 DEF SaveTimerFires
    <2> QED
        BY <1>6, <2>1, FlushStep DEF SaveTimerFires
<1>7. ASSUME NEW n \in Nodes, IdleTimerFires(n) \/ OrphanFires(n)
      PROVE  DurableStep
    <2>1. Drop(Evictable(n)) /\ UNCHANGED <<redis, db, deleted, late>>
        BY <1>7 DEF IdleTimerFires, OrphanFires
    <2>2. \A m \in Nodes : Loadable(m)' = Loadable(m)
        BY <2>1 DEF Loadable, DbContent
    <2>3. \A m \in Nodes : clients'[m] = {} <=> clients[m] = {}
        BY <2>1 DEF Drop, Evictable
    <2>4. ASSUME NEW m \in Nodes, m \notin Evictable(n)
          PROVE  SeenAt(m)' = SeenAt(m)
        <3>1. (m \in managed' <=> m \in managed) /\ doc'[m] = doc[m]
            BY <2>1, <2>4 DEF Drop
        <3> QED
            BY <2>2, <3>1 DEF SeenAt
    <2>5. CASE n \in Evictable(n) /\ n \notin deleted
        <3>1. n \notin managed' /\ clients[n] = {} /\ Evictable(n) = {n}
            BY <2>1, <2>5 DEF Drop, Evictable
        <3>2. SeenContent' = [SeenContent EXCEPT ![n] = SavedContent[n]]
            <4>1. ASSUME NEW m \in Nodes, m # n
                  PROVE  SeenContent'[m] = SeenContent[m]
                BY <2>1, <2>4, <3>1, <4>1 DEF SeenContent, SeenAt
            <4>2. SeenContent'[n] = SavedContent[n]
                BY <2>1, <2>2, <2>5, <3>1 DEF SeenContent, SavedContent
            <4> QED
                BY <4>1, <4>2 DEF SeenContent
        <3>3. /\ SavedContent' = SavedContent /\ LateContent' = LateContent
              /\ Attended' = Attended
            BY <2>1, <2>2, <2>3 DEF SavedContent, LateContent, Attended
        <3>4. n \notin Attended
            BY <3>1 DEF Attended
        <3>5. Durable!PutAway(n)
            BY <2>1, <3>2, <3>3, <3>4 DEF Durable!PutAway, Attended
        <3> QED
            BY <3>5 DEF DurableStep, Durable!DDNext
    <2>6. CASE n \notin Evictable(n) \/ n \in deleted
        <3>1. \A m \in Nodes \ deleted : m \notin Evictable(n)
            BY <2>6 DEF Evictable
        <3>2. \A m \in Nodes \ deleted : SameAt(m)
            BY <2>1, <2>2, <2>3, <2>4, <3>1 DEF SameAt
        <3> QED
            BY <2>1, <3>2, QuietStep
    <2> QED
        BY <2>5, <2>6
<1>8. ASSUME NEW n \in Nodes, NEW i \in Ids, SaveToDb(n, i) \/ SaveToDbFails(n, i)
      PROVE  DurableStep
    <2>1. /\ UNCHANGED <<memory, redis, deleted, late>>
          /\ \E f \in flights : f.node = n
          /\ \A m \in Nodes \ {n} : db'[m] = db[m]
        BY <1>8 DEF SaveToDb, SaveToDbFails, InFlight, TypeOK
    <2>2. n \notin deleted => redis[n] # Nil
        BY <2>1 DEF SavedInv, SavedAt, FlightsAreCached
    <2>3. \A m \in Nodes \ deleted : Loadable(m)' = Loadable(m)
        BY <2>1, <2>2 DEF Loadable, DbContent
    <2>4. \A m \in Nodes \ deleted : SameAt(m)
        BY <2>1, <2>3 DEF SameAt, SeenAt
    <2> QED
        BY <2>1, <2>4, QuietStep
<1>9. ASSUME NEW n \in Nodes, Expire(n)
      PROVE  DurableStep
    <2>1. /\ redis'[n] = Nil /\ redis[n] # Nil /\ \A m \in Nodes \ {n} : redis'[m] = redis[m]
          /\ n \notin managed /\ "expire" \in Env
          /\ UNCHANGED <<managed, doc, clients, db, deleted, late>>
        BY <1>9 DEF Expire, TypeOK
    <2>2. n \notin deleted => Loadable(n) \ DbContent(n) \subseteq late[n]
        BY <1>9 DEF ExpiryIsHarmless
    <2>3. Loadable(n)' = DbContent(n) /\ \A m \in Nodes \ {n} : Loadable(m)' = Loadable(m)
        BY <2>1 DEF Loadable, DbContent
    <2>4. \A m \in Nodes \ {n} : SameAt(m)
        BY <2>1, <2>3 DEF SameAt, SeenAt
    <2>5. CASE n \in deleted
        BY <2>1, <2>4, <2>5, QuietStep
    <2>6. CASE n \notin deleted
        <3> DEFINE Lost == Loadable(n) \ DbContent(n)
        <3>1. DbContent(n) \subseteq Loadable(n)
            BY <2>6 DEF SavedInv, SavedAt, StoresAreBehind
        <3>2. Loadable(n)' = Loadable(n) \ Lost /\ Lost \in SUBSET LateContent[n]
            BY <2>2, <2>3, <2>6, <3>1 DEF LateContent
        <3> HIDE DEF Lost
        <3>3. SavedContent' = [SavedContent EXCEPT ![n] = SavedContent[n] \ Lost]
            BY <2>1, <2>3, <2>6, <3>2 DEF SavedContent
        <3>4. SeenContent' = [SeenContent EXCEPT ![n] = SeenContent[n] \ Lost]
            BY <2>1, <2>3, <2>6, <3>2 DEF SeenContent
        <3>5. SeenContent[n] = SavedContent[n]
            BY <2>1 DEF SeenContent, SavedContent
        <3>6. LateContent' = LateContent /\ Attended' = Attended
            BY <2>1 DEF LateContent, Attended
        <3>7. n \notin Attended
            BY <2>1 DEF Attended, MemoryInv
        <3>8. Durable!Lapse(n)
            BY <2>1, <3>2, <3>3, <3>4, <3>5, <3>6, <3>7 DEF Durable!Lapse, Attended
        <3> QED
            BY <3>8 DEF DurableStep, Durable!DDNext
    <2> QED
        BY <2>5, <2>6
<1>10. ASSUME NEW n \in Nodes, CleanupNode(n)
       PROVE  DurableStep
    <2>1. /\ deleted' = deleted \cup {n} /\ managed' = managed \ {n}
          /\ db' = db /\ late' = late
          /\ \A m \in Nodes \ {n} : /\ redis'[m] = redis[m] /\ doc'[m] = doc[m]
                                    /\ clients'[m] = clients[m]
        BY <1>10 DEF CleanupNode, Drop, TypeOK
    <2>2. \A m \in Nodes \ {n} : Loadable(m)' = Loadable(m)
        BY <2>1 DEF Loadable, DbContent
    <2>3. SavedContent' = [SavedContent EXCEPT ![n] = {}]
        BY <2>1, <2>2 DEF SavedContent
    <2>4. SeenContent' = [SeenContent EXCEPT ![n] = {}]
        BY <2>1, <2>2 DEF SeenContent
    <2>5. LateContent' = [LateContent EXCEPT ![n] = {}]
        BY <2>1 DEF LateContent
    <2>6. Attended' = Attended \ {n}
        BY <2>1 DEF Attended
    <2>7. Durable!Delete(n)
        BY <2>1, <2>3, <2>4, <2>5, <2>6 DEF Durable!Delete, Attended
    <2> QED
        BY <2>7 DEF DurableStep, Durable!DDNext
<1>11. CASE Tick
    BY <1>11, FlushStep DEF Tick, FlushedAtTick
<1>12. CASE BeginClose
    BY <1>12, FlushStep DEF BeginClose
<1>13. CASE FinishClose \/ Restart
    <2>1. /\ managed' = {} /\ \A n \in Nodes : clients'[n] = {}
          /\ UNCHANGED <<redis, db, deleted, late>>
        BY <1>13 DEF FinishClose, Restart, Drop, TypeOK
    <2> QED
        BY <2>1, StopStep
<1>14. CASE UNCHANGED vars
    BY <1>14, SameStores DEF vars
<1> QED
    BY <1>1, <1>2, <1>3, <1>4, <1>5, <1>6, <1>7, <1>8, <1>9, <1>10, <1>11,
       <1>12, <1>13, <1>14 DEF Next

LEMMA RefinedInit == Init => Durable!DDInit
<1> SUFFICES ASSUME Init
             PROVE  Durable!DDInit
    OBVIOUS
<1>1. \A n \in Nodes : DbContent(n) \in SUBSET Content
    BY DEF Init, DbContent, Content
<1>2. SeenContent = [n \in Nodes |-> DbContent(n)] /\ SavedContent = SeenContent
    BY DEF Init, SeenContent, SavedContent, Loadable
<1> QED
    BY <1>1, <1>2 DEF Init, Durable!DDInit, LateContent

-----------------------------------------------------------------------------
(* While Redis and the database answer and no key outlives its TTL, a      *)
(* document without clients is in Redis up to what was merged into it      *)
(* since it had any: what the gateway merges for a socket that is no       *)
(* client, and nothing else, is at risk when evictDoc runs.                *)
THEOREM IdleDocsAreCached ==
    ASSUME "fault" \notin Env, "expire" \notin Env
    PROVE  Spec => []SavedInv /\ []IdleIsSaved
<1>1. ExpiryIsHarmless
    BY DEF ExpiryIsHarmless, Expire
<1>2. TypeOK /\ MemoryInv /\ SavedInv /\ [Next]_vars => SavedInv'
    BY <1>1, SavedStep
<1>3. TypeOK /\ SavedInv => IdleIsSaved
    BY DEF IdleIsSaved, SavedInv, SavedAt, MemoryIsAhead, IdleIsCached, Loadable,
       UpToLate, TypeOK
<1> QED
    BY <1>2, <1>3, InitSaved, TypeCorrect, MemoryCorrect, PTL DEF Spec

(* Under the same conditions, and with crashes, deletions, stray leaves,   *)
(* edits of documents without clients and onModuleDestroy, the documents   *)
(* keep the contract of DurableDocs.                                       *)
THEOREM DocsAreDurable ==
    ASSUME "fault" \notin Env, "expire" \notin Env
    PROVE  Spec => DurableSpec
<1>1. ExpiryIsHarmless
    BY DEF ExpiryIsHarmless, Expire
<1>2. TypeOK /\ MemoryInv /\ SavedInv /\ [Next]_vars
          => [Durable!DDNext]_<<SeenContent, SavedContent, LateContent, Attended, deleted>>
    BY <1>1, RefinedStep DEF DurableStep
<1>3. Spec => []SavedInv
    BY IdleDocsAreCached, PTL
<1> QED
    BY <1>2, <1>3, RefinedInit, TypeCorrect, MemoryCorrect, PTL
    DEF Spec, DurableSpec, Durable!DDSpec, Durable!ddvars, Attended

-----------------------------------------------------------------------------
(* What the contract gives to those who rely on it.                        *)

LEMMA ContractTypes == Durable!DDSpec => []Durable!DDTypeOK
<1>1. Durable!DDInit => Durable!DDTypeOK
    BY DEF Durable!DDInit, Durable!DDTypeOK
<1>2. Durable!DDTypeOK /\ [Durable!DDNext]_(Durable!ddvars) => Durable!DDTypeOK'
    BY DEF Durable!DDTypeOK, Durable!DDNext, Durable!ddvars, Durable!Attend, Durable!Edit,
       Durable!SaveDocs, Durable!Leave, Durable!PutAway, Durable!Lapse, Durable!Stop,
       Durable!Delete
<1> QED
    BY <1>1, <1>2, PTL DEF Durable!DDSpec

(* A fresh server shows no edit that no editor has seen.                   *)
LEMMA NothingIsInvented == Durable!DDSpec => []Durable!SavedWasSeen
<1>1. Durable!DDInit => Durable!SavedWasSeen
    BY DEF Durable!DDInit, Durable!SavedWasSeen
<1>2. Durable!DDTypeOK /\ Durable!SavedWasSeen /\ [Durable!DDNext]_(Durable!ddvars)
          => Durable!SavedWasSeen'
    <2> SUFFICES ASSUME Durable!DDTypeOK, Durable!SavedWasSeen,
                        [Durable!DDNext]_(Durable!ddvars)
                 PROVE  Durable!SavedWasSeen'
        OBVIOUS
    <2> USE DEF Durable!DDTypeOK, Durable!SavedWasSeen
    <2>1. ASSUME NEW d \in Nodes, Durable!Attend(d)
          PROVE  Durable!SavedWasSeen'
        BY <2>1 DEF Durable!Attend
    <2>2. ASSUME NEW d \in Nodes, NEW u \in Content, Durable!Edit(d, u)
          PROVE  Durable!SavedWasSeen'
        BY <2>2 DEF Durable!Edit
    <2>3. ASSUME NEW S \in SUBSET Nodes, Durable!SaveDocs(S) \/ Durable!Leave(S)
          PROVE  Durable!SavedWasSeen'
        BY <2>3 DEF Durable!SaveDocs, Durable!Leave
    <2>4. ASSUME NEW d \in Nodes, Durable!PutAway(d)
          PROVE  Durable!SavedWasSeen'
        BY <2>4 DEF Durable!PutAway
    <2>5. ASSUME NEW d \in Nodes, Durable!Lapse(d)
          PROVE  Durable!SavedWasSeen'
        BY <2>5 DEF Durable!Lapse
    <2>6. CASE Durable!Stop
        BY <2>6 DEF Durable!Stop
    <2>7. ASSUME NEW d \in Nodes, Durable!Delete(d)
          PROVE  Durable!SavedWasSeen'
        BY <2>7 DEF Durable!Delete
    <2>8. CASE UNCHANGED Durable!ddvars
        BY <2>8 DEF Durable!ddvars
    <2> QED
        BY <2>1, <2>2, <2>3, <2>4, <2>5, <2>6, <2>7, <2>8 DEF Durable!DDNext
<1> QED
    BY <1>1, <1>2, ContractTypes, PTL DEF Durable!DDSpec

(* Where the store lasts, what was saved of a living document is never     *)
(* lost: a later save, a stop or a reload keeps it.                        *)
LEMMA NothingSavedIsLost ==
    ASSUME "expire" \notin Env
    PROVE  Durable!DDSpec => Durable!SavedIsKept
<1>1. Durable!DDTypeOK /\ Durable!SavedWasSeen /\ [Durable!DDNext]_(Durable!ddvars)
          => [\A d \in Nodes \ deleted' : SavedContent[d] \subseteq SavedContent'[d]]_(Durable!ddvars)
    BY DEF Durable!DDTypeOK, Durable!SavedWasSeen, Durable!DDNext, Durable!ddvars,
       Durable!Attend, Durable!Edit, Durable!SaveDocs, Durable!Leave, Durable!PutAway,
       Durable!Lapse, Durable!Stop, Durable!Delete
<1> QED
    BY <1>1, NothingIsInvented, ContractTypes, PTL DEF Durable!DDSpec, Durable!SavedIsKept

(* So what Redis or the row gives back for a living node is never taken    *)
(* away again, by whatever saves, evictions, crashes and loads follow.     *)
THEOREM SavesSurvive ==
    ASSUME "fault" \notin Env, "expire" \notin Env
    PROVE  Spec => SavedSurvives
BY DocsAreDurable, NothingSavedIsLost, PTL DEF DurableSpec, SavedSurvives

-----------------------------------------------------------------------------
(* Redis keys may expire.  The row then decides, and it may have been      *)
(* overwritten by an older save that landed late.  The idle period mends   *)
(* that: its flushes all carry the same state, saves older than it have    *)
(* landed after MaxLag ticks, and the first flush after that has landed    *)
(* after MaxLag more.                                                      *)

(* Only deletions and expiry happen, and the idle timeout is long enough.  *)
PatientEnv ==
    /\ Env \cap {"fault", "dbfault", "crash", "stray", "close"} = {}
    /\ IdleTicks >= 2 * MaxLag + 2

(* Nothing was orphaned and the module is not being destroyed.             *)
QuietTimers == lifecycle = "open" /\ \A n \in Nodes : orphans[n] = {}

(* A save of an idle document that lacks more than late updates was issued *)
(* before its clients left.                                                *)
OlderAreStale(n) ==
    \A f \in flights : f.node = n =>
        doc[n] \ f.state \subseteq late[n] \/ f.age >= idleTimer[n]

(* Once such saves must have landed, the row is right or will be in time.  *)
RowCatchesUp(n) ==
    idleTimer[n] > MaxLag =>
        \/ doc[n] \ DbContent(n) \subseteq late[n]
        \/ \E f \in flights : /\ f.node = n
                              /\ doc[n] \ f.state \subseteq late[n]
                              /\ f.age + MaxLag + 1 >= idleTimer[n]

RestsAt(n) ==
    /\ Loadable(n) \ DbContent(n) \subseteq late[n]
    /\ \A f \in flights : f.node = n => Loadable(n) \ f.state \subseteq late[n]

RestAt(n) ==
    /\ n \notin managed => RestsAt(n)
    /\ (n \in managed /\ clients[n] = {}) => OlderAreStale(n) /\ RowCatchesUp(n)

RestInv == QuietTimers /\ \A n \in Nodes \ deleted : RestAt(n)

LEMMA InitRest == Init => RestInv
BY DEF Init, RestInv, QuietTimers, RestAt, RestsAt, Loadable, DbContent

LEMMA QuietStepTimers ==
    ASSUME TypeOK, MemoryInv, PatientEnv, QuietTimers, [Next]_vars
    PROVE  QuietTimers'
<1> USE DEF QuietTimers
<1>1. ASSUME NEW N \in SUBSET Nodes, NEW s \in Sockets, RemoveClient(N, s)
      PROVE  QuietTimers'
    <2>1. \A n \in N : idleTimer[n] = Nil
        BY <1>1 DEF RemoveClient, PatientEnv, MemoryInv, IdleIsArmed
    <2>2. \A n \in Nodes : n \in Emptied(N, s) => Orphaned(n) = {}
        BY <2>1 DEF Emptied, Orphaned
    <2> QED
        BY <1>1, <2>2 DEF RemoveClient
<1>2. CASE Tick
    BY <1>2 DEF Tick
<1>3. ~BeginClose /\ ~FinishClose /\ ~Restart
    BY DEF BeginClose, FinishClose, Restart, PatientEnv
<1>4. ASSUME NEW n \in Nodes, OrphanFires(n)
      PROVE  FALSE
    BY <1>4 DEF OrphanFires
<1>5. CASE UNCHANGED <<orphans, lifecycle>>
    BY <1>5
<1>6. ASSUME NEW n \in Nodes,
             \/ RedisMiss(n) \/ DbRead(n) \/ DocLoaded(n) \/ LoadFails(n)
             \/ SaveTimerFires(n) \/ IdleTimerFires(n) \/ Expire(n) \/ CleanupNode(n)
      PROVE  UNCHANGED <<orphans, lifecycle>>
    BY <1>6 DEF RedisMiss, DbRead, DocLoaded, LoadFails, SaveTimerFires,
       IdleTimerFires, Expire, CleanupNode
<1>7. ASSUME NEW n \in Nodes, NEW s \in Sockets, Join(n, s)
      PROVE  UNCHANGED <<orphans, lifecycle>>
    BY <1>7 DEF Join, JoinManaged, JoinPending, JoinLoads
<1>8. ASSUME NEW n \in Nodes, NEW u \in Updates, Update(n, u) \/ UpdateUnscheduled(n, u)
      PROVE  UNCHANGED <<orphans, lifecycle>>
    BY <1>8 DEF Update, UpdateUnscheduled
<1>9. ASSUME NEW n \in Nodes, NEW i \in Ids, SaveToDb(n, i) \/ SaveToDbFails(n, i)
      PROVE  UNCHANGED <<orphans, lifecycle>>
    BY <1>9 DEF SaveToDb, SaveToDbFails
<1> QED
    BY <1>1, <1>2, <1>3, <1>4, <1>5, <1>6, <1>7, <1>8, <1>9 DEF Next, vars

(* A node whose document, timer, saves and stores a step leaves alone.     *)
Still(n) ==
    /\ n \in managed' <=> n \in managed
    /\ doc'[n] = doc[n] /\ clients'[n] = clients[n] /\ idleTimer'[n] = idleTimer[n]
    /\ late'[n] = late[n]
    /\ redis'[n] = redis[n] /\ db'[n] = db[n]
    /\ \A f : f.node = n => (f \in flights' <=> f \in flights)

LEMMA StillRest ==
    ASSUME NEW n \in Nodes, RestAt(n), Still(n)
    PROVE  RestAt(n)'
<1>1. DbContent(n)' = DbContent(n) /\ Loadable(n)' = Loadable(n)
    BY DEF Still, DbContent, Loadable
<1>2. RestsAt(n) => RestsAt(n)'
    BY <1>1 DEF RestsAt, Still
<1>3. OlderAreStale(n) => OlderAreStale(n)'
    BY DEF OlderAreStale, Still
<1>4. RowCatchesUp(n) => RowCatchesUp(n)'
    BY <1>1 DEF RowCatchesUp, Still
<1> QED
    BY <1>2, <1>3, <1>4 DEF RestAt, Still

(* A node with clients, or one that gets some, owes nothing.               *)
LEMMA BusyRest ==
    ASSUME NEW n \in Nodes, n \in managed', clients'[n] # {}
    PROVE  RestAt(n)'
BY DEF RestAt

(* A flush leaves what it does not flush alone, and adds full saves.       *)
LEMMA FlushAdds ==
    ASSUME TypeOK, "fault" \notin Env, NEW S \in SUBSET Nodes, NEW kept,
           NEW wait, FlushDocs(S, kept, wait)
    PROVE  /\ \A n \in Nodes : redis'[n] = IF n \in S THEN doc[n] ELSE redis[n]
           /\ kept \subseteq flights'
           /\ \A f \in flights' : f \in kept \/ (f.node \in S /\ f.state = doc[f.node] /\ f.age = 0)
           /\ \A n \in S : \E f \in flights' : f.node = n /\ f.state = doc[n] /\ f.age = 0
<1>1. \A n \in Nodes : redis'[n] = IF n \in S THEN doc[n] ELSE redis[n]
    BY FlushEffect
<1>2. flights' = kept \cup Snapshots(S, wait)
    BY DEF FlushDocs
<1>3. \A f \in Snapshots(S, wait) : f.node \in S /\ f.state = doc[f.node] /\ f.age = 0
    BY DEF Snapshots
<1>4. \A n \in S : \E f \in Snapshots(S, wait) : f.node = n /\ f.state = doc[n] /\ f.age = 0
    <2> SUFFICES ASSUME NEW n \in S
                 PROVE  \E f \in Snapshots(S, wait) : f.node = n /\ f.state = doc[n] /\ f.age = 0
        OBVIOUS
    <2> DEFINE snap == [node |-> n, id |-> CHOOSE i \in FreeIds(n) : TRUE,
                        state |-> doc[n], age |-> 0, awaited |-> wait]
    <2>1. snap \in Snapshots(S, wait)
        BY DEF Snapshots
    <2>2. snap.node = n /\ snap.state = doc[n] /\ snap.age = 0
        OBVIOUS
    <2> HIDE DEF snap
    <2> QED
        BY <2>1, <2>2
<1> QED
    BY <1>1, <1>2, <1>3, <1>4

(* A flush between two ticks: the idle documents it covers get one more    *)
(* full save.                                                              *)
LEMMA FlushRest ==
    ASSUME TypeOK, "fault" \notin Env, NEW S \in SUBSET managed,
           FlushDocs(S, flights, FALSE), UNCHANGED <<managed, doc, db, late>>,
           NEW n \in Nodes, RestAt(n), clients'[n] = clients[n],
           idleTimer'[n] = idleTimer[n]
    PROVE  RestAt(n)'
<1>0. S \in SUBSET Nodes
    BY DEF TypeOK
<1>1. /\ redis'[n] = IF n \in S THEN doc[n] ELSE redis[n]
      /\ flights \subseteq flights'
      /\ \A f \in flights' : f \in flights \/ (f.node \in S /\ f.state = doc[f.node])
    <2>1. \A k \in Nodes : redis'[k] = IF k \in S THEN doc[k] ELSE redis[k]
        BY <1>0, FlushAdds
    <2>2. flights \subseteq flights'
        BY <1>0, FlushAdds
    <2>3. \A f \in flights' : f \in flights \/ f \in Snapshots(S, FALSE)
        BY DEF FlushDocs
    <2>4. \A f \in Snapshots(S, FALSE) : f.node \in S /\ f.state = doc[f.node]
        BY DEF Snapshots
    <2> QED
        BY <2>1, <2>2, <2>3, <2>4
<1>2. CASE n \notin managed
    <2>1. Still(n)
        BY <1>1, <1>2 DEF Still
    <2> QED
        BY <2>1, StillRest
<1>3. CASE n \in managed
    <2>1. OlderAreStale(n) => OlderAreStale(n)'
        BY <1>1 DEF OlderAreStale
    <2>2. DbContent(n)' = DbContent(n)
        BY DEF DbContent
    <2>3. RowCatchesUp(n) => RowCatchesUp(n)'
        BY <1>1, <2>2 DEF RowCatchesUp
    <2> QED
        BY <1>3, <2>1, <2>3 DEF RestAt
<1> QED
    BY <1>2, <1>3

LEMMA RestStep ==
    ASSUME TypeOK, MemoryInv, SavedInv, PatientEnv, RestInv, [Next]_vars
    PROVE  RestInv'
<1> USE DEF memory, loads
<1>1. QuietTimers'
    BY QuietStepTimers DEF RestInv
<1>2. "fault" \notin Env /\ MaxLag \in Nat /\ IdleTicks \in Nat
    BY Bounds DEF PatientEnv
<1> SUFFICES ASSUME NEW m \in Nodes \ deleted, m \notin deleted'
             PROVE  RestAt(m)'
    <2>1. deleted \subseteq deleted'
        BY DEF Next, vars, Join, JoinManaged, JoinPending, JoinLoads, RedisMiss, DbRead,
           DocLoaded, LoadFails, RemoveClient, Update, UpdateUnscheduled, SaveTimerFires,
           IdleTimerFires, OrphanFires, SaveToDb, SaveToDbFails, Expire, CleanupNode,
           Tick, BeginClose, FinishClose, Restart
    <2> QED
        BY <1>1, <2>1 DEF RestInv
<1>3. RestAt(m)
    BY DEF RestInv
<1>4. \A f \in flights : f.age \in 0..MaxLag
    BY DEF TypeOK, Flight
<1>5. ASSUME NEW n \in Nodes, NEW s \in Sockets, Join(n, s)
      PROVE  RestAt(m)'
    <2>1. CASE JoinManaged(n, s) /\ m = n
        BY <2>1, BusyRest DEF JoinManaged, TypeOK
    <2>2. CASE JoinManaged(n, s) /\ m # n
        <3>1. Still(m)
            BY <2>2 DEF JoinManaged, TakenPart, Still, TypeOK
        <3> QED
            BY <1>3, <3>1, StillRest
    <2>3. CASE JoinPending(n, s) \/ JoinLoads(n, s)
        <3>1. Still(m)
            BY <2>3 DEF JoinPending, JoinLoads, Still
        <3> QED
            BY <1>3, <3>1, StillRest
    <2> QED
        BY <1>5, <2>1, <2>2, <2>3 DEF Join
<1>6. ASSUME NEW n \in Nodes, RedisMiss(n) \/ DbRead(n) \/ LoadFails(n)
      PROVE  RestAt(m)'
    <2>1. Still(m)
        BY <1>6 DEF RedisMiss, DbRead, LoadFails, Still
    <2> QED
        BY <1>3, <2>1, StillRest
<1>7. ASSUME NEW n \in Nodes, DocLoaded(n)
      PROVE  RestAt(m)'
    <2>1. CASE m = n
        <3>1. n \in managed' /\ clients'[n] # {}
            BY <1>7 DEF DocLoaded, MemoryInv, TypeOK
        <3> QED
            BY <2>1, <3>1, BusyRest
    <2>2. CASE m # n
        <3>1. Still(m)
            BY <1>7, <2>2 DEF DocLoaded, TakenPart, Still, TypeOK
        <3> QED
            BY <1>3, <3>1, StillRest
    <2> QED
        BY <2>1, <2>2
<1>8. ASSUME NEW N \in SUBSET Nodes, NEW s \in Sockets, RemoveClient(N, s)
      PROVE  RestAt(m)'
    <2>1. /\ Emptied(N, s) \in SUBSET managed
          /\ FlushDocs(Emptied(N, s), flights, FALSE)
          /\ UNCHANGED <<managed, doc, db, late>>
          /\ clients'[m] = IF m \in N THEN clients[m] \ {s} ELSE clients[m]
          /\ idleTimer'[m] = IF m \in Emptied(N, s) THEN 0 ELSE idleTimer[m]
        BY <1>8 DEF RemoveClient, FlushEmptied, Emptied
    <2>2. CASE m \notin N
        BY <1>2, <1>3, <2>1, <2>2, FlushRest DEF Emptied
    <2>3. CASE m \in N /\ clients'[m] # {}
        BY <1>8, <2>3, BusyRest DEF RemoveClient
    <2>4. CASE m \in N /\ clients'[m] = {}
        <3>1. m \in managed' /\ idleTimer'[m] = 0
            BY <1>8, <2>1, <2>4 DEF RemoveClient, Emptied
        <3>2. \A f \in flights' : f.age \in Nat
            BY <1>2, TypeStep DEF TypeOK, Flight
        <3>3. OlderAreStale(m)'
            BY <3>1, <3>2 DEF OlderAreStale
        <3>4. RowCatchesUp(m)'
            BY <1>2, <3>1 DEF RowCatchesUp
        <3> QED
            BY <3>1, <3>3, <3>4 DEF RestAt
    <2> QED
        BY <2>2, <2>3, <2>4
<1>9. ASSUME NEW n \in Nodes, NEW u \in Updates, Update(n, u) \/ UpdateUnscheduled(n, u)
      PROVE  RestAt(m)'
    <2>1. /\ n \in managed /\ Merged(n, u)
          /\ doc' = [doc EXCEPT ![n] = doc[n] \cup {u}]
          /\ UNCHANGED <<managed, clients, idleTimer, redis, db, flights>>
        BY <1>9 DEF Update, UpdateUnscheduled
    <2>2. CASE m = n /\ clients[n] = {}
        <3>1. doc'[m] = doc[m] \cup {u} /\ late'[m] = late[m] \cup ({u} \ doc[m])
            BY <2>1, <2>2 DEF Merged, TypeOK
        <3>2. OlderAreStale(m) /\ RowCatchesUp(m)
            BY <1>3, <2>1, <2>2 DEF RestAt
        <3>3. OlderAreStale(m)'
            BY <2>1, <3>1, <3>2 DEF OlderAreStale
        <3>4. DbContent(m)' = DbContent(m)
            BY <2>1 DEF DbContent
        <3>5. RowCatchesUp(m)'
            BY <2>1, <3>1, <3>2, <3>4 DEF RowCatchesUp
        <3> QED
            BY <2>1, <2>2, <3>3, <3>5 DEF RestAt
    <2>3. CASE m = n /\ clients[n] # {}
        BY <2>1, <2>3, BusyRest
    <2>4. CASE m # n
        <3>1. Still(m)
            BY <2>1, <2>4 DEF Merged, Still, TypeOK
        <3> QED
            BY <1>3, <3>1, StillRest
    <2> QED
        BY <2>2, <2>3, <2>4
<1>10. ASSUME NEW n \in Nodes, SaveTimerFires(n)
       PROVE  RestAt(m)'
    <2>1. {n} \in SUBSET managed
        BY <1>10 DEF SaveTimerFires
    <2> QED
        BY <1>2, <1>3, <1>10, <2>1, FlushRest DEF SaveTimerFires
<1>11. ASSUME NEW n \in Nodes, IdleTimerFires(n)
       PROVE  RestAt(m)'
    <2>1. Drop(Evictable(n)) /\ UNCHANGED <<redis, db, flights, deleted, late>>
        BY <1>11 DEF IdleTimerFires
    <2>2. CASE m \in Evictable(n)
        <3>1. m \in managed /\ clients[m] = {} /\ idleTimer[m] = IdleTicks /\ m \notin managed'
            BY <1>11, <2>1, <2>2 DEF IdleTimerFires, Evictable, Drop
        <3>2. \A f \in flights : f.node = m => doc[m] \ f.state \subseteq late[m]
            BY <1>2, <1>3, <1>4, <3>1 DEF RestAt, OlderAreStale, PatientEnv
        <3>3. doc[m] \ DbContent(m) \subseteq late[m]
            BY <1>2, <1>3, <1>4, <3>1 DEF RestAt, RowCatchesUp, PatientEnv
        <3>4. Loadable(m) \subseteq doc[m]
            BY <3>1 DEF SavedInv, SavedAt, MemoryIsAhead
        <3>5. DbContent(m)' = DbContent(m) /\ Loadable(m)' = Loadable(m)
            BY <2>1 DEF DbContent, Loadable
        <3> QED
            BY <2>1, <3>1, <3>2, <3>3, <3>4, <3>5 DEF RestAt, RestsAt
    <2>3. CASE m \notin Evictable(n)
        <3>1. Still(m)
            BY <2>1, <2>3 DEF Drop, Still
        <3> QED
            BY <1>3, <3>1, StillRest
    <2> QED
        BY <2>2, <2>3
<1>12. ASSUME NEW n \in Nodes, OrphanFires(n)
       PROVE  FALSE
    BY <1>12 DEF OrphanFires, RestInv, QuietTimers
<1>13. ASSUME NEW n \in Nodes, NEW i \in Ids, SaveToDb(n, i)
       PROVE  RestAt(m)'
    <2>1. PICK f \in flights : /\ f.node = n
                               /\ db' = [db EXCEPT ![n] = f.state]
                               /\ flights' = flights \ {f}
        BY <1>13 DEF SaveToDb, InFlight
    <2>2. UNCHANGED <<memory, redis, late>>
        BY <1>13 DEF SaveToDb
    <2>3. CASE m # n
        <3>1. Still(m)
            BY <2>1, <2>2, <2>3 DEF Still, TypeOK
        <3> QED
            BY <1>3, <3>1, StillRest
    <2>4. CASE m = n
        <3>1. db'[m] = f.state /\ f.state # Nil /\ redis[m] # Nil
            BY <2>1, <2>4, NilIsFresh DEF TypeOK, Flight, SavedInv, SavedAt, FlightsAreCached
        <3>2. DbContent(m)' = f.state /\ Loadable(m)' = Loadable(m)
            BY <2>2, <3>1 DEF DbContent, Loadable
        <3>3. RestsAt(m) => RestsAt(m)'
            BY <2>1, <2>2, <2>4, <3>2 DEF RestsAt
        <3>4. OlderAreStale(m) => OlderAreStale(m)'
            BY <2>1, <2>2 DEF OlderAreStale
        <3>5. ASSUME m \in managed, clients[m] = {}, OlderAreStale(m)
              PROVE  RowCatchesUp(m)'
            <4>1. SUFFICES ASSUME idleTimer[m] > MaxLag
                           PROVE  doc[m] \ f.state \subseteq late[m]
                BY <2>2, <3>2 DEF RowCatchesUp
            <4>2. f.age <= MaxLag /\ f.age \in Nat
                BY <1>2, <1>4
            <4>3. idleTimer[m] \in Nat
                BY <3>5 DEF TypeOK, MemoryInv, IdleIsArmed, Ages
            <4> QED
                BY <1>2, <2>1, <2>4, <3>5, <4>1, <4>2, <4>3 DEF OlderAreStale
        <3> QED
            BY <1>3, <2>2, <3>3, <3>4, <3>5 DEF RestAt
    <2> QED
        BY <2>3, <2>4
<1>14. ASSUME NEW n \in Nodes, NEW i \in Ids, SaveToDbFails(n, i)
       PROVE  FALSE
    BY <1>14 DEF SaveToDbFails, DbMayFail, PatientEnv
<1>15. ASSUME NEW n \in Nodes, Expire(n)
       PROVE  RestAt(m)'
    <2>1. /\ UNCHANGED <<memory, db, flights, late>> /\ n \notin managed
          /\ redis' = [redis EXCEPT ![n] = Nil]
          /\ \A f \in flights : f.node # n
        BY <1>15 DEF Expire, InFlight
    <2>2. CASE m = n
        <3>1. DbContent(m)' = DbContent(m) /\ Loadable(m)' = DbContent(m)
            BY <2>1, <2>2 DEF DbContent, Loadable, TypeOK
        <3> QED
            BY <1>3, <2>1, <2>2, <3>1 DEF RestAt, RestsAt
    <2>3. CASE m # n
        <3>1. Still(m)
            BY <2>1, <2>3 DEF Still, TypeOK
        <3> QED
            BY <1>3, <3>1, StillRest
    <2> QED
        BY <2>2, <2>3
<1>16. ASSUME NEW n \in Nodes, CleanupNode(n)
       PROVE  RestAt(m)'
    <2>1. m # n
        BY <1>16 DEF CleanupNode
    <2>2. Still(m)
        BY <1>16, <2>1 DEF CleanupNode, Drop, Still, TypeOK
    <2> QED
        BY <1>3, <2>2, StillRest
<1>17. CASE Tick
    <2>1. /\ FlushDocs(managed, Aged, FALSE) /\ managed \in SUBSET Nodes
          /\ UNCHANGED <<managed, doc, clients, db, late>>
          /\ idleTimer'[m] = IF idleTimer[m] = Nil THEN Nil ELSE idleTimer[m] + 1
        BY <1>17 DEF Tick, FlushedAtTick, TypeOK
    <2>2. /\ redis'[m] = IF m \in managed THEN doc[m] ELSE redis[m]
          /\ Aged \subseteq flights'
          /\ \A f \in flights' : f \in Aged \/ (f.node \in managed /\ f.state = doc[f.node] /\ f.age = 0)
          /\ m \in managed => \E f \in flights' : f.node = m /\ f.state = doc[m] /\ f.age = 0
        BY <1>2, <2>1, FlushAdds
    <2>3. /\ \A f \in Aged : \E g \in flights : g.node = f.node /\ g.state = f.state /\ f.age = g.age + 1
          /\ \A g \in flights : \E f \in Aged : g.node = f.node /\ g.state = f.state /\ f.age = g.age + 1
        <3>1. \A g \in flights : LET f == [g EXCEPT !.age = g.age + 1]
                                 IN  g.node = f.node /\ g.state = f.state /\ f.age = g.age + 1
            BY DEF TypeOK, Flight
        <3> QED
            BY <3>1 DEF Aged
    <2>4. CASE m \notin managed
        <3>1. DbContent(m)' = DbContent(m) /\ Loadable(m)' = Loadable(m)
            BY <2>1, <2>2, <2>4 DEF DbContent, Loadable
        <3> QED
            BY <1>3, <2>1, <2>2, <2>3, <2>4, <3>1 DEF RestAt, RestsAt
    <2>5. CASE m \in managed /\ clients[m] # {}
        BY <2>1, <2>5, BusyRest
    <2>6. CASE m \in managed /\ clients[m] = {}
        <3>1. idleTimer[m] \in Nat /\ idleTimer'[m] = idleTimer[m] + 1
            BY <2>1, <2>6 DEF TypeOK, MemoryInv, IdleIsArmed, Ages
        <3>2. OlderAreStale(m) /\ RowCatchesUp(m)
            BY <1>3, <2>6 DEF RestAt
        <3>3. OlderAreStale(m)'
            BY <1>4, <2>1, <2>2, <2>3, <3>1, <3>2 DEF OlderAreStale
        <3>4. RowCatchesUp(m)'
            <4>0. DbContent(m)' = DbContent(m)
                BY <2>1 DEF DbContent
            <4>1. CASE doc[m] \ DbContent(m) \subseteq late[m]
                BY <2>1, <4>0, <4>1 DEF RowCatchesUp
            <4>2. CASE \E g \in flights : /\ g.node = m
                                          /\ doc[m] \ g.state \subseteq late[m]
                                          /\ g.age + MaxLag + 1 >= idleTimer[m]
                <5>1. PICK g \in flights : /\ g.node = m
                                           /\ doc[m] \ g.state \subseteq late[m]
                                           /\ g.age + MaxLag + 1 >= idleTimer[m]
                    BY <4>2
                <5>2. PICK f \in Aged : g.node = f.node /\ g.state = f.state /\ f.age = g.age + 1
                    BY <2>3, <5>1
                <5>3. f.age + MaxLag + 1 >= idleTimer'[m]
                    BY <1>2, <1>4, <3>1, <5>1, <5>2
                <5> QED
                    BY <2>1, <2>2, <5>1, <5>2, <5>3 DEF RowCatchesUp
            <4>3. CASE ~(idleTimer[m] > MaxLag)
                <5>1. PICK f \in flights' : f.node = m /\ f.state = doc[m] /\ f.age = 0
                    BY <2>2, <2>6
                <5>2. f.age + MaxLag + 1 >= idleTimer'[m]
                    BY <1>2, <3>1, <4>3, <5>1
                <5> QED
                    BY <2>1, <5>1, <5>2 DEF RowCatchesUp
            <4> QED
                BY <3>2, <4>1, <4>2, <4>3 DEF RowCatchesUp
        <3> QED
            BY <2>1, <2>6, <3>3, <3>4 DEF RestAt
    <2> QED
        BY <2>4, <2>5, <2>6
<1>18. ~BeginClose /\ ~FinishClose /\ ~Restart
    BY DEF BeginClose, FinishClose, Restart, PatientEnv, RestInv, QuietTimers
<1>19. CASE UNCHANGED vars
    BY <1>3, <1>19, StillRest DEF vars, Still
<1> QED
    BY <1>5, <1>6, <1>7, <1>8, <1>9, <1>10, <1>11, <1>12, <1>13, <1>14, <1>15,
       <1>16, <1>17, <1>18, <1>19 DEF Next

-----------------------------------------------------------------------------
LEMMA RestingExpiresSafely == RestInv => ExpiryIsHarmless
BY DEF RestInv, RestAt, RestsAt, ExpiryIsHarmless, Expire

LEMMA RestCorrect ==
    ASSUME PatientEnv
    PROVE  Spec => [](SavedInv /\ RestInv)
<1>1. "fault" \notin Env
    BY DEF PatientEnv
<1>2. TypeOK /\ MemoryInv /\ SavedInv /\ RestInv /\ [Next]_vars => SavedInv'
    BY <1>1, SavedStep, RestingExpiresSafely
<1>3. TypeOK /\ MemoryInv /\ SavedInv /\ RestInv /\ [Next]_vars => RestInv'
    BY RestStep
<1> QED
    BY <1>2, <1>3, InitSaved, InitRest, TypeCorrect, MemoryCorrect, PTL DEF Spec

(* If saves land within MaxLag ticks, the idle timeout is at least twice   *)
(* that and two ticks more, and the server neither crashes nor sees stray  *)
(* leaves or failing stores, then the row of a document out of memory has  *)
(* all that its Redis key has but what was merged while nobody took part:  *)
(* saves that land in any order do no harm.                                *)
THEOREM RowsCatchUp ==
    ASSUME PatientEnv
    PROVE  Spec => []RestsInDb
<1>1. TypeOK /\ SavedInv /\ RestInv => RestsInDb
    BY DEF SavedInv, SavedAt, StoresAreBehind, RestInv, RestAt, RestsAt, RestsInDb,
       InFlight, UpToLate
<1> QED
    BY <1>1, RestCorrect, TypeCorrect, PTL

(* Then Redis keys may expire and the documents still keep the contract of *)
(* DurableDocs: expiry takes late updates away at most.                    *)
THEOREM DocsSurviveExpiry ==
    ASSUME PatientEnv
    PROVE  Spec => DurableSpec
<1>1. "fault" \notin Env
    BY DEF PatientEnv
<1>2. TypeOK /\ MemoryInv /\ SavedInv /\ RestInv /\ [Next]_vars
          => [Durable!DDNext]_<<SeenContent, SavedContent, LateContent, Attended, deleted>>
    BY <1>1, RefinedStep, RestingExpiresSafely DEF DurableStep
<1> QED
    BY <1>2, RestCorrect, RefinedInit, TypeCorrect, MemoryCorrect, PTL
    DEF Spec, DurableSpec, Durable!DDSpec, Durable!ddvars, Attended
=============================================================================
