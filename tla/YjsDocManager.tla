--------------------------- MODULE YjsDocManager ---------------------------
(***************************************************************************)
(* The server-side life of the Yjs documents of graph nodes:               *)
(* YjsDocManager (src/src/yjs/yjs-doc-manager.ts) over YjsCrdtService      *)
(* (src/src/yjs/yjs-crdt.service.ts), Redis and the nodes table.           *)
(*                                                                         *)
(* A Y.Doc is the set of the updates merged into it (merging is            *)
(* commutative, associative and idempotent).  JavaScript runs one callback *)
(* at a time, so an action is everything that runs between two awaits of   *)
(* I/O or two timers.  Redis is one FIFO connection, so a GET, SET or DEL  *)
(* takes effect, in issue order, when it is issued; database statements go *)
(* through a pool, so a saveToDb is in flight for a while and two of them  *)
(* may land in either order.                                               *)
(*                                                                         *)
(* Time is counted in ticks of SAFETY_FLUSH_INTERVAL_MS (30 s).  The idle  *)
(* timeout is IdleTicks ticks (DOC_IDLE_TIMEOUT_MS is 10 of them) and a    *)
(* save is assumed to land within MaxLag ticks.  The 2 s debounce is       *)
(* shorter than a tick: it may fire at any point before the next one.      *)
(***************************************************************************)
EXTENDS Naturals, FiniteSets

CONSTANTS
    Nodes,       \* graph nodes, each with a row in the nodes table
    Sockets,     \* connected clients
    Updates,     \* Yjs updates clients produce
    Bootstrap,   \* the update made from content.markdownBody (lazy migration)
    WithBody,    \* nodes whose row has a markdownBody before any yjs_state
    Nil,         \* null
    MaxFlights,  \* bound: saves to one row in flight at once
    IdleTicks,   \* ticks in the idle timeout
    MaxLag,      \* ticks a save to the database may take
    Env          \* which environment events happen, a subset of EnvEvents

EnvEvents == {"crash",   \* the process dies and is restarted
              "fault",   \* Redis and database calls may fail
              "dbfault", \* database calls may fail, Redis ones do not
              "stray",   \* a socket that is not a client of a doc leaves it
              "expire",  \* Redis keys expire (24 h after the last SET)
              "delete",  \* nodes are deleted
              "close"}   \* onModuleDestroy runs

Content == Updates \cup {Bootstrap}

ASSUME BodiesOfNodes == WithBody \subseteq Nodes
ASSUME Bounds == /\ MaxFlights \in Nat \ {0}
                 /\ IdleTicks \in Nat \ {0}
                 /\ MaxLag \in Nat \ {0}
ASSUME KnownEvents == Env \subseteq EnvEvents

Ids == 1..MaxFlights
Ages == 0..IdleTicks

ASSUME NilIsFresh == /\ \A S \in SUBSET Content : S # Nil
                     /\ \A a \in Ages : a # Nil

(* A saveToDb that was issued and has not reached the row yet.  awaited    *)
(* marks the saves onModuleDestroy waits for.                              *)
Flight == [node : Nodes, id : Ids, state : SUBSET Content,
           age : 0..MaxLag, awaited : BOOLEAN]

VARIABLES
    managed,    \* keys of the docs map
    doc,        \* ManagedDoc.doc: the updates merged into the Y.Doc
    clients,    \* ManagedDoc.clients
    saveTimer,  \* is ManagedDoc.saveTimer (the debounce) armed?
    idleTimer,  \* age of the timer ManagedDoc.idleTimer holds, or Nil
    orphans,    \* ages of armed idle timers no ManagedDoc holds any more
    loading,    \* how far the promise in the loading map is ("none": no entry)
    fetched,    \* the state the load has read so far, or Nil
    waiters,    \* sockets whose join awaits that promise
    redis,      \* the value of the node's Redis key, or Nil
    db,         \* nodes.yjs_state, or Nil
    flights,    \* saves to the database in flight
    deleted,    \* nodes for which NODE_DELETE was broadcast
    lifecycle,  \* "open", "closing" (in onModuleDestroy) or "closed"
    late        \* history: updates that were new to the doc when they were
                \* merged while it had no clients, since it last had one

memory == <<managed, doc, clients, saveTimer, idleTimer>>
loads  == <<loading, fetched, waiters>>
vars   == <<memory, orphans, loads, redis, db, flights, deleted, lifecycle, late>>

TypeOK ==
    /\ managed \subseteq Nodes
    /\ doc \in [Nodes -> SUBSET Content]
    /\ clients \in [Nodes -> SUBSET Sockets]
    /\ saveTimer \in [Nodes -> BOOLEAN]
    /\ idleTimer \in [Nodes -> Ages \cup {Nil}]
    /\ orphans \in [Nodes -> SUBSET Ages]
    /\ loading \in [Nodes -> {"none", "redis", "db", "read"}]
    /\ fetched \in [Nodes -> (SUBSET Content) \cup {Nil}]
    /\ waiters \in [Nodes -> SUBSET Sockets]
    /\ redis \in [Nodes -> (SUBSET Content) \cup {Nil}]
    /\ db \in [Nodes -> (SUBSET Content) \cup {Nil}]
    /\ flights \subseteq Flight
    /\ deleted \subseteq Nodes
    /\ lifecycle \in {"open", "closing", "closed"}
    /\ late \in [Nodes -> SUBSET Content]
    /\ \A n \in Nodes : loading[n] = "read" => fetched[n] # Nil

Init ==
    /\ managed = {}
    /\ doc = [n \in Nodes |-> {}]
    /\ clients = [n \in Nodes |-> {}]
    /\ saveTimer = [n \in Nodes |-> FALSE]
    /\ idleTimer = [n \in Nodes |-> Nil]
    /\ orphans = [n \in Nodes |-> {}]
    /\ loading = [n \in Nodes |-> "none"]
    /\ fetched = [n \in Nodes |-> Nil]
    /\ waiters = [n \in Nodes |-> {}]
    /\ redis = [n \in Nodes |-> Nil]
    /\ db = [n \in Nodes |-> Nil]
    /\ flights = {}
    /\ deleted = {}
    /\ lifecycle = "open"
    /\ late = [n \in Nodes |-> {}]

-----------------------------------------------------------------------------
(* The history of what is merged into a document without clients; nothing  *)
(* but the properties reads it.                                            *)
Merged(n, u) ==
    late' = [late EXCEPT ![n] = IF clients[n] = {} THEN @ \cup ({u} \ doc[n])
                                                   ELSE @]

TakenPart(n) == late' = [late EXCEPT ![n] = {}]

-----------------------------------------------------------------------------
(* Persistence: YjsCrdtService.                                            *)

(* Operators named Bug... are variants with a plausible mistake in them:   *)
(* nothing uses them but the experiments that put one in place of its      *)
(* original to see which property notices (see README.md).                 *)

(* loadFromDb: yjs_state, else a document bootstrapped from markdownBody.  *)
DbContent(n) ==
    IF db[n] # Nil THEN db[n]
    ELSE IF n \in WithBody THEN {Bootstrap} ELSE {}

(* What a load that starts and ends now would produce: Redis, then the row *)
Loadable(n) == IF redis[n] # Nil THEN redis[n] ELSE DbContent(n)

InFlight(n) == {f \in flights : f.node = n}
FreeIds(n) == {i \in Ids : \A f \in InFlight(n) : f.id # i}
CanFlush(S) == \A n \in S : FreeIds(n) # {}

(* Redis calls that fail: any of them under "fault", none otherwise.       *)
Losses(S) == IF "fault" \in Env THEN SUBSET S ELSE {{}}

Snapshots(S, wait) ==
    {[node |-> n, id |-> CHOOSE i \in FreeIds(n) : TRUE,
      state |-> doc[n], age |-> 0, awaited |-> wait] : n \in S}

(* flushDoc on every node of S: the snapshot is taken at once, the Redis   *)
(* SET and the saveToDb leave together.  kept: the flights already there.  *)
FlushDocs(S, kept, wait) ==
    /\ CanFlush(S)
    /\ saveTimer' = [n \in Nodes |-> saveTimer[n] /\ n \notin S]
    /\ flights' = kept \cup Snapshots(S, wait)
    /\ \E lost \in Losses(S) :
           redis' = [n \in Nodes |-> IF n \in S \ lost THEN doc[n] ELSE redis[n]]

(* The UPDATE of flight i reaches the row: whatever is there is replaced.  *)
SaveToDb(n, i) ==
    \E f \in InFlight(n) :
        /\ f.id = i
        /\ db' = [db EXCEPT ![n] = f.state]
        /\ flights' = flights \ {f}
        /\ UNCHANGED <<memory, orphans, loads, redis, deleted, lifecycle, late>>

DbMayFail == Env \cap {"fault", "dbfault"} # {}

SaveToDbFails(n, i) ==
    /\ DbMayFail
    /\ \E f \in InFlight(n) : f.id = i /\ flights' = flights \ {f}
    /\ UNCHANGED <<memory, orphans, loads, redis, db, deleted, lifecycle, late>>

(* The Redis key reaches its TTL.  A managed doc is saved every tick and a *)
(* save lands within MaxLag ticks, so 24 h after the last SET neither the  *)
(* doc nor a save of it is there any more.                                 *)
Expire(n) ==
    /\ "expire" \in Env
    /\ redis[n] # Nil
    /\ n \notin managed
    /\ InFlight(n) = {}
    /\ redis' = [redis EXCEPT ![n] = Nil]
    /\ UNCHANGED <<memory, orphans, loads, db, flights, deleted, lifecycle, late>>

-----------------------------------------------------------------------------
(* getOrCreateDoc, loadDoc and addClient, for a socket that joins.  When   *)
(* the promise resolves, every continuation up to addClient is a microtask *)
(* of the same turn.                                                       *)

BugTimerNotCleared(n, s) ==
    /\ n \in managed
    /\ clients' = [clients EXCEPT ![n] = @ \cup {s}]
    /\ TakenPart(n)
    /\ UNCHANGED <<managed, doc, saveTimer, idleTimer, orphans, loads, redis, db,
                   flights, deleted, lifecycle>>

JoinManaged(n, s) ==
    /\ n \in managed
    /\ clients' = [clients EXCEPT ![n] = @ \cup {s}]
    /\ idleTimer' = [idleTimer EXCEPT ![n] = Nil]
    /\ TakenPart(n)
    /\ UNCHANGED <<managed, doc, saveTimer, orphans, loads, redis, db, flights,
                   deleted, lifecycle>>

JoinPending(n, s) ==
    /\ n \notin managed
    /\ loading[n] # "none"
    /\ waiters' = [waiters EXCEPT ![n] = @ \cup {s}]
    /\ UNCHANGED <<memory, orphans, loading, fetched, redis, db, flights,
                   deleted, lifecycle, late>>

BugLoadsRegardless(n) == TRUE

NotInMemory(n) == n \notin managed

(* No doc and no pending load: the Redis GET is issued.                    *)
JoinLoads(n, s) ==
    /\ NotInMemory(n)
    /\ loading[n] = "none"
    /\ loading' = [loading EXCEPT ![n] = "redis"]
    /\ waiters' = [waiters EXCEPT ![n] = {s}]
    /\ \E lost \in Losses({n}) :
           fetched' = [fetched EXCEPT ![n] = IF n \in lost THEN Nil ELSE redis[n]]
    /\ UNCHANGED <<memory, orphans, redis, db, flights, deleted, lifecycle, late>>

Join(n, s) == JoinManaged(n, s) \/ JoinPending(n, s) \/ JoinLoads(n, s)

BugRedisIgnored(n) ==
    /\ loading[n] = "redis"
    /\ loading' = [loading EXCEPT ![n] = "db"]
    /\ UNCHANGED <<memory, orphans, fetched, waiters, redis, db, flights,
                   deleted, lifecycle, late>>

RedisMiss(n) ==
    /\ loading[n] = "redis"
    /\ fetched[n] = Nil
    /\ loading' = [loading EXCEPT ![n] = "db"]
    /\ UNCHANGED <<memory, orphans, fetched, waiters, redis, db, flights,
                   deleted, lifecycle, late>>

BugNoBootstrap(n) ==
    /\ loading[n] = "db"
    /\ loading' = [loading EXCEPT ![n] = "read"]
    /\ fetched' = [fetched EXCEPT ![n] = IF db[n] = Nil THEN {} ELSE db[n]]
    /\ UNCHANGED <<memory, orphans, waiters, redis, db, flights, deleted,
                   lifecycle, late>>

(* The SELECT reads the row; its answer is on the way.                     *)
DbRead(n) ==
    /\ loading[n] = "db"
    /\ loading' = [loading EXCEPT ![n] = "read"]
    /\ fetched' = [fetched EXCEPT ![n] = DbContent(n)]
    /\ UNCHANGED <<memory, orphans, waiters, redis, db, flights, deleted,
                   lifecycle, late>>

EndLoad(n) ==
    /\ loading' = [loading EXCEPT ![n] = "none"]
    /\ fetched' = [fetched EXCEPT ![n] = Nil]
    /\ waiters' = [waiters EXCEPT ![n] = {}]

(* The load resolves: docs.set, loading.delete, addClient of every waiter. *)
DocLoaded(n) ==
    /\ \/ loading[n] = "redis" /\ fetched[n] # Nil
       \/ loading[n] = "read"
    /\ managed' = managed \cup {n}
    /\ doc' = [doc EXCEPT ![n] = fetched[n]]
    /\ clients' = [clients EXCEPT ![n] = waiters[n]]
    /\ saveTimer' = [saveTimer EXCEPT ![n] = FALSE]
    /\ idleTimer' = [idleTimer EXCEPT ![n] = Nil]
    /\ EndLoad(n)
    /\ TakenPart(n)
    /\ UNCHANGED <<orphans, redis, db, flights, deleted, lifecycle>>

(* loadFromDb throws (loadFromRedis never does): every waiter's join fails *)
LoadFails(n) ==
    /\ DbMayFail
    /\ loading[n] \in {"db", "read"}
    /\ EndLoad(n)
    /\ UNCHANGED <<memory, orphans, redis, db, flights, deleted, lifecycle, late>>

-----------------------------------------------------------------------------
(* removeClient, for each node of N in turn: a yjs:leave removes a socket  *)
(* from one doc, a disconnect from all it takes part in.  A doc left       *)
(* without clients is flushed and its idle timer is armed, and a timer     *)
(* that was armed already is forgotten, not cleared.  Orphaned timers of   *)
(* one tick count as one.                                                  *)

BugOnlyOneEmptied(N, s) ==
    LET E == {n \in N : clients[n] \ {s} = {}}
    IN  IF E = {} THEN {} ELSE {CHOOSE n \in E : TRUE}

Emptied(N, s) == {n \in N : clients[n] \ {s} = {}}

BugNullHandle(n) == orphans[n] \cup {idleTimer[n]}

Orphaned(n) == IF idleTimer[n] = Nil THEN orphans[n]
               ELSE orphans[n] \cup {idleTimer[n]}

BugNoFlush(N, s) == FlushDocs({}, flights, FALSE)

FlushEmptied(N, s) == FlushDocs(Emptied(N, s), flights, FALSE)

RemoveClient(N, s) ==
    /\ N \subseteq managed
    /\ "stray" \in Env \/ \A n \in N : s \in clients[n]
    /\ clients' = [n \in Nodes |-> IF n \in N THEN clients[n] \ {s} ELSE clients[n]]
    /\ FlushEmptied(N, s)
    /\ idleTimer' = [n \in Nodes |-> IF n \in Emptied(N, s) THEN 0 ELSE idleTimer[n]]
    /\ orphans' = [n \in Nodes |-> IF n \in Emptied(N, s) THEN Orphaned(n)
                                                         ELSE orphans[n]]
    /\ UNCHANGED <<managed, doc, loads, db, deleted, lifecycle, late>>

(* Edits.  A yjs:sync is merged into any doc in the docs map: nobody asks  *)
(* whether its sender, or anyone, is a client of it.                       *)

(* An update, new or repeated, is merged by the gateway, which calls       *)
(* scheduleSave.                                                           *)
Update(n, u) ==
    /\ n \in managed
    /\ doc' = [doc EXCEPT ![n] = @ \cup {u}]
    /\ saveTimer' = [saveTimer EXCEPT ![n] = TRUE]
    /\ Merged(n, u)
    /\ UNCHANGED <<managed, clients, idleTimer, orphans, loads, redis, db,
                   flights, deleted, lifecycle>>

(* A SyncStep2 answer, or a viewer's update, is merged too, but nothing is *)
(* scheduled: it waits for somebody else's flush.                          *)
UpdateUnscheduled(n, u) ==
    /\ n \in managed
    /\ u \notin doc[n]
    /\ doc' = [doc EXCEPT ![n] = @ \cup {u}]
    /\ Merged(n, u)
    /\ UNCHANGED <<managed, clients, saveTimer, idleTimer, orphans, loads,
                   redis, db, flights, deleted, lifecycle>>

SaveTimerFires(n) ==
    /\ n \in managed
    /\ saveTimer[n]
    /\ FlushDocs({n}, flights, FALSE)
    /\ UNCHANGED <<managed, doc, clients, idleTimer, orphans, loads, db,
                   deleted, lifecycle, late>>

-----------------------------------------------------------------------------
(* Timers and the end of a document.                                       *)

(* The ManagedDocs of S leave the docs map, their timers cleared.          *)
Drop(S) ==
    /\ managed' = managed \ S
    /\ doc' = [n \in Nodes |-> IF n \in S THEN {} ELSE doc[n]]
    /\ clients' = [n \in Nodes |-> IF n \in S THEN {} ELSE clients[n]]
    /\ saveTimer' = [n \in Nodes |-> saveTimer[n] /\ n \notin S]
    /\ idleTimer' = [n \in Nodes |-> IF n \in S THEN Nil ELSE idleTimer[n]]

BugOnlySavedEvicted(n) ==
    {m \in managed \cap {n} : clients[m] = {} /\ redis[m] = doc[m]}

(* evictDoc gives up when somebody has joined again.                       *)
Evictable(n) == {m \in managed \cap {n} : clients[m] = {}}

IdleTimerFires(n) ==
    /\ idleTimer[n] = IdleTicks
    /\ Drop(Evictable(n))
    /\ UNCHANGED <<orphans, loads, redis, db, flights, deleted, lifecycle, late>>

OrphanFires(n) ==
    /\ IdleTicks \in orphans[n]
    /\ orphans' = [orphans EXCEPT ![n] = @ \ {IdleTicks}]
    /\ Drop(Evictable(n))
    /\ UNCHANGED <<loads, redis, db, flights, deleted, lifecycle, late>>

(* Timers that are due fire before the clock moves on, and saves land      *)
(* within MaxLag.                                                          *)
NothingDue ==
    /\ \A n \in Nodes : idleTimer[n] # IdleTicks /\ IdleTicks \notin orphans[n]
    /\ \A f \in flights : f.age < MaxLag

Aged == {[f EXCEPT !.age = f.age + 1] : f \in flights}

BugOnlyDirtyFlushed == {n \in managed : saveTimer[n]}

(* flushAll, every SAFETY_FLUSH_INTERVAL_MS: every doc, dirty or not.      *)
FlushedAtTick == managed

Tick ==
    /\ lifecycle = "open"
    /\ NothingDue
    /\ FlushDocs(FlushedAtTick, Aged, FALSE)
    /\ idleTimer' = [n \in Nodes |-> IF idleTimer[n] = Nil THEN Nil
                                     ELSE idleTimer[n] + 1]
    /\ orphans' = [n \in Nodes |-> {a + 1 : a \in orphans[n]}]
    /\ UNCHANGED <<managed, doc, clients, loads, db, deleted, lifecycle, late>>

(* cleanupNode, called by the gateway's broadcast of NODE_DELETE.          *)
CleanupNode(n) ==
    /\ "delete" \in Env
    /\ n \notin deleted
    /\ deleted' = deleted \cup {n}
    /\ Drop({n})
    /\ \E lost \in Losses({n}) :
           redis' = [redis EXCEPT ![n] = IF n \in lost THEN redis[n] ELSE Nil]
    /\ UNCHANGED <<orphans, loads, db, flights, lifecycle, late>>

(* onModuleDestroy: the interval is cleared and every doc is flushed ...   *)
BeginClose ==
    /\ "close" \in Env
    /\ lifecycle = "open"
    /\ lifecycle' = "closing"
    /\ FlushDocs(managed, flights, TRUE)
    /\ UNCHANGED <<managed, doc, clients, idleTimer, orphans, loads, db, deleted, late>>

(* ... and when those saves have landed the map is cleared, timers and all *)
(* that was merged meanwhile forgotten.                                    *)
FinishClose ==
    /\ lifecycle = "closing"
    /\ \A f \in flights : ~f.awaited
    /\ lifecycle' = "closed"
    /\ Drop(Nodes)
    /\ orphans' = [n \in Nodes |-> Orphaned(n)]
    /\ UNCHANGED <<loads, redis, db, flights, deleted, late>>

(* The process dies, or exits after onModuleDestroy, and starts again.     *)
Restart ==
    /\ "crash" \in Env \/ lifecycle = "closed"
    /\ Drop(Nodes)
    /\ orphans' = [n \in Nodes |-> {}]
    /\ loading' = [n \in Nodes |-> "none"]
    /\ fetched' = [n \in Nodes |-> Nil]
    /\ waiters' = [n \in Nodes |-> {}]
    /\ flights' = {}
    /\ lifecycle' = "open"
    /\ UNCHANGED <<redis, db, deleted, late>>

-----------------------------------------------------------------------------
Next ==
    \/ \E n \in Nodes, s \in Sockets : Join(n, s)
    \/ \E n \in Nodes : RedisMiss(n) \/ DbRead(n) \/ DocLoaded(n) \/ LoadFails(n)
    \/ \E N \in (SUBSET Nodes) \ {{}}, s \in Sockets : RemoveClient(N, s)
    \/ \E n \in Nodes, u \in Updates : Update(n, u) \/ UpdateUnscheduled(n, u)
    \/ \E n \in Nodes : SaveTimerFires(n) \/ IdleTimerFires(n) \/ OrphanFires(n)
    \/ \E n \in Nodes, i \in Ids : SaveToDb(n, i) \/ SaveToDbFails(n, i)
    \/ \E n \in Nodes : Expire(n) \/ CleanupNode(n)
    \/ Tick \/ BeginClose \/ FinishClose \/ Restart

Spec == Init /\ [][Next]_vars

(* Answers arrive and timers fire.  The interval keeps firing although the *)
(* bounds of the model may hold a tick back now and then: strong fairness. *)
Fairness ==
    /\ \A n \in Nodes :
          /\ WF_vars(RedisMiss(n)) /\ WF_vars(DbRead(n)) /\ WF_vars(DocLoaded(n))
          /\ WF_vars(SaveTimerFires(n))
          /\ WF_vars(IdleTimerFires(n)) /\ WF_vars(OrphanFires(n))
          /\ \A i \in Ids : WF_vars(SaveToDb(n, i))
    /\ SF_vars(Tick)

FairSpec == Spec /\ Fairness

-----------------------------------------------------------------------------
(* Safety.                                                                 *)

(* A document in memory is being watched by a client or by exactly one     *)
(* idle timer it can still cancel: getOrCreateDoc, addClient, removeClient *)
(* and evictDoc leave no unwatched document (a leak) and no armed handle   *)
(* on a document in use (an eviction under an editor).                     *)
IdleIsArmed == \A n \in managed : clients[n] = {} <=> idleTimer[n] # Nil

(* A copy of a document that lacks nothing but what was merged while the   *)
(* document had no clients.                                                *)
UpToLate(n, copy, whole) == copy \subseteq whole /\ whole \ copy \subseteq late[n]

(* A document without clients is in Redis as it was when the last of them  *)
(* left, and as later flushes found it: evictDoc, which does not flush,    *)
(* loses nothing but what was merged since then.                           *)
IdleIsSaved ==
    \A n \in managed \ deleted :
        clients[n] = {} => redis[n] # Nil /\ UpToLate(n, redis[n], doc[n])

(* A load never replaces a document that is already in memory, and nothing *)
(* ever takes an update out of one: what an editor sees only grows while   *)
(* the document stays.                                                     *)
MemoryGrows ==
    [][\A n \in Nodes : n \in managed /\ n \in managed' => doc[n] \subseteq doc'[n]]_vars

(* Once a document is out of memory the row has all that Redis has, except *)
(* for what was merged while it had no clients; and so it stays whatever   *)
(* save lands next.  The loss of the Redis key after 24 h takes nothing    *)
(* else away: the safety flushes of the idle period made up for saves that *)
(* landed in the wrong order.                                              *)
RestsInDb ==
    \A n \in Nodes \ (managed \cup deleted) :
        /\ UpToLate(n, DbContent(n), Loadable(n))
        /\ \A f \in InFlight(n) : UpToLate(n, f.state, Loadable(n))

(* cleanupNode clears memory and Redis when the node is deleted: nothing   *)
(* of a deleted node is there.                                             *)
DeletedIsClean == \A n \in deleted : n \notin managed /\ redis[n] = Nil

(* The documents, seen from outside, keep the contract of DurableDocs: an  *)
(* editor sees the doc in memory or what a load would give, and saved is   *)
(* what a fresh server would load.                                         *)
SeenContent ==
    [n \in Nodes |-> IF n \in deleted THEN {}
                     ELSE IF n \in managed THEN doc[n] ELSE Loadable(n)]
SavedContent == [n \in Nodes |-> IF n \in deleted THEN {} ELSE Loadable(n)]

LateContent == [n \in Nodes |-> IF n \in deleted THEN {} ELSE late[n]]

Durable == INSTANCE DurableDocs WITH
    Docs <- Nodes, Items <- Content, Lasting <- "expire" \notin Env,
    content <- SeenContent, saved <- SavedContent, late <- LateContent,
    attended <- {n \in Nodes \ deleted : clients[n] # {}}, gone <- deleted

DurableSpec == Durable!DDSpec

(* What Redis or the row gives back for a living node is never taken away  *)
(* again, by whatever saves, evictions, crashes and loads follow.          *)
SavedSurvives == Durable!SavedIsKept

(* Liveness.                                                               *)

(* Every update in a document that has clients reaches the row of a living *)
(* node and stays there, whatever order the saves land in.  What is merged *)
(* into a document without clients may be evicted unsaved.                 *)
EditsReachDb ==
    \A n \in Nodes, u \in Updates :
        (u \in doc[n] /\ clients[n] # {})
            ~> [](u \in DbContent(n) \/ n \in deleted)

(* A document without clients is evicted, unless somebody joins it again.  *)
IdleIsFreed ==
    \A n \in Nodes : (n \in managed /\ clients[n] = {})
                         ~> (n \notin managed \/ clients[n] # {})

=============================================================================
