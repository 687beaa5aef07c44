# A verification project for the Aideep backend

The backend is a NestJS server for shared graphs of notes. Users edit nodes and edges through REST
requests and the text of a node together through Yjs documents over a WebSocket. This directory
holds TLA+ models of the parts of it where timing matters, the TLC configurations that check them
on small instances, and theorems about them proved with TLAPS. `PROJECT.json` lists, for each
definition, the source lines it stands for, and every run, experiment, finding, hazard and theorem.

Contents: the system · how the modules correspond to it · what the runs show · bounds · fairness ·
what is proved · disagreements found · what is not modelled · the plan.

## The system

| part | state it keeps | operations | talks to |
|---|---|---|---|
| `YjsDocManager` (`yjs/yjs-doc-manager.ts`) | `docs`: per node the Y.Doc, its clients, a save timer, an idle timer; `loading`: loads in progress; a 30 s interval | getOrCreateDoc, addClient, removeClient, scheduleSave, flushDoc, flushAll, evictDoc, cleanupNode, onModuleDestroy | `YjsCrdtService`; called by the gateway |
| `YjsCrdtService` (`yjs/yjs-crdt.service.ts`) | none; Redis key `yjs:doc:<node>` (24 h), columns `yjs_state` and `content` of the row | load and save in both stores, delete in Redis | Redis, PostgreSQL |
| `WsGateway` (`ws/ws.gateway.ts`) | `yjsRooms` per socket; on the socket: user, workspace, membership cache, read-only flags; a gauge | connect, disconnect, join_workspace, yjs:join / sync / leave / awareness, broadcast | the manager, `users_workspaces` |
| `NodeService` (`node/node.service.ts`) | table `nodes` | create, move, update, delete, propagateDepth | PostgreSQL, the workspace cache, the gateway's broadcast |
| `EdgeService` (`edge/edge.service.ts`) | table `edges` | connectNodes, deleteEdge | `NodeService`, PostgreSQL, broadcast |
| `WorkspaceService` (`workspace/workspace.service.ts`) | `workspaces`, `users_workspaces`, the cached workspace sync, invitation codes | create, list, sync, invite, join | PostgreSQL, Redis |
| `AuthService` (`auth/auth.service.ts`), users | refresh tokens, blacklist, e-mail codes and marks in Redis; `users` | login, refresh, logout, mail, verify, sign-up | Redis, PostgreSQL |
| `YjsWsAwarenessService` | a 30 s presence cache | cache, read, delete | Redis |
| Prisma, Redis clients, `@Transactional` | the current transaction | run in a transaction | — |
| upload, common, application shell, mock client | none of interest | sign URLs, format, log, wire | — |

How they interact: a socket joins a node's document through the gateway, which asks the database for
the membership and the manager for the document (two awaits); the manager loads it from Redis, else
from the row. Edits are merged into the document by the gateway itself and then scheduled for
saving. A flush takes a snapshot and sends it to Redis and to the row at once. The last client to
leave triggers a flush and starts the idle timer, which evicts the document without saving it.
Deleting a node through REST broadcasts an event, on which the gateway has the manager forget the
document.

What makes this hard:

* **Interleaving at awaits.** JavaScript runs one callback at a time, but joins await twice, loads
  await Redis and the database, and in between the same socket may leave or disconnect, another may
  join, timers fire, and the node may be deleted.
* **Two stores with different orders.** Redis commands take effect in order; statements on pooled
  connections do not, and a flush never looks whether an older one is still on its way.
* **Timers.** Debounce, interval and idle timer share one record, and a handle that is overwritten
  keeps its timer running.
* **Failures.** The process may die between any two steps, Redis keys expire, calls fail, and almost
  every failure is logged and forgotten.
* **Read committed.** REST requests check first and write later in concurrent transactions.

What would make each part correct:

* manager: nothing saved is lost; what is unsaved is saved eventually; no document is evicted under
  an editor, overwritten while in memory, or kept for ever; a deleted node leaves nothing behind;
* gateway: its rooms and the manager's clients say the same; no client is a socket that is gone;
* graph: simple, acyclic, on live nodes; depth is the level in the tree;
* workspace sync: a cached answer lags behind the tables by its lifetime at most, and catches up;
* replicas: clients in step with the server show the same document; nobody's edit is stranded;
* node rows: concurrent requests keep a subtree's shape, and the text in `content` is that of `yjs_state`;
* accounts: a session ends with its logout, a code is good for what it was mailed for, a user has one
  membership and the role she was invited to.

## The modules

| module | what it is |
|---|---|
| `DurableDocs` | the contract of the document store, seen from outside: an editor sees `content`, a restart would bring back `saved`, and only what was merged into an unattended document (`late`) may be lost without a stop |
| `YjsDocManager` | the manager over Redis and the row; `Durable` is its refinement mapping to `DurableDocs` |
| `WsGateway` | connections, joins and rooms; extends `YjsDocManager` and calls its actions |
| `Replicas` | the server's and the clients' copies of one document and the messages between them |
| `Graph` | node and edge requests, each as one step |
| `GraphRequests` | the same requests a few statements a step, concurrently; `Serial` maps it back to `Graph` |
| `NodeRows` | `updateNodePosition`, `updateNodeMeta` and `saveToDb`, statement by statement, over the columns of `nodes` |
| `WorkspaceSync` | the cached answer of `getWorkspaceInfo` and the requests that delete it |
| `Sessions` | login, refresh, logout: the refresh token of a user and the blacklist |
| `EmailCodes` | mail, verify, sign-up for one address |
| `Memberships` | creation, invitation and joining of a workspace |
| `Accounts` | the last three side by side; they share no key and no table |
| `MCYjsDocManager`, `MCWsGateway`, `MCReplicas`, `MCGraphRequests`, `MCNodeRows`, `MCWorkspaceSync`, `MCAccounts` | instances for TLC |
| `YjsDocManagerProofs`, `YjsDurabilityProofs`, `WsGatewayProofs`, `ReplicasProofs`, `GraphRequestsProofs`, `NodeRowsProofs`, `WorkspaceSyncProofs`, `AccountsProofs` | the proofs |

### YjsDocManager

A Y.Doc is the set of the updates merged into it: merging is commutative, associative and
idempotent, and that is all the properties use. `docs` is `managed`, `doc`, `clients`, `saveTimer`
and `idleTimer`; `loading` holds how far a load is, `fetched` what it has read and `waiters` the joins
that await it. An action is what runs between two awaits of I/O, or two timers:

* `JoinManaged`, `JoinPending`, `JoinLoads` are the three ways through `getOrCreateDoc`; `RedisMiss`,
  `DbRead`, `DocLoaded` and `LoadFails` are the parts of `loadDoc`. `DocLoaded` includes `docs.set`,
  `loading.delete` and the `addClient` of every waiter, which are microtasks of one turn.
* `RemoveClient(N, s)` is `removeClient` for every document of `N` in one turn (a leave has one, a
  disconnect all of the socket's). Overwriting `idleTimer` moves the old timer to `orphans`.
* `FlushDocs` is `flushDoc`: the snapshot, the Redis SET and the departure of the `saveToDb`, which
  reaches the row later (`SaveToDb`) or not at all (`SaveToDbFails`), in any order.
* `Tick` is one run of the 30 s interval with the time that passes: `flushAll`, one tick more on each
  timer, on each save in flight. Timers that are due fire first. The 2 s debounce is shorter than a
  tick and may fire at any point (`SaveTimerFires`).
* `IdleTimerFires` and `OrphanFires` are `evictDoc`; `CleanupNode` is `cleanupNode`; `BeginClose` and
  `FinishClose` are `onModuleDestroy` before and after its await. A debounce timer that outlives
  `FinishClose` would at most flush a document opened meanwhile, which `SaveTimerFires` does anyway.
* `Update` and `UpdateUnscheduled` are what the gateway merges with and without `scheduleSave`. They
  need the document in memory and nothing else: `handleYjsSync` asks neither for a room nor for a
  client, so a socket whose join is still awaited can edit a document that has no clients and is about
  to be evicted. The history variable `late` collects what such edits bring that the document did not
  have, until somebody is a client of it again. `evictDoc` clears the debounce timer without a flush,
  so these updates may be lost; the properties say that nothing else is.

`Env` says what the environment does besides edits, joins and leaves: `crash`, `dbfault` (database
calls fail), `fault` (Redis calls too), `stray` (a socket leaves a document it is not a client of: the
gateway does not check), `expire`, `delete`, `close`. A property is checked under the environments it
is meant to survive, and the runs and theorems name them.

### WsGateway

`handleYjsJoin` is `YjsJoin` (up to the membership query) or `YjsJoinCached`, `Checked` (up to the
document) and `JoinsResume` (the rest). A socket connects once; a client that returns is another
socket. A connected socket may send a `yjs:sync` (`YjsSync`, `YjsSyncStep2`) for any document in memory,
joined or not, of a workspace it is a member of or not: the handler looks only at `docs` and at
`yjsReadOnly`, as the last join left it. `RightsAreCurrent` is therefore about those who joined.
`Impatient` says whether a client may leave or disconnect while its join is unanswered; with
`Impatient = FALSE` the run shows what holds for clients that wait. `RoleGranted` is `joinWorkspace`
seen from the gateway: a socket's user becomes a member at any moment. No code changes or takes away
a role. OWNER and EDITOR behave alike here.

### Replicas

A replica is, again, a set of updates. `up[c]` and `down[c]` are the messages on a connection, in
order; `Cut` loses them. A client (`SocketYjsProvider`) edits whether it is connected or not, answers the
server's SyncStep1 with a SyncStep2 and a SyncStep1 of its own, and counts as synced after the
server's SyncStep2. `ServerMerges` is `handleYjsSync`: every message is merged, only an update of a
socket that is not read-only is relayed. What is merged without a relay is noted in `quiet`. Of the
manager only its contract is here: `server` goes back to `stored` in a crash, and a document is
flushed when the last client leaves. A client that disconnects during its join does not join here; what
it does in the code is `GhostClient`'s subject.

### Graph and GraphRequests

`edges` and the columns `deleted_at` and `depth` of `nodes` are the state. Permissions are taken as
given. `Reaches` is the search of `hasCycle` as the least closed set instead of its queue;
`Descendants` is the recursive query. Two variables are not the code's: `tracked`, chosen at the
start, tells the behaviours that follow depths (with requests served one at a time) from those that
follow edges alone (any number of requests, depths stay 0); `treelike` remembers whether clients have
only built trees so far: given a node one parent, deleted leaves. A third, `torn`, names the edges
whose two ends a failed `deleteEdge` has moved apart.

In `GraphRequests` a transaction's writes are kept aside (`written`, `dropping`) until its commit, a
write waits for the transaction that holds the row, and `Abort` rolls back at any point (deadlock
victim, Prisma's timeout). `deleteEdge` is not transactional in the code: its statements commit one by
one, and `Throw` ends it between any two of them, with the depths it has lowered, those of the target
or of its whole subtree, in place and the edge too. In `Graph` that is `DeleteEdgeFails`, a step of
its own, so that a request is served whole, not at all, or in this one broken way. Consecutive reads
of one table are one step. The table definitions are not in the repository: no uniqueness constraint
on edges is assumed.

### NodeRows

The edges are fixed and have no cycle (what `Graph` proves of them). A request is `updateNodePosition`
(`BeginMove`, `WriteMove`, `ReadDescendants`, `Shift`), `updateNodeMeta` (`BeginMeta`, `WriteMeta`,
`ReadDescendants`, `Fetch` and one `Spread` per descendant) or a `saveToDb` (`BeginSave`,
`WriteSave`), with an action for each statement; none is a transaction. `content` is a record of
fields, `Updated` the spread over what was read; the value a request writes is the request. `seen` is
the version a request could have compared. A node may be deleted between any two statements:
`updateNode` then throws. And any statement, or the DEL of the cached sync between two of them, may
fail (`Throw`): what was written before stays, so a move can put its node down and leave the subtree
behind.

### Sessions, EmailCodes, Memberships

Each call is split at its awaits. Redis commands leave on one connection in the order they are issued,
so a command takes effect in the turn that issues it and only its answer is late. A token is the
second it was signed in and its kind, access, refresh or master, which is all two tokens of a user
differ by. `JwtStrategy` takes any of the three as a bearer, from the `Authorization` header or from
`?token=` (`Accepted`), the WebSocket handshake only verifies it (`Verified`), and `logout` blacklists
what the header carried: `AskLogout(c, t, carried)` has the token it was let in with and the one, if
any, it will ban. Codes and invitations are told apart by the order they were made in: that a
six-digit code may recur is left out. `Create` and `JoinWorkspace` may fail. In `Memberships` a user
has several tabs, as nothing makes her calls wait for each other. The history variables (`crossed`,
`latest`, `out`, `overrun`, `together`, `racing`, ...) record what the exceptions in the properties
are about.

### WorkspaceSync

What matters for the cache is which tables a request writes, when it commits and when it deletes the
key, so a request is its script: `CreateScript` and `CutScript` write and then delete the key,
`UpdateScript` (positions, colours) writes the descendants after it, and `CommitScript` (the two
transactions) deletes the key before its COMMIT. `Fail` may end a script anywhere; `SaveScript`
(`saveToDb`) swallows the rejection of its DEL and ends as if all were well (`DelLost`, noted in
`lost`). A reader is `getWorkspaceInfo` with an action for each await: `Hit` or `Miss`,
`SelectAllNode`, `SelectAllEdge`, `Store`. `raced` is a history variable. The two `SELECT`s are no
transaction, so an answer may show one half of a deletion; nothing in the code promises otherwise.

## What the runs show

Passing runs:

| run | instance | shows |
|---|---|---|
| `Durable` | 1 document, 2 sockets, 2 updates, 2 saves in flight, timeout 3 ticks; crash, stray, delete, close, failing database calls | `IdleIsArmed`, `IdleIsSaved`, `MemoryGrows`, `SavedSurvives`, and the refinement `DurableSpec`, with edits of documents without clients |
| `Expiry` | 3 saves in flight, lag 1, timeout 4 ticks, fair; expire, delete | `RestsInDb`, `DurableSpec`, `EditsReachDb`: saves may overtake each other and Redis may forget, and but for late edits nothing is missing; `IdleIsFreed` |
| `GatewayRooms` | 2 sockets, 1 document; stray, fault, delete, crash; impatient clients, edits by whoever is connected, roles given | `RoomsMatchClients`, `RightsAreCurrent` and, in the type invariant, that the gauge counts the connections |
| `GatewayPatient` | 2 documents, fair; patient clients, failing database calls | `ClientsAreConnected`, `AbandonedIsFreed`: a disconnect empties both documents |
| `Replicas` | 2 clients, 2 updates, fair; cuts, eviction, crash | `NothingStranded`, `LacksOnlyQuiet`, `EveryoneCatchesUp` |
| `Sync` | 1 change, failing anywhere or losing its DEL, 2 readers, fair; lifetime 3, fill 2 ticks | `StaleAtMostTtl`, `FreshUnlessRaced`, `EventuallyFresh` |
| `Requests` | 4 nodes, 3 edges, 2 requests of which one connects, any shape | `Acyclic`, `OnePerPair` with deletions in between; served one at a time, `ServedAsOne` (statement by statement, with rollbacks and with a `deleteEdge` that fails half way, a request refines `Graph`) and `TreesStayTrees` |
| `NodeRows` | 4 nodes (a diamond), 2 requests failing anywhere, deletions | `VersionTells`, `MovesAreRigid`, `BodyFollowsState` |
| `Accounts` | 2 calls at once; 3 tokens, 4 seconds; 2 mails, 3 attempts; 2 users in 2 tabs, 2 invitations | `LatestTokenWorks`, `LoggedOutStaysOut`, `LoggedOutIsRefused`; `CodeIsCurrent`, `OneUserVerified`; `OneRow`, `JoinsAsInvited` |

The properties worth a second look:

* `IdleIsArmed` relates two fields updated by four operations. It is what keeps a document from
  leaking (no client, no timer) and an editor from being evicted (client, armed handle).
* `IdleIsSaved` is what `evictDoc`, which does not flush, relies on: what is not in Redis was merged since
  the last client left.
* `RestsInDb` is not obvious at all: saves may land in the wrong order, and only the safety flushes
  during the idle period, together with an idle timeout longer than a save takes, make the row right
  in the end, up to what was merged during that period itself. `BugOnlyDirtyFlushed`, flushing only
  documents with an armed debounce timer, an optimisation one might make, breaks it and
  `EditsReachDb`.
* `DurableSpec` says that a crash only takes what was not saved, an eviction and the expiry of the key only
  what was merged while nobody took part, a load never brings back less than
  was saved, and a restart never shows what nobody wrote.
* `FreshUnlessRaced` names the two ways in which a request that deletes the key last may stay hidden:
  a fill under way at its DEL, and a `saveToDb` whose DEL was rejected.
* `TreesStayTrees` after a failed `deleteEdge`: depths are wrong across the edges it tore and right
  within each part, until those edges are deleted in their turn.
* `EventuallyFresh` holds by the lifetime alone: every DEL can be outrun by a slow fill. A SET or GET that
  renewed the lifetime (`BugHitRenews`) would keep a stale answer for ever in a busy workspace.
* `NothingStranded` is what the order of the handshake is for: the server asks first, so that edits made
  offline, or lost by the server in a crash, come back. A server that sent its state first
  (`BugServerStateFirst`) would leave them with their author.
* `LacksOnlyQuiet` and `EveryoneCatchesUp` rest on the relay going to everybody in the room, in step or
  not: an update that falls between a client's join and the end of its handshake is in neither
  SyncStep2 otherwise (`BugToSyncedOnly`).
* `VersionTells`: requests overwrite each other's fields, as nothing compares `version`. The property
  says that the column would suffice to prevent all of it, which is not plain, as `deleteNode` and the
  depth updates leave it alone. `BodyFollowsState` narrows what such an overwrite can do to the text:
  only `updateNodeMeta` parts `markdownBody` from `yjs_state`, two saves do not.
* `MovesAreRigid` looks through the moves under way (`SeenPosition`): moves of a node, its parent and
  its child interleave and each subtree still shifts by the sum. A node is torn off its subtree by a
  move over a change it has not seen and by one that fails half way, in no other way, and the property
  says by how much.
* `LoggedOutIsRefused` is about access tokens that came in the header, for which an entry of the blacklist
  lives long enough. For other tokens and other ways in see below.
* The properties of `Accounts` each name their exception, and each exception is real (see below).
* `Requests` shows that the stale answer of `hasCycle` is harmless as long as only deletions
  happen meanwhile. `TwoConnectors` shows that a second connection is what breaks it.

Every property of a passing run has an experiment in which one definition is replaced by its `Bug...`
variant, a plausible slip in that code, and TLC then finds the property violated. Nothing else uses
these operators.

## Bounds

* `MaxFlights` bounds the saves of one row in flight; a flush waits for a free slot. Two are needed
  for an overtaking, three for an overtaken save between two others.
* `IdleTicks` is 3 in `Durable`, 4 in `Expiry` (the least the theorem about `RestsInDb` covers) and 2
  where only rooms and clients matter, instead of 10, and `MaxLag` 1: the properties depend only on
  whether the timeout outlasts the saves (proved for every such pair of values). Save lag is an
  assumption about the database: a save lands within `MaxLag` ticks or fails.
* One change and two readers in `Sync`: every property is about one write at a time, another change
  would only delete the key once more, and two readers are needed for an older fill that overwrites a
  newer one. The safety properties are proved for any number.
* Two updates tell "some" from "all" of a document; two sockets are the least for a join during
  another's leave or load; two documents (in `GatewayPatient`) the
  least for a disconnect that must empty both.
* Two clients and two updates in `Replicas`: one to relay, one to hear it, one update made while the
  other is on its way. Each update is made once, so connections may be made and lost without bound.
* Two requests in `NodeRows`, each served once: the properties compare what one request read with what
  another wrote meanwhile. The diamond has a node below two others and chains of length two.
* In `Accounts` two calls overlap; `MaxNow` is 3 so that an access token (2), a refresh token (3) and
  its key can end within a run, and master tokens outlive all; `MaxTokens` bounds the good tokens at
  once, and with 3 a pair is replaced by another when its access token has ended or in the second it
  was signed in (the theorems hold for any number); two mails or invitations are needed for one to
  replace the other; three attempts instead of five leave room for a count of two.
* In the graph, three nodes suffice for a cycle that is not a reversed edge; four leave room for a
  subtree to be cut and moved below another node. `EdgeIds` bounds the edges at once and `MaxDepth`
  the depths: a step that would pass the bound is not taken.
* Sockets, updates, nodes and edges are interchangeable, which the runs use as symmetry where they
  check no liveness.

Deadlock is checked for the manager and the sync cache. The gateway (every socket has gone), the graph
(every node is deleted), the replicas, the rows and the accounts (a bound is reached) may rest.

## Fairness

Weak fairness on answers (`RedisMiss`, `DbRead`, `DocLoaded`, `SaveToDb`; `Checked`, `JoinsResume` in
the gateway; `Joined`, `ClientReads`, `ServerReads` in `Replicas`, a connection that lasts delivers;
`SelectAllEdge`, `Store` and the ticks in the sync cache) and on timers that are due: the event loop
delivers them. Strong fairness on `Tick`, because the bound on saves in flight, which the code does
not have, can disable it now and then while the real interval keeps firing. Nothing is assumed of
clients: they need not edit, leave or join. The liveness runs of the manager use no `crash`: a process
that restarts for ever promises nothing. `Replicas` has crashes, and `EveryoneCatchesUp` speaks of
connections that last.

## What is proved

TLAPS checks the following for all values of the constants that satisfy the named assumptions (any
number of nodes, sockets, clients, requests, updates, saves in flight, and any timeout). Every
invariant and every action property of the passing runs is among it. In each case the invariant named
was first checked by TLC on the instance of the run.

* **The manager, under every environment** (`YjsDocManagerProofs`): `TypeOK`; `IdleIsArmed`;
  `MemoryGrows`. The invariant behind the last, `MemoryInv`, adds that a node with a load in progress is not
  in memory: a load starts only then, and nothing else puts a document there.
* **Without Redis faults and expiry, whether or not database calls fail** (`YjsDurabilityProofs`):
  `SavedInv` adds to it that what Redis holds is contained in the document in memory, that a load
  carries what Redis held or the row when it asked, and that an idle document is its Redis copy and
  what came late. From it: `IdleIsSaved`, the refinement `DurableSpec` (initial states map to initial
  states and every step to a step of the contract or a stutter, action by action: an eviction of an
  idle document is `PutAway`, which takes away what came late), and through lemmas about `DurableDocs`
  `SavedSurvives`.
* **With expiry**, without faults, crashes, stray leaves and shutdown, and if `IdleTicks >= 2 * MaxLag
  + 2` (`YjsDurabilityProofs`): the invariant follows the age of the saves in flight against the age
  of the idle timer. Saves older than the idle period land before the middle of it, those sent since
  all carry the same state up to late edits, so at eviction the row and all saves agree but for these:
  `RestsInDb`, and with it `DurableSpec` although keys expire (what an expiry takes away is a
  `Lapse`). The real values, 10 ticks and saves of seconds, satisfy the assumption by far.
* **The gateway** (`WsGatewayProofs`): every step of `WsGateway` is a step of `YjsDocManager` or
  leaves it alone (`GatewayImplementsManager`), although it lets any connected socket edit, so all of
  the above holds behind the gateway (`GatewayKeepsDocs` says so of the durability), and its proofs
  start from `MemoryInv`. `PresenceInv` says where a socket can be: clients are clients of documents
  in memory, a socket that has not connected is nowhere, and a connected client's rooms name its
  documents, a deleted node's too (which is why `RoomsMatchClients`, about living nodes, is not
  inductive). `RightsInv` carries the membership from its look-up through the waiters of a load to the
  read-only flag: `RightsAreCurrent`. `ClientsAreConnected` is proved for patient clients
  (`~Impatient`); for others it is false (`GhostClient`).
* **Replicas** (`ReplicasProofs`): `NothingStranded`, `LacksOnlyQuiet`. The state in step says nothing of
  how it was reached, so the invariant follows what is on its way: until the server's SyncStep1 has
  reached the client everything may still be asked for; from then on what the client has the server
  has or will be brought (`NothingOwed`), and the same from the server to the client except for what
  was merged without a relay (`NothingDue`). Both need that neither side mentions what it does not have.
* **The graph, one request at a time** (`GraphRequestsProofs`): `GraphTypeOK`, `Acyclic`,
  `EdgesJoinLiveNodes`, `OnePerPair`. `AddedEdgeClosesNoCycle` is the heart: a node the search has not met
  lies outside a closed set around the target, and splitting any set of nodes along it yields a source.
* **Its requests, statement by statement** (`GraphRequestsProofs`). With at most one connector,
  `Acyclic` and `OnePerPair`: between its look and its commit what a connector found still holds,
  because others only remove edges. Served one at a time, `ServedAsOne`, the refinement of `Graph`:
  `AloneInv` keeps for each statement what the request has found and written so far, and that a
  lowered or raised depth, once propagated, is what `Graph` computes in one step; a `deleteEdge` that
  fails is `DeleteEdgeFails` with the depths it has written, or nothing. `TreesStayTrees` is carried
  over that refinement by `TreeSeen`: in a forest, what is below a node is closed and shifting its
  depths keeps levels, whether a tree is linked, cut, grown or pruned; and a set of nodes lowered
  alone spoils levels across the edges with one end in it only (`TornForest`).
* **Node rows** (`NodeRowsProofs`): `VersionTells`, `BodyFollowsState` from `ReadingsAreVersions`,
  that a request which finds the version it has noted finds the content it has read. `MovesAreRigid`
  from `DeltasAreMoves`, the same for positions, and from the sums of what is pending: each action
  adds or takes one move for some rows, and these are the rows its statement writes, or, when it
  fails, those it leaves behind. That a sum over a finite set (a fold of the library) exists and does
  not depend on the order is proved by looking at a smallest set where it would not. `EdgesAreAcyclic`
  is needed: on a cycle a node would be shifted by its own move once more.
* **The sync cache** (`WorkspaceSyncProofs`): `SyncTypeOK`, `StaleAtMostTtl`, `FreshUnlessRaced`. The
  invariants follow a write from the fill that missed it, which is no older than the fill, into the
  entry, which misses nothing older than fill and entry together. `FreshUnlessRaced` is about all
  scripts that delete the key last, `saveToDb` with its swallowed rejection included.
* **Accounts** (`AccountsProofs`), each part on its own and then side by side. *Sessions*: the key
  lives as long as the latest token, tokens are signed in the past, so an entry of the blacklist made
  with their whole lifetime outlives them (`EntryOutlivesToken`, of access tokens); without a login
  there is no key, and only a refresh crossed by a logout has read one (`NoKeyWithoutLogin`):
  `LatestTokenWorks`, `LoggedOutIsRefused`, `LoggedOutStaysOut`. *E-mail codes*: while no two calls
  overlap, what a check has read is what Redis holds (`CodesInv`), and a sign-up on its way is paid
  for by a mark not yet used (`OneAtATime`): `CodeIsCurrent`, `OneUserVerified`. *Memberships*:
  invitations are numbered in their order, and a call that passed the membership check holds the
  invitation it was typed for, with no row yet unless its user races (`MembersInv`): `OneRow`,
  `JoinsAsInvited`.

Beside the types of the constants the assumptions are that an access token expires before its refresh
token and both before a master token (`LivesAreOrdered`), that requests in `NodeRows` are finitely
many, that bounds are positive, and that markers such as `Nil` are not values.

Only model-checked: everything under fairness, as liveness is out of the provers' reach
(`IdleIsFreed`, `AbandonedIsFreed`, `EditsReachDb`, `EventuallyFresh`, `EveryoneCatchesUp`), and the
three disagreements, which are counterexamples.

## Disagreements found

Each is a run TLC must fail; the counterexample is the scenario.

| run | what happens |
|---|---|
| `DeletedComesBack` | a load in progress when its node is deleted, or a later join, puts the document back into memory and Redis |
| `GhostClient` | a socket that disconnects while its join is awaited is added afterwards, and its document never leaves memory |
| `TwoConnectors` | two concurrent connections close a cycle |

Also seen, each where the property named in `PROJECT.json`'s hazards stops holding:

* What is merged into a document without clients after its last flush is dropped by `evictDoc`, which
  clears the debounce timer and does not flush. ws.gateway.ts:226 asks only whether the document is in
  memory, so such an edit may come from a socket whose join is still awaited, and an edit of any
  document in memory from one that never joined it.
* A `deleteEdge` that fails after its first UPDATE leaves lowered depths and the edge; nothing repairs
  them but deleting the torn edges. An `updateNodePosition` that fails after its first UPDATE leaves
  the subtree where it was, and a second try takes its shift from the new position, that is, moves
  nothing.
* When the DEL in `saveToDb` is rejected (yjs-crdt.service.ts:102) the save succeeds and the cached
  sync shows the older content for the rest of its 10 minutes.
* A token logged out as `?token=` is not blacklisted and stays accepted; one of the wrong kind, a
  refresh or master token, passes as a bearer and, logged out, is accepted again 15 minutes later; the
  WebSocket handshake never looks at the blacklist.
* The comment at edge.service.ts:109 (`//Target노드가 부모 노드임`, "the target node is the parent") is at
  odds with the code below it, which raises the depth of the target and its subtree by the source's
  depth and one: the source is the parent, as it is in `Graph`.
* A repeated leave arms a second idle timer, and the forgotten first one evicts a later idle document
  before its timeout. Nothing is lost, but the row may stay behind Redis, so `RestsInDb` and
  `EditsReachDb` fail once `stray` and `expire` come together.
* An edit merged during `onModuleDestroy`'s await is cleared unsaved. (`main.ts` enables no shutdown
  hooks, so the method runs only where the application is closed by a call.)
* With Redis faults a failed SET beside a successful UPDATE makes the next load bring back the older
  state.
* A connection overlapping a deletion leaves an edge to a deleted node; two concurrent deletions of one
  edge lower the depths twice; identical concurrent connections double the edge.
* README.md:147 says changes are broadcast to the node's room. What a SyncStep2 brings (edits made
  offline) is not; the others see it when they synchronise again. The comment at ws.gateway.ts:255 says a
  viewer's update is blocked; it has been merged into the server's document by then, and one that comes
  before the viewer's join is served is relayed too.
* README.md speaks of optimistic concurrency by `version`; nothing compares it, so concurrent writes of
  `content` overwrite each other's fields. When a descendant is deleted during `updateNodeMeta`, the
  remaining ones keep their colour.
* A refresh that read the stored token before a logout deleted it stores a new one after: the user is
  logged in again. Of two refreshes with one token both succeed, and only the last one's result works.
  A login in the second of a logout gets the very access token that has been blacklisted.
* A wrong answer to a code that expired while it was being checked writes it back with `KEEPTTL`,
  that is for ever; one that overlaps a new mail brings the old code back; overlapping ones count once.
* Inviting a second person to a workspace replaces the first invitation. A user who joins in two tabs
  at once gets two rows. A socket refused before its user joined stays refused.
* yjs-ws-awareness.service.ts:8 speaks of the current presence for late joiners; the key holds the
  message of the last sender only.
* A source may get several outgoing edges: the check is commented out in `edge.service.ts`, its unit test
  remains.

## Not modelled

Permissions of REST requests beyond the workspace membership, passwords, and the validation of request
bodies. Cursors, live positions and awareness, which the gateway relays without keeping them; the
presence cache (`YjsWsAwarenessService`), one key of 30 s that only a late joiner reads. The doubled
bootstrap of a row without `yjs_state`: an update here has no author, so that two bootstraps of a row
are one. Several server processes (the code keeps documents in one process and would need a shared
lock to run in more). Upload signs URLs, and common code formats and logs: neither has state a model
would show. The AI chat is described in the repository's README but its source is not there.

## Plan

What remains, in this order:

1. The search of `hasCycle` and the recursive query as loops over a queue, shown to end with `Reaches` and
   `Descendants`: their invariants are first-order, as the smallest-set argument of the sums is.
2. Updates with authors in `Replicas`, for the doubled bootstrap; presence.
3. What the proofs of the gateway leave open: how far `ClientsAreConnected` holds for impatient
   clients, that is, which sockets can become ghosts.
