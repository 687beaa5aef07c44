--------------------------- MODULE GraphRequests ---------------------------
(***************************************************************************)
(* The requests of Graph served concurrently, a few statements a step.     *)
(*                                                                         *)
(* connectNodes and deleteNode are transactions at Postgres' default level *)
(* READ COMMITTED: a statement sees what is committed when it runs, an     *)
(* UPDATE or DELETE waits for the transaction that wrote the row, and a    *)
(* transaction may be rolled back (a deadlock victim, Prisma's timeout).   *)
(* What it writes is kept aside (written, dropping) until it commits.      *)
(* deleteEdge is no transaction: each of its statements commits.           *)
(*                                                                         *)
(* Statements that follow each other and read the same table are one step. *)
(* Where depths are followed, requests are served one at a time.           *)
(***************************************************************************)
EXTENDS Graph

CONSTANTS
    Requests,    \* bound: requests served at once
    Connectors,  \* those that may be a connectNodes
    None         \* no node, no edge

ASSUME ConnectorsAreRequests == Connectors \subseteq Requests
ASSUME NoneIsFresh == None \notin Nodes /\ None \notin Edge

VARIABLES
    op,        \* the operation of a request, or "none"
    at,        \* the step it takes next
    source,    \* connectNodes: sourceId
    target,    \* connectNodes, deleteEdge: the target; deleteNode: the node
    edge,      \* deleteEdge: the edge
    amount,    \* propagateDepth: what it adds
    rows,      \* propagateDepth: descendantIds
    written,   \* node rows the request has updated
    dropping   \* edge rows deleteNode has deleted

locals == <<source, target, edge, amount, rows, written, dropping>>
rvars == <<graph, op, at, locals>>

RequestsTypeOK ==
    /\ GraphTypeOK
    /\ op \in [Requests -> {"none", "connect", "deleteEdge", "deleteNode"}]
    /\ at \in [Requests -> {"start", "nodes", "edges", "raise", "descend",
                            "rows", "drop", "mark", "commit"}]
    /\ source \in [Requests -> Nodes \cup {None}]
    /\ target \in [Requests -> Nodes \cup {None}]
    /\ edge \in [Requests -> Edge \cup {None}]
    /\ amount \in [Requests -> Int]
    /\ rows \in [Requests -> SUBSET Nodes]
    /\ written \in [Requests -> SUBSET Nodes]
    /\ dropping \in [Requests -> SUBSET Edge]
    /\ \A r \in Requests : op[r] = "connect" => source[r] \in Nodes
    /\ \A r \in Requests : at[r] # "start" => op[r] # "none" /\ target[r] \in Nodes
    /\ \A r \in Requests : op[r] = "deleteNode" => target[r] \in created

RequestsInit ==
    /\ GraphInit
    /\ op = [r \in Requests |-> "none"]
    /\ at = [r \in Requests |-> "start"]
    /\ source = [r \in Requests |-> None]
    /\ target = [r \in Requests |-> None]
    /\ edge = [r \in Requests |-> None]
    /\ amount = [r \in Requests |-> 0]
    /\ rows = [r \in Requests |-> {}]
    /\ written = [r \in Requests |-> {}]
    /\ dropping = [r \in Requests |-> {}]

-----------------------------------------------------------------------------
Transaction(r) == op[r] \in {"connect", "deleteNode"}

(* Rows no other transaction holds.                                        *)
Free(r, N) == \A q \in Requests \ {r} : Transaction(q) => written[q] \cap N = {}
FreeEdges(r, E) == \A q \in Requests \ {r} : dropping[q] \cap E = {}

(* Request r may start.                                                    *)
Idle(r) == op[r] = "none" /\ (tracked => \A q \in Requests : op[q] = "none")

Is(r, o, step) == op[r] = o /\ at[r] = step
Goto(r, step) == at' = [at EXCEPT ![r] = step]

(* The request is answered or throws.                                      *)
Done(r) ==
    /\ op' = [op EXCEPT ![r] = "none"]
    /\ at' = [at EXCEPT ![r] = "start"]
    /\ source' = [source EXCEPT ![r] = None]
    /\ target' = [target EXCEPT ![r] = None]
    /\ edge' = [edge EXCEPT ![r] = None]
    /\ amount' = [amount EXCEPT ![r] = 0]
    /\ rows' = [rows EXCEPT ![r] = {}]
    /\ written' = [written EXCEPT ![r] = {}]
    /\ dropping' = [dropping EXCEPT ![r] = {}]

Refuse(r) == Done(r) /\ UNCHANGED graph

(* Depths with amount[r] added to the rows r has written: a transaction's  *)
(* increments show when it commits, on top of what others have committed.  *)
Raised(r, N) == [n \in Nodes |-> IF n \in N THEN Plus(depth[n], amount[r]) ELSE depth[n]]
InBounds(r, N) == \A n \in N : Plus(depth[n], amount[r]) \in Depths

-----------------------------------------------------------------------------
(* connectNodes.                                                           *)

AskConnect(r, s, t) ==
    /\ r \in Connectors /\ Idle(r)
    /\ s # t
    /\ op' = [op EXCEPT ![r] = "connect"]
    /\ Goto(r, "nodes")
    /\ source' = [source EXCEPT ![r] = s]
    /\ target' = [target EXCEPT ![r] = t]
    /\ UNCHANGED <<graph, edge, amount, rows, written, dropping>>

(* Both nodes are looked up; the depth of the source is used later on.     *)
ReadNodes(r) ==
    /\ Is(r, "connect", "nodes")
    /\ IF Exists(source[r]) /\ Exists(target[r]) /\ target[r] \notin Projects
       THEN /\ amount' = [amount EXCEPT ![r] = Plus(depth[source[r]], 1)]
            /\ Goto(r, "edges")
            /\ UNCHANGED <<graph, op, source, target, edge, rows, written, dropping>>
       ELSE Refuse(r)

BugNoSearch(r) == NotConnected(source[r], target[r])

Connectable(r) ==
    /\ NotConnected(source[r], target[r])
    /\ ~HasCycle(source[r], target[r], edges)

(* findEdge both ways, findAllEdgesInWorkspace, hasCycle.                  *)
ReadEdges(r) ==
    /\ Is(r, "connect", "edges")
    /\ IF Connectable(r) THEN Goto(r, "raise") /\ UNCHANGED <<graph, op, locals>>
                         ELSE Refuse(r)

(* createEdge, the Redis DEL, the broadcast and the COMMIT.                *)
CommitConnect(r) ==
    /\ Is(r, "connect", "commit")
    /\ InBounds(r, written[r])
    /\ depth' = Raised(r, written[r])
    /\ \E i \in EdgeIds :
          /\ \A e \in edges : e.id # i
          /\ \A q \in Requests : edge[q] # None => edge[q].id # i
          /\ edges' = edges \cup {[id |-> i, source |-> source[r], target |-> target[r]]}
    /\ treelike' = (treelike /\ Parentless(target[r]))
    /\ UNCHANGED <<created, removed, tracked, torn>>
    /\ Done(r)

-----------------------------------------------------------------------------
(* propagateDepth, within connectNodes or deleteEdge.  The recursive query *)
(* below the target ends only if no cycle can be reached.                  *)

QueryEnds(t) == \A n \in Descendants(edges, t) : n \notin Descendants(edges, n)

Write(r, N) ==
    /\ Free(r, N)
    /\ InBounds(r, N)
    /\ written' = [written EXCEPT ![r] = @ \cup N]
    /\ depth' = IF Transaction(r) THEN depth ELSE Raised(r, N)
    /\ UNCHANGED <<created, removed, edges, tracked, treelike, torn>>
    /\ UNCHANGED <<op, source, target, edge, amount, dropping>>

RaiseTarget(r) ==
    /\ at[r] = "raise"
    /\ Write(r, {target[r]})
    /\ Goto(r, "descend")
    /\ UNCHANGED rows

ReadDescendants(r) ==
    /\ at[r] = "descend"
    /\ QueryEnds(target[r])
    /\ rows' = [rows EXCEPT ![r] = Descendants(edges, target[r])]
    /\ Goto(r, "rows")
    /\ UNCHANGED <<graph, op, source, target, edge, amount, written, dropping>>

RaiseDescendants(r) ==
    /\ at[r] = "rows"
    /\ Write(r, rows[r] \ removed)
    /\ Goto(r, IF op[r] = "connect" THEN "commit" ELSE "drop")
    /\ rows' = [rows EXCEPT ![r] = {}]

-----------------------------------------------------------------------------
(* deleteEdge.                                                             *)

AskDeleteEdge(r, e) ==
    /\ Idle(r)
    /\ e \in edges
    /\ op' = [op EXCEPT ![r] = "deleteEdge"]
    /\ Goto(r, "nodes")
    /\ target' = [target EXCEPT ![r] = e.target]
    /\ edge' = [edge EXCEPT ![r] = e]
    /\ UNCHANGED <<graph, source, amount, rows, written, dropping>>

(* The target is looked up; if it is gone, source! throws.                 *)
ReadTarget(r) ==
    /\ Is(r, "deleteEdge", "nodes")
    /\ IF Exists(target[r])
       THEN /\ amount' = [amount EXCEPT ![r] = Lowering(target[r])]
            /\ Goto(r, "raise")
            /\ UNCHANGED <<graph, op, source, target, edge, rows, written, dropping>>
       ELSE Refuse(r)

(* The row is deleted, or found missing (the request fails then).          *)
DropEdge(r) ==
    /\ Is(r, "deleteEdge", "drop")
    /\ FreeEdges(r, {edge[r]})
    /\ edges' = edges \ {edge[r]}
    /\ torn' = torn \ {edge[r]}
    /\ UNCHANGED <<created, removed, depth, tracked, treelike>>
    /\ Done(r)

(* A statement of deleteEdge fails, or the server stops: the request ends, *)
(* and what its earlier statements have committed stays.                   *)
Throw(r) ==
    /\ op[r] = "deleteEdge"
    /\ torn' = TornAt(written[r])
    /\ UNCHANGED <<created, removed, edges, depth, tracked, treelike>>
    /\ Done(r)

-----------------------------------------------------------------------------
(* deleteNode.                                                             *)

AskDeleteNode(r, n) ==
    /\ Idle(r)
    /\ Exists(n)
    /\ op' = [op EXCEPT ![r] = "deleteNode"]
    /\ Goto(r, "drop")
    /\ target' = [target EXCEPT ![r] = n]
    /\ UNCHANGED <<graph, source, edge, amount, rows, written, dropping>>

DropIncident(r) ==
    /\ Is(r, "deleteNode", "drop")
    /\ FreeEdges(r, Incident(target[r]))
    /\ dropping' = [dropping EXCEPT ![r] = Incident(target[r])]
    /\ Goto(r, "mark")
    /\ UNCHANGED <<graph, op, source, target, edge, amount, rows, written>>

Mark(r) ==
    /\ Is(r, "deleteNode", "mark")
    /\ Free(r, {target[r]})
    /\ written' = [written EXCEPT ![r] = {target[r]}]
    /\ Goto(r, "commit")
    /\ UNCHANGED <<graph, op, source, target, edge, amount, rows, dropping>>

BugKeepsEdges(r) == {}

Dropped(r) == dropping[r]

(* The Redis DEL, the broadcast and the COMMIT.                            *)
CommitDelete(r) ==
    /\ Is(r, "deleteNode", "commit")
    /\ edges' = edges \ Dropped(r)
    /\ removed' = removed \cup {target[r]}
    /\ treelike' = (treelike /\ Childless(target[r]))
    /\ torn' = torn \ Dropped(r)
    /\ UNCHANGED <<created, depth, tracked>>
    /\ Done(r)

(* A transaction is rolled back.                                           *)
Abort(r) == Transaction(r) /\ Refuse(r)

-----------------------------------------------------------------------------
Insert(n) == CreateNode(n) /\ UNCHANGED <<op, at, locals>>

RequestsNext ==
    \/ \E n \in Nodes : Insert(n)
    \/ \E r \in Requests :
          \/ \E s, t \in Nodes : AskConnect(r, s, t)
          \/ \E e \in edges : AskDeleteEdge(r, e)
          \/ \E n \in Nodes : AskDeleteNode(r, n)
          \/ ReadNodes(r) \/ ReadEdges(r) \/ CommitConnect(r)
          \/ RaiseTarget(r) \/ ReadDescendants(r) \/ RaiseDescendants(r)
          \/ ReadTarget(r) \/ DropEdge(r) \/ Throw(r)
          \/ DropIncident(r) \/ Mark(r) \/ CommitDelete(r)
          \/ Abort(r)

RequestsSpec == RequestsInit /\ [][RequestsNext]_rvars

-----------------------------------------------------------------------------
(* The depths deleteEdge has written count once it has deleted its edge or *)
(* failed.                                                                 *)
SeenDepth ==
    [n \in Nodes |->
        LET D == {r \in Requests : op[r] = "deleteEdge" /\ n \in written[r]}
        IN  IF D = {} THEN depth[n] ELSE depth[n] - amount[CHOOSE r \in D : TRUE]]

Serial == INSTANCE Graph WITH depth <- SeenDepth

(* Served alone, a request does what Graph says it does in one step, or    *)
(* nothing, whatever it finds and wherever it fails: the transactions are  *)
(* all or nothing, and deleteEdge, which is none, leaves at worst the      *)
(* depths of its target or of the whole subtree lowered and the edge in    *)
(* place (Graph's DeleteEdgeFails).                                        *)
ServedAsOne ==
    Serial!GraphInit /\ [][tracked => Serial!GraphNext]_(Serial!graph)

(* Served alone, no request leaves an edge to a node that is gone, and as  *)
(* long as clients build trees each depth is the level in the tree, but    *)
(* across the edges that a deleteEdge that failed has torn and nobody has  *)
(* deleted since.                                                          *)
TreesStayTrees == tracked => Serial!LevelsMatch /\ Serial!EdgesJoinLiveNodes

=============================================================================
