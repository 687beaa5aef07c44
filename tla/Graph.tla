------------------------------- MODULE Graph -------------------------------
(***************************************************************************)
(* The node graph of one workspace: NodeService and EdgeService            *)
(* (src/src/node/node.service.ts, src/src/edge/edge.service.ts) over the   *)
(* nodes and edges tables, each request served from its first query to its *)
(* commit before the next one starts.  GraphRequests has the same requests *)
(* statement by statement.                                                 *)
(*                                                                         *)
(* Callers may edit the workspace.  Deleting a node sets deleted_at;       *)
(* deleting an edge deletes its row.                                       *)
(***************************************************************************)
EXTENDS Integers, FiniteSets

CONSTANTS
    Nodes,     \* node ids
    Projects,  \* nodes of type PROJECT
    EdgeIds,   \* bound: edges that exist at once
    MaxDepth   \* bound on the depth of a node, either way

ASSUME ProjectsAreNodes == Projects \subseteq Nodes
ASSUME DepthBound == MaxDepth \in Nat

Depths == -MaxDepth .. MaxDepth
Edge == [id : EdgeIds, source : Nodes, target : Nodes]

VARIABLES
    created,  \* nodes with a row
    removed,  \* nodes whose row has deleted_at set
    edges,    \* the edges table
    depth,    \* nodes.depth
    tracked,  \* are depths followed?  Where only edges matter all stay 0
    treelike, \* have clients built trees so far: given a node one parent at
              \* most, and deleted only nodes without children?
    torn      \* edges that a deleteEdge that failed has come between, by
              \* lowering the depth of one end and not of the other

graph == <<created, removed, edges, depth, tracked, treelike, torn>>

GraphTypeOK ==
    /\ created \subseteq Nodes
    /\ removed \subseteq created
    /\ edges \subseteq Edge
    /\ depth \in [Nodes -> Depths]
    /\ tracked \in BOOLEAN /\ treelike \in BOOLEAN
    /\ torn \subseteq edges

GraphInit ==
    /\ created = {}
    /\ removed = {}
    /\ edges = {}
    /\ depth = [n \in Nodes |-> 0]
    /\ tracked \in BOOLEAN
    /\ treelike = tracked
    /\ torn = {}

-----------------------------------------------------------------------------
(* selectNodeById finds the node.                                          *)
Alive == created \ removed

BugNotLookedUp(n) == TRUE
Exists(n) == n \in Alive

Closed(E, S) == \A e \in E : e.source \in S => e.target \in S

(* The nodes a walk along the edges E meets from node n on, n included.    *)
Reaches(E, n) ==
    {m \in Nodes : \A S \in SUBSET Nodes : n \in S /\ Closed(E, S) => m \in S}

(* hasCycle: s is met by the search that starts at t.                      *)
HasCycle(s, t, E) == s \in Reaches(E, t)

(* selectAllDescendantIds.                                                 *)
Descendants(E, n) == UNION {Reaches(E, e.target) : e \in {d \in E : d.source = n}}

BugNoEdgeCheck(s, t) == TRUE

(* findEdge finds none, in this direction or in the other one.             *)
NotConnected(s, t) == \A e \in edges : {e.source, e.target} # {s, t}

Plus(d, k) == IF tracked THEN d + k ELSE d

Deepen(N, k) ==
    /\ \A n \in N : Plus(depth[n], k) \in Depths
    /\ depth' = [n \in Nodes |-> IF n \in N THEN Plus(depth[n], k) ELSE depth[n]]

(* propagateDepth moves node t and all below it by k.                      *)
Moved(t) == {t} \cup (Descendants(edges, t) \ removed)
PropagateDepth(t, k) == Deepen(Moved(t), k)

(* The edges with one end in N.                                            *)
Crossing(N) == {e \in edges : (e.source \in N) # (e.target \in N)}

(* Edges torn once the depths in N have changed and the edges have not.    *)
TornAt(N) == IF tracked THEN torn \cup Crossing(N) ELSE torn

Parentless(n) == \A e \in edges : e.target # n
Childless(n) == \A e \in edges : e.source # n

(* deleteEdgesByNodeId.                                                    *)
Incident(n) == {e \in edges : n \in {e.source, e.target}}

-----------------------------------------------------------------------------
CreateNode(n) ==
    /\ n \notin created
    /\ created' = created \cup {n}
    /\ depth' = [depth EXCEPT ![n] = 0]
    /\ UNCHANGED <<removed, edges, tracked, treelike, torn>>

(* A request to make s the parent of t, where the checks let it pass.      *)
ConnectNodes(s, t) ==
    /\ s # t
    /\ Exists(s) /\ Exists(t)
    /\ t \notin Projects
    /\ NotConnected(s, t)
    /\ ~HasCycle(s, t, edges)
    /\ PropagateDepth(t, Plus(depth[s], 1))
    /\ \E i \in EdgeIds :
          /\ \A e \in edges : e.id # i
          /\ edges' = edges \cup {[id |-> i, source |-> s, target |-> t]}
    /\ treelike' = (treelike /\ Parentless(t))
    /\ UNCHANGED <<created, removed, tracked, torn>>

BugOneLevel(t) == -1

(* deleteEdge takes the target's whole depth off its subtree.              *)
Lowering(t) == -depth[t]

(* An edge to a node that is gone cannot be deleted: source! is null.      *)
DeleteEdge(e) ==
    /\ e \in edges
    /\ Exists(e.target)
    /\ PropagateDepth(e.target, Lowering(e.target))
    /\ edges' = edges \ {e}
    /\ torn' = torn \ {e}
    /\ UNCHANGED <<created, removed, tracked, treelike>>

(* deleteEdge is no transaction.  If it fails before its last statement,   *)
(* the depths it has lowered, those of the target or of all its subtree,   *)
(* stay lowered, and the edge stays.                                       *)
DeleteEdgeFails(e) ==
    /\ e \in edges
    /\ Exists(e.target)
    /\ \E N \in {{e.target}, Moved(e.target)} :
          Deepen(N, Lowering(e.target)) /\ torn' = TornAt(N)
    /\ UNCHANGED <<created, removed, edges, tracked, treelike>>

(* The children of a deleted node keep their depth.                        *)
DeleteNode(n) ==
    /\ Exists(n)
    /\ edges' = edges \ Incident(n)
    /\ removed' = removed \cup {n}
    /\ treelike' = (treelike /\ Childless(n))
    /\ torn' = torn \ Incident(n)
    /\ UNCHANGED <<created, depth, tracked>>

GraphNext ==
    \/ \E n \in Nodes : CreateNode(n)
    \/ \E s, t \in Nodes : ConnectNodes(s, t)
    \/ \E e \in edges : DeleteEdge(e) \/ DeleteEdgeFails(e)
    \/ \E n \in Nodes : DeleteNode(n)

GraphSpec == GraphInit /\ [][GraphNext]_graph

-----------------------------------------------------------------------------
(* The graph has no cycle: every set of nodes has one that no edge enters  *)
(* from within the set.  selectAllDescendantIds is a UNION ALL recursion   *)
(* that ends only on such a graph, and connectNodes refuses the edge that  *)
(* would close a cycle.                                                    *)
Acyclic ==
    \A S \in (SUBSET Nodes) \ {{}} :
        \E n \in S : \A e \in edges : e.target = n => e.source \notin S

(* Every edge joins two nodes that are there: connectNodes looks both up   *)
(* and deleteNode takes a node's edges with it.                            *)
EdgesJoinLiveNodes == \A e \in edges : {e.source, e.target} \subseteq Alive

(* Two nodes are joined by one edge at most, counting both directions.     *)
OnePerPair ==
    \A d, e \in edges : {d.source, d.target} = {e.source, e.target} => d = e

(* As long as clients build trees, depth is the level in the tree: a node  *)
(* without a parent is at 0 and a child one below its parent, through any  *)
(* sequence of connecting, cutting off and reconnecting subtrees.  Where a *)
(* deleteEdge has failed half way depths are wrong across the edges it has *)
(* torn and across no other, and deleting such an edge mends it.           *)
LevelsMatch ==
    treelike => \A t \in Alive :
        /\ Parentless(t) => depth[t] = 0
        /\ \A e \in edges \ torn : e.target = t => depth[t] = depth[e.source] + 1

=============================================================================
