------------------------ MODULE GraphRequestsProofs ------------------------
(* Theorems about Graph and GraphRequests and their proofs.                *)
EXTENDS GraphRequests, TLAPS

-----------------------------------------------------------------------------
(***************************************************************************)
(* The graph served one request at a time stays a simple acyclic graph on  *)
(* the nodes that are there, for every set of nodes, projects, edge ids    *)
(* and however deep.                                                       *)
(***************************************************************************)

(* What the search has met is closed, so a node it has not met is outside  *)
(* some closed set around its start.                                       *)
LEMMA UnmetIsOutside ==
    ASSUME NEW E, NEW n \in Nodes, NEW m \in Nodes, m \notin Reaches(E, n)
    PROVE  \E S \in SUBSET Nodes : n \in S /\ m \notin S /\ Closed(E, S)
BY DEF Reaches

(* The columns of the tables keep their types in every request.            *)
THEOREM GraphTypes == GraphSpec => []GraphTypeOK
<1>1. GraphInit => GraphTypeOK
  BY DepthBound DEF GraphInit, GraphTypeOK, Depths
<1>2. GraphTypeOK /\ [GraphNext]_graph => GraphTypeOK'
  <2> SUFFICES ASSUME GraphTypeOK, [GraphNext]_graph
               PROVE  GraphTypeOK'
    OBVIOUS
  <2>1. ASSUME NEW n \in Nodes, CreateNode(n) PROVE GraphTypeOK'
    BY <2>1, DepthBound DEF CreateNode, GraphTypeOK, Depths
  <2>2. ASSUME NEW s \in Nodes, NEW t \in Nodes, ConnectNodes(s, t) PROVE GraphTypeOK'
    <3>1. edges' \subseteq Edge
      BY <2>2 DEF ConnectNodes, GraphTypeOK, Edge
    <3>2. depth' \in [Nodes -> Depths]
      BY <2>2 DEF ConnectNodes, PropagateDepth, Deepen, GraphTypeOK
    <3> QED BY <2>2, <3>1, <3>2 DEF ConnectNodes, GraphTypeOK
  <2>3. ASSUME NEW e \in edges, DeleteEdge(e) PROVE GraphTypeOK'
    <3>1. depth' \in [Nodes -> Depths]
      BY <2>3 DEF DeleteEdge, PropagateDepth, Deepen, GraphTypeOK
    <3> QED BY <2>3, <3>1 DEF DeleteEdge, GraphTypeOK
  <2>6. ASSUME NEW e \in edges, DeleteEdgeFails(e) PROVE GraphTypeOK'
    <3>1. depth' \in [Nodes -> Depths] /\ torn' \subseteq edges
      BY <2>6 DEF DeleteEdgeFails, Deepen, TornAt, Crossing, GraphTypeOK
    <3> QED BY <2>6, <3>1 DEF DeleteEdgeFails, GraphTypeOK
  <2>4. ASSUME NEW n \in Nodes, DeleteNode(n) PROVE GraphTypeOK'
    BY <2>4 DEF DeleteNode, GraphTypeOK, Exists, Alive
  <2>5. CASE UNCHANGED graph
    BY <2>5 DEF graph, GraphTypeOK
  <2> QED BY <2>1, <2>2, <2>3, <2>4, <2>5, <2>6 DEF GraphNext
<1> QED BY <1>1, <1>2, PTL DEF GraphSpec

(* An edge whose source the search from its target does not meet closes no *)
(* cycle.  C is closed under the old edges, has t and not s: within S a    *)
(* node outside C, if there is one, serves as the source of the whole set, *)
(* since nothing comes out of C.                                           *)
LEMMA AddedEdgeClosesNoCycle ==
    ASSUME Acyclic, NEW s \in Nodes, NEW t \in Nodes, ~HasCycle(s, t, edges),
           \A e \in edges' : e \in edges \/ (e.source = s /\ e.target = t)
    PROVE  Acyclic'
<1>1. PICK C \in SUBSET Nodes : t \in C /\ s \notin C /\ Closed(edges, C)
  BY UnmetIsOutside DEF HasCycle
<1>2. \A e \in edges' : e \in edges \/ (e.source = s /\ e.target = t)
  OBVIOUS
<1> SUFFICES ASSUME NEW S \in (SUBSET Nodes) \ {{}}
             PROVE  \E n \in S : \A e \in edges' : e.target = n => e.source \notin S
  BY DEF Acyclic
<1>3. CASE S \subseteq C
  <2>1. PICK n \in S : \A e \in edges : e.target = n => e.source \notin S
    BY DEF Acyclic
  <2> QED BY <1>1, <1>2, <1>3, <2>1
<1>4. CASE ~(S \subseteq C)
  <2>1. S \ C \in (SUBSET Nodes) \ {{}}
    BY <1>4
  <2>2. PICK n \in S \ C : \A e \in edges : e.target = n => e.source \notin S \ C
    BY <2>1 DEF Acyclic
  <2>3. \A e \in edges : e.target = n => e.source \notin C
    BY <1>1, <2>2 DEF Closed
  <2> QED BY <1>1, <1>2, <2>2, <2>3
<1> QED BY <1>3, <1>4

(* No sequence of requests builds a cycle, so the recursive query that     *)
(* collects the nodes below a node always ends.                            *)
THEOREM GraphStaysAcyclic == GraphSpec => []Acyclic
<1>1. GraphInit => Acyclic
  BY DEF GraphInit, Acyclic
<1>2. Acyclic /\ [GraphNext]_graph => Acyclic'
  <2> SUFFICES ASSUME Acyclic, [GraphNext]_graph
               PROVE  Acyclic'
    OBVIOUS
  <2>1. ASSUME NEW s \in Nodes, NEW t \in Nodes, ConnectNodes(s, t) PROVE Acyclic'
    <3>1. \A e \in edges' : e \in edges \/ (e.source = s /\ e.target = t)
      BY <2>1 DEF ConnectNodes
    <3> QED BY <2>1, <3>1, AddedEdgeClosesNoCycle DEF ConnectNodes
  <2>2. CASE edges' \subseteq edges
    BY <2>2 DEF Acyclic
  <2>3. ASSUME NEW n \in Nodes, CreateNode(n) PROVE edges' \subseteq edges
    BY <2>3 DEF CreateNode
  <2>4. ASSUME NEW e \in edges, DeleteEdge(e) PROVE edges' \subseteq edges
    BY <2>4 DEF DeleteEdge
  <2>7. ASSUME NEW e \in edges, DeleteEdgeFails(e) PROVE edges' \subseteq edges
    BY <2>7 DEF DeleteEdgeFails
  <2>5. ASSUME NEW n \in Nodes, DeleteNode(n) PROVE edges' \subseteq edges
    BY <2>5 DEF DeleteNode
  <2>6. CASE UNCHANGED graph
    BY <2>6, <2>2 DEF graph
  <2> QED BY <2>1, <2>2, <2>3, <2>4, <2>5, <2>6, <2>7 DEF GraphNext
<1> QED BY <1>1, <1>2, PTL DEF GraphSpec

(* No edge is left behind by the deletion of a node, or added to one.      *)
THEOREM NoEdgeDangles == GraphSpec => []EdgesJoinLiveNodes
<1>1. GraphInit => EdgesJoinLiveNodes
  BY DEF GraphInit, EdgesJoinLiveNodes
<1>2. EdgesJoinLiveNodes /\ [GraphNext]_graph => EdgesJoinLiveNodes'
  <2> SUFFICES ASSUME EdgesJoinLiveNodes, [GraphNext]_graph
               PROVE  EdgesJoinLiveNodes'
    OBVIOUS
  <2>1. ASSUME NEW n \in Nodes, CreateNode(n) PROVE EdgesJoinLiveNodes'
    BY <2>1 DEF CreateNode, EdgesJoinLiveNodes, Alive
  <2>2. ASSUME NEW s \in Nodes, NEW t \in Nodes, ConnectNodes(s, t)
        PROVE  EdgesJoinLiveNodes'
    BY <2>2 DEF ConnectNodes, EdgesJoinLiveNodes, Exists, Alive
  <2>3. ASSUME NEW e \in edges, DeleteEdge(e) PROVE EdgesJoinLiveNodes'
    BY <2>3 DEF DeleteEdge, EdgesJoinLiveNodes, Alive
  <2>6. ASSUME NEW e \in edges, DeleteEdgeFails(e) PROVE EdgesJoinLiveNodes'
    BY <2>6 DEF DeleteEdgeFails, EdgesJoinLiveNodes, Alive
  <2>4. ASSUME NEW n \in Nodes, DeleteNode(n) PROVE EdgesJoinLiveNodes'
    BY <2>4 DEF DeleteNode, EdgesJoinLiveNodes, Incident, Alive
  <2>5. CASE UNCHANGED graph
    BY <2>5 DEF graph, EdgesJoinLiveNodes, Alive
  <2> QED BY <2>1, <2>2, <2>3, <2>4, <2>5, <2>6 DEF GraphNext
<1> QED BY <1>1, <1>2, PTL DEF GraphSpec

(* The lookups of connectNodes leave two nodes joined by one edge at most. *)
THEOREM EdgesAreSimple == GraphSpec => []OnePerPair
<1>1. GraphInit => OnePerPair
  BY DEF GraphInit, OnePerPair
<1>2. OnePerPair /\ [GraphNext]_graph => OnePerPair'
  <2> SUFFICES ASSUME OnePerPair, [GraphNext]_graph
               PROVE  OnePerPair'
    OBVIOUS
  <2>1. ASSUME NEW s \in Nodes, NEW t \in Nodes, ConnectNodes(s, t) PROVE OnePerPair'
    BY <2>1 DEF ConnectNodes, NotConnected, OnePerPair
  <2>2. CASE edges' \subseteq edges
    BY <2>2 DEF OnePerPair
  <2> QED BY <2>1, <2>2 DEF GraphNext, CreateNode, DeleteEdge, DeleteEdgeFails, DeleteNode, graph
<1> QED BY <1>1, <1>2, PTL DEF GraphSpec

-----------------------------------------------------------------------------
(***************************************************************************)
(* With one connectNodes at a time the graph stays acyclic statement by    *)
(* statement, whatever deletions, insertions and rollbacks are served at   *)
(* the same time, for every set of nodes, edges and requests.              *)
(*                                                                         *)
(* Between the search and the commit only deletions change the edges, and  *)
(* fewer edges reach fewer nodes: the answer of hasCycle is stale when it  *)
(* is used, but on the safe side.  A second connector would break this.    *)
(***************************************************************************)

(* The steps of connectNodes after the search has found no cycle.          *)
Searched(r) == op[r] = "connect" /\ at[r] \in {"raise", "descend", "rows", "commit"}

ConnectorsSearched ==
    \A r \in Requests :
        /\ op[r] = "connect" => r \in Connectors
        /\ Searched(r) => ~HasCycle(source[r], target[r], edges)

(* With fewer edges a search meets fewer nodes.                            *)
LEMMA FewerEdgesReachLess ==
    ASSUME NEW E, NEW D \in SUBSET E, NEW s, NEW t, ~HasCycle(s, t, E)
    PROVE  ~HasCycle(s, t, D)
BY DEF HasCycle, Reaches, Closed

(* An answered request leaves the types of the requests' variables alone.  *)
LEMMA DoneTypes ==
    ASSUME RequestsTypeOK, NEW r \in Requests, Done(r), GraphTypeOK', created \subseteq created'
    PROVE  RequestsTypeOK'
BY DEF RequestsTypeOK, Done

LEMMA GraphKept == GraphTypeOK /\ UNCHANGED graph => GraphTypeOK' /\ created' = created
BY DEF GraphTypeOK, graph

LEMMA RefuseTypes ==
    ASSUME RequestsTypeOK, NEW r \in Requests, Refuse(r)
    PROVE  RequestsTypeOK'
BY GraphKept, DoneTypes DEF Refuse, RequestsTypeOK

LEMMA DescendantsAreNodes == \A E : \A n : Descendants(E, n) \subseteq Nodes
BY DEF Descendants, Reaches

LEMMA PlusOneIsInt == ASSUME NEW d \in Depths PROVE Plus(d, 1) \in Int
BY DepthBound DEF Plus, Depths

LEMMA LoweringIsInt ==
    ASSUME NEW n, depth[n] \in Depths PROVE Lowering(n) \in Int
BY DepthBound DEF Lowering, Depths

(* Raising rows within the bounds keeps depth a function into Depths.      *)
LEMMA RaisedTypes ==
    ASSUME RequestsTypeOK, NEW r \in Requests, NEW N, InBounds(r, N)
    PROVE  Raised(r, N) \in [Nodes -> Depths]
BY DEF RequestsTypeOK, GraphTypeOK, Raised, InBounds

(* The steps of connectNodes.                                              *)
LEMMA ConnectTypes ==
    ASSUME RequestsTypeOK, NEW r \in Requests,
           \/ \E s, t \in Nodes : AskConnect(r, s, t)
           \/ ReadNodes(r) \/ ReadEdges(r) \/ CommitConnect(r)
    PROVE  RequestsTypeOK'
<1>1. ASSUME NEW s \in Nodes, NEW t \in Nodes, AskConnect(r, s, t)
      PROVE  RequestsTypeOK'
  BY <1>1, GraphKept DEF AskConnect, Goto, RequestsTypeOK
<1>2. CASE Refuse(r)
  BY <1>2, RefuseTypes
<1>3. CASE ReadNodes(r) /\ ~Refuse(r)
  <2>1. source[r] \in Nodes
    BY <1>3 DEF ReadNodes, Exists, Alive, RequestsTypeOK, GraphTypeOK
  <2>2. depth[source[r]] \in Depths
    BY <2>1 DEF RequestsTypeOK, GraphTypeOK
  <2>3. Plus(depth[source[r]], 1) \in Int
    BY <2>2, PlusOneIsInt
  <2> QED BY <1>3, <2>3, GraphKept DEF ReadNodes, Is, Goto, RequestsTypeOK
<1>4. CASE ReadEdges(r) /\ ~Refuse(r)
  BY <1>4, GraphKept DEF ReadEdges, Is, Goto, RequestsTypeOK, locals
<1>5. CASE CommitConnect(r)
  <2>1. source[r] \in Nodes /\ target[r] \in Nodes
    BY <1>5 DEF CommitConnect, Is, RequestsTypeOK
  <2>2. edges' \subseteq Edge
    BY <1>5, <2>1 DEF CommitConnect, RequestsTypeOK, GraphTypeOK, Edge
  <2>3. depth' \in [Nodes -> Depths]
    BY <1>5, RaisedTypes DEF CommitConnect
  <2>4. GraphTypeOK'
    BY <1>5, <2>2, <2>3 DEF CommitConnect, RequestsTypeOK, GraphTypeOK
  <2> QED BY <1>5, <2>4, DoneTypes DEF CommitConnect
<1> QED BY <1>1, <1>2, <1>3, <1>4, <1>5

(* The steps of propagateDepth.                                            *)
LEMMA PropagateTypes ==
    ASSUME RequestsTypeOK, NEW r \in Requests,
           RaiseTarget(r) \/ ReadDescendants(r) \/ RaiseDescendants(r)
    PROVE  RequestsTypeOK'
<1>1. ASSUME NEW N \in SUBSET Nodes, Write(r, N) PROVE GraphTypeOK'
  <2>1. depth' \in [Nodes -> Depths]
    BY <1>1, RaisedTypes DEF Write, RequestsTypeOK, GraphTypeOK
  <2> QED BY <1>1, <2>1 DEF Write, RequestsTypeOK, GraphTypeOK
<1>2. CASE RaiseTarget(r)
  <2>1. {target[r]} \in SUBSET Nodes
    BY <1>2 DEF RaiseTarget, RequestsTypeOK
  <2>2. GraphTypeOK'
    BY <1>1, <1>2, <2>1 DEF RaiseTarget
  <2> QED BY <1>2, <2>1, <2>2 DEF RaiseTarget, Write, Goto, RequestsTypeOK
<1>3. CASE ReadDescendants(r)
  BY <1>3, GraphKept, DescendantsAreNodes DEF ReadDescendants, Goto, RequestsTypeOK
<1>4. CASE RaiseDescendants(r)
  <2>1. rows[r] \ removed \in SUBSET Nodes
    BY DEF RequestsTypeOK
  <2>2. GraphTypeOK'
    BY <1>1, <1>4, <2>1 DEF RaiseDescendants
  <2> QED BY <1>4, <2>1, <2>2 DEF RaiseDescendants, Write, Goto, RequestsTypeOK
<1> QED BY <1>2, <1>3, <1>4

(* The steps of deleteEdge and deleteNode, failures and rollbacks.         *)
LEMMA DeletionTypes ==
    ASSUME RequestsTypeOK, NEW r \in Requests,
           \/ \E e \in edges : AskDeleteEdge(r, e)
           \/ \E n \in Nodes : AskDeleteNode(r, n)
           \/ ReadTarget(r) \/ DropEdge(r) \/ Throw(r)
           \/ DropIncident(r) \/ Mark(r) \/ CommitDelete(r) \/ Abort(r)
    PROVE  RequestsTypeOK'
<1>1. ASSUME NEW e \in edges, AskDeleteEdge(r, e) PROVE RequestsTypeOK'
  <2>1. e \in Edge /\ e.target \in Nodes
    BY DEF RequestsTypeOK, GraphTypeOK, Edge
  <2> QED BY <1>1, <2>1, GraphKept DEF AskDeleteEdge, Goto, RequestsTypeOK
<1>2. ASSUME NEW n \in Nodes, AskDeleteNode(r, n) PROVE RequestsTypeOK'
  BY <1>2, GraphKept DEF AskDeleteNode, Goto, Exists, Alive, RequestsTypeOK
<1>3. CASE Refuse(r)
  BY <1>3, RefuseTypes
<1>4. CASE ReadTarget(r) /\ ~Refuse(r)
  <2>1. target[r] \in Nodes
    BY <1>4 DEF ReadTarget, Is, RequestsTypeOK
  <2>2. depth[target[r]] \in Depths
    BY <2>1 DEF RequestsTypeOK, GraphTypeOK
  <2>3. Lowering(target[r]) \in Int
    BY <2>2, LoweringIsInt
  <2> QED BY <1>4, <2>3, GraphKept DEF ReadTarget, Is, Goto, RequestsTypeOK
<1>5. CASE DropEdge(r)
  <2>1. GraphTypeOK'
    BY <1>5 DEF DropEdge, RequestsTypeOK, GraphTypeOK
  <2> QED BY <1>5, <2>1, DoneTypes DEF DropEdge
<1>9. CASE Throw(r)
  <2>1. GraphTypeOK'
    BY <1>9 DEF Throw, TornAt, Crossing, RequestsTypeOK, GraphTypeOK
  <2> QED BY <1>9, <2>1, DoneTypes DEF Throw
<1>6. CASE DropIncident(r)
  BY <1>6, GraphKept DEF DropIncident, Is, Goto, Incident, RequestsTypeOK, GraphTypeOK
<1>7. CASE Mark(r)
  BY <1>7, GraphKept DEF Mark, Is, Goto, RequestsTypeOK
<1>8. CASE CommitDelete(r)
  <2>1. target[r] \in created
    BY <1>8 DEF CommitDelete, Is, RequestsTypeOK
  <2>2. GraphTypeOK'
    BY <1>8, <2>1 DEF CommitDelete, RequestsTypeOK, GraphTypeOK
  <2> QED BY <1>8, <2>2, DoneTypes DEF CommitDelete
<1> QED BY <1>1, <1>2, <1>3, <1>4, <1>5, <1>6, <1>7, <1>8, <1>9 DEF Abort

(* The variables of the requests and of the tables keep their types.       *)
THEOREM RequestTypes == RequestsSpec => []RequestsTypeOK
<1>1. RequestsInit => RequestsTypeOK
  <2>1. GraphInit => GraphTypeOK
    BY DepthBound DEF GraphInit, GraphTypeOK, Depths
  <2> QED BY <2>1 DEF RequestsInit, RequestsTypeOK
<1>2. RequestsTypeOK /\ [RequestsNext]_rvars => RequestsTypeOK'
  <2> SUFFICES ASSUME RequestsTypeOK, [RequestsNext]_rvars
               PROVE  RequestsTypeOK'
    OBVIOUS
  <2>1. ASSUME NEW n \in Nodes, Insert(n) PROVE RequestsTypeOK'
    <3>1. GraphTypeOK'
      BY <2>1, DepthBound DEF Insert, CreateNode, RequestsTypeOK, GraphTypeOK, Depths
    <3> QED BY <2>1, <3>1 DEF Insert, CreateNode, RequestsTypeOK, locals
  <2>2. CASE UNCHANGED rvars
    BY <2>2, GraphKept DEF rvars, locals, RequestsTypeOK
  <2> QED BY <2>1, <2>2, ConnectTypes, PropagateTypes, DeletionTypes DEF RequestsNext
<1> QED BY <1>1, <1>2, PTL DEF RequestsSpec

(* One statement of any request keeps the edges, or takes some away, or    *)
(* is a connectNodes committing its edge.                                  *)
LEMMA EdgesChange ==
    ASSUME [RequestsNext]_rvars
    PROVE  edges' \subseteq edges \/ \E r \in Requests : CommitConnect(r)
<1>1. CASE UNCHANGED rvars
  BY <1>1 DEF rvars, graph
<1>2. CASE \E n \in Nodes : Insert(n)
  BY <1>2 DEF Insert, CreateNode
<1>3. ASSUME NEW r \in Requests,
             \/ \E s, t \in Nodes : AskConnect(r, s, t)
             \/ \E e \in edges : AskDeleteEdge(r, e)
             \/ \E n \in Nodes : AskDeleteNode(r, n)
             \/ RaiseTarget(r) \/ ReadDescendants(r) \/ RaiseDescendants(r)
             \/ DropIncident(r) \/ Mark(r)
      PROVE  edges' = edges
  BY <1>3 DEF AskConnect, AskDeleteEdge, AskDeleteNode, RaiseTarget, ReadDescendants,
              RaiseDescendants, Write, DropIncident, Mark, graph
<1>4. ASSUME NEW r \in Requests, ReadNodes(r) \/ ReadEdges(r) \/ ReadTarget(r) \/ Abort(r)
      PROVE  edges' = edges
  BY <1>4 DEF ReadNodes, ReadEdges, ReadTarget, Abort, Refuse, graph
<1>5. ASSUME NEW r \in Requests, DropEdge(r) \/ Throw(r) \/ CommitDelete(r)
      PROVE  edges' \subseteq edges
  BY <1>5 DEF DropEdge, Throw, CommitDelete
<1> QED BY <1>1, <1>2, <1>3, <1>4, <1>5 DEF RequestsNext

(* Who connects, between which nodes, and whether it has searched already  *)
(* changes only where the request starts, looks, or ends.                  *)
LEMMA SearchedBefore ==
    ASSUME RequestsTypeOK, [RequestsNext]_rvars, NEW q \in Requests
    PROVE  /\ op'[q] = "connect" => op[q] = "connect" \/ q \in Connectors
           /\ Searched(q)' =>
                 /\ source'[q] = source[q] /\ target'[q] = target[q]
                 /\ Searched(q) \/ (Connectable(q) /\ edges' = edges)
<1> DEFINE Goal == /\ op'[q] = "connect" => op[q] = "connect" \/ q \in Connectors
                   /\ Searched(q)' =>
                         /\ source'[q] = source[q] /\ target'[q] = target[q]
                         /\ Searched(q) \/ (Connectable(q) /\ edges' = edges)
<1>1. ASSUME NEW r \in Requests, Done(r) PROVE Goal
  BY <1>1 DEF Done, RequestsTypeOK, Searched
<1>2. CASE UNCHANGED <<op, at, source, target>>
  BY <1>2 DEF Searched
<1>3. ASSUME NEW r \in Requests, NEW s \in Nodes, NEW t \in Nodes, AskConnect(r, s, t)
      PROVE  Goal
  BY <1>3 DEF AskConnect, Goto, RequestsTypeOK, Searched
<1>4. ASSUME NEW r \in Requests, NEW e \in edges, AskDeleteEdge(r, e) PROVE Goal
  BY <1>4 DEF AskDeleteEdge, Goto, RequestsTypeOK, Searched
<1>5. ASSUME NEW r \in Requests, NEW n \in Nodes, AskDeleteNode(r, n) PROVE Goal
  BY <1>5 DEF AskDeleteNode, Goto, RequestsTypeOK, Searched
<1>6. ASSUME NEW r \in Requests, ReadNodes(r) \/ ReadEdges(r) \/ ReadTarget(r)
      PROVE  Goal
  BY <1>6, <1>1 DEF ReadNodes, ReadEdges, ReadTarget, Refuse, Is, Goto, RequestsTypeOK,
                    Searched, graph, locals
<1>7. ASSUME NEW r \in Requests,
             \/ RaiseTarget(r) \/ ReadDescendants(r) \/ RaiseDescendants(r)
             \/ DropIncident(r) \/ Mark(r)
      PROVE  Goal
  BY <1>7 DEF RaiseTarget, ReadDescendants, RaiseDescendants, Write, DropIncident, Mark,
              Is, Goto, RequestsTypeOK, Searched
<1>8. ASSUME NEW r \in Requests,
             CommitConnect(r) \/ DropEdge(r) \/ Throw(r) \/ CommitDelete(r) \/ Abort(r)
      PROVE  Goal
  BY <1>8, <1>1 DEF CommitConnect, DropEdge, Throw, CommitDelete, Abort, Refuse
<1> QED
  BY <1>2, <1>3, <1>4, <1>5, <1>6, <1>7, <1>8 DEF RequestsNext, rvars, locals, Insert

(* With a single connector the graph stays acyclic however the statements  *)
(* of the other requests fall between those of connectNodes.               *)
THEOREM OneConnectorKeepsAcyclic ==
    ASSUME NEW c, Connectors \subseteq {c}
    PROVE  RequestsSpec => []Acyclic
<1>1. RequestsInit => ConnectorsSearched /\ Acyclic
  BY DEF RequestsInit, GraphInit, ConnectorsSearched, Searched, Acyclic
<1>2. RequestsTypeOK /\ ConnectorsSearched /\ Acyclic /\ [RequestsNext]_rvars
         => (ConnectorsSearched /\ Acyclic)'
  <2> SUFFICES ASSUME RequestsTypeOK, ConnectorsSearched, Acyclic, [RequestsNext]_rvars
               PROVE  (ConnectorsSearched /\ Acyclic)'
    OBVIOUS
  <2>1. CASE edges' \subseteq edges
    <3>1. Acyclic'
      BY <2>1 DEF Acyclic
    <3>2. ASSUME NEW q \in Requests
          PROVE  /\ op'[q] = "connect" => q \in Connectors
                 /\ Searched(q)' => ~HasCycle(source'[q], target'[q], edges')
      <4>1. op'[q] = "connect" => q \in Connectors
        BY SearchedBefore DEF ConnectorsSearched
      <4>2. ASSUME Searched(q)' PROVE ~HasCycle(source[q], target[q], edges)
        BY <4>2, SearchedBefore DEF ConnectorsSearched, Connectable
      <4>3. ASSUME Searched(q)' PROVE ~HasCycle(source'[q], target'[q], edges')
        BY <4>2, <4>3, <2>1, SearchedBefore, FewerEdgesReachLess
      <4> QED BY <4>1, <4>3
    <3>3. ConnectorsSearched'
      BY <3>2 DEF ConnectorsSearched
    <3> QED BY <3>1, <3>3
  <2>2. ASSUME NEW r \in Requests, CommitConnect(r)
        PROVE  (ConnectorsSearched /\ Acyclic)'
    <3>1. Searched(r) /\ source[r] \in Nodes /\ target[r] \in Nodes
      BY <2>2 DEF CommitConnect, Is, Searched, RequestsTypeOK
    <3>2. \A e \in edges' : e \in edges \/ (e.source = source[r] /\ e.target = target[r])
      BY <2>2 DEF CommitConnect
    <3>3. Acyclic'
      BY <3>1, <3>2, AddedEdgeClosesNoCycle DEF ConnectorsSearched
    <3>4. \A q \in Requests : op[q] = "connect" => q = r
      BY <3>1 DEF ConnectorsSearched, Searched
    <3>5. \A q \in Requests : op'[q] # "connect"
      BY <2>2, <3>4 DEF CommitConnect, Done, RequestsTypeOK
    <3>6. ConnectorsSearched'
      BY <3>5 DEF ConnectorsSearched, Searched
    <3> QED BY <3>3, <3>6
  <2> QED BY <2>1, <2>2, EdgesChange
<1> QED BY <1>1, <1>2, RequestTypes, PTL DEF RequestsSpec

(* With a single connector two nodes are joined by one edge at most,       *)
(* whatever other requests have deleted or rolled back since connectNodes  *)
(* looked for one.                                                         *)
THEOREM OneConnectorKeepsSimple ==
    ASSUME NEW c, Connectors \subseteq {c}
    PROVE  RequestsSpec => []OnePerPair
<1> DEFINE Looked == \A q \in Requests :
                        /\ op[q] = "connect" => q \in Connectors
                        /\ Searched(q) => NotConnected(source[q], target[q])
<1>1. RequestsInit => Looked /\ OnePerPair
  BY DEF RequestsInit, GraphInit, Searched, OnePerPair
<1>2. RequestsTypeOK /\ Looked /\ OnePerPair /\ [RequestsNext]_rvars => (Looked /\ OnePerPair)'
  <2> SUFFICES ASSUME RequestsTypeOK, Looked, OnePerPair, [RequestsNext]_rvars
               PROVE  (Looked /\ OnePerPair)'
    OBVIOUS
  <2>1. CASE edges' \subseteq edges
    <3>1. OnePerPair'
      BY <2>1 DEF OnePerPair
    <3>2. ASSUME NEW q \in Requests
          PROVE  /\ op'[q] = "connect" => q \in Connectors
                 /\ Searched(q)' => NotConnected(source[q], target[q])'
      <4>1. op'[q] = "connect" => q \in Connectors
        BY SearchedBefore
      <4>2. ASSUME Searched(q)' PROVE NotConnected(source[q], target[q])'
        <5>1. NotConnected(source[q], target[q])
          BY <4>2, SearchedBefore DEF Connectable
        <5>2. source'[q] = source[q] /\ target'[q] = target[q]
          BY <4>2, SearchedBefore
        <5> QED BY <2>1, <5>1, <5>2 DEF NotConnected
      <4> QED BY <4>1, <4>2
    <3> QED BY <3>1, <3>2
  <2>2. ASSUME NEW r \in Requests, CommitConnect(r)
        PROVE  (Looked /\ OnePerPair)'
    <3>1. Searched(r) /\ NotConnected(source[r], target[r])
      BY <2>2 DEF CommitConnect, Is, Searched
    <3>2. PICK i \in EdgeIds :
              edges' = edges \cup {[id |-> i, source |-> source[r], target |-> target[r]]}
      BY <2>2 DEF CommitConnect
    <3>3. OnePerPair'
      BY <3>1, <3>2 DEF OnePerPair, NotConnected
    <3>4. \A q \in Requests : op[q] = "connect" => q = r
      BY <3>1 DEF Searched
    <3>5. \A q \in Requests : op'[q] # "connect"
      BY <2>2, <3>4 DEF CommitConnect, Done, RequestsTypeOK
    <3>6. Looked'
      BY <3>5 DEF Searched
    <3> QED BY <3>3, <3>6
  <2> QED BY <2>1, <2>2, EdgesChange
<1> QED BY <1>1, <1>2, RequestTypes, PTL DEF RequestsSpec

-----------------------------------------------------------------------------
(***************************************************************************)
(* Served alone, a request does in several steps what Graph says it does   *)
(* in one.  What follows is the state of a request between its statements: *)
(* what it has looked up still holds, and its writes are those Graph makes *)
(* at once.                                                                *)
(***************************************************************************)

AtMostOne == \A q, r \in Requests : op[q] # "none" /\ op[r] # "none" => q = r

(* How far propagateDepth has come.                                        *)
Propagated(r) ==
    /\ at[r] \in {"nodes", "edges", "raise"} => written[r] = {}
    /\ at[r] \in {"descend", "rows"} => written[r] = {target[r]}
    /\ at[r] = "rows" => /\ rows[r] = Descendants(edges, target[r])
                         /\ target[r] \notin rows[r]
    /\ at[r] \in {"commit", "drop"} => written[r] = Moved(target[r])

Connecting(r) ==
    op[r] = "connect" =>
        /\ at[r] \in {"nodes", "edges", "raise", "descend", "rows", "commit"}
        /\ source[r] # target[r]
        /\ at[r] # "nodes" =>
              /\ source[r] \in Alive /\ target[r] \in Alive \ Projects
              /\ amount[r] = Plus(depth[source[r]], 1)
        /\ at[r] \notin {"nodes", "edges"} => Connectable(r)
        /\ Propagated(r)

DeletingEdge(r) ==
    op[r] = "deleteEdge" =>
        /\ at[r] \in {"nodes", "raise", "descend", "rows", "drop"}
        /\ edge[r] \in edges /\ target[r] = edge[r].target
        /\ at[r] # "nodes" => amount[r] = -SeenDepth[target[r]]
        /\ Propagated(r)

DeletingNode(r) ==
    op[r] = "deleteNode" =>
        /\ at[r] \in {"drop", "mark", "commit"}
        /\ target[r] \in Alive
        /\ at[r] # "drop" => dropping[r] = Incident(target[r])

Resting == \A r \in Requests : op[r] = "none" => written[r] = {}

AloneInv ==
    /\ AtMostOne
    /\ Resting
    /\ EdgesJoinLiveNodes
    /\ \A r \in Requests : Connecting(r) /\ DeletingEdge(r) /\ DeletingNode(r)

(* The operators of the instance that do not look at depths are Graph's.   *)
LEMMA SerialIsGraph ==
    /\ Serial!Alive = Alive
    /\ \A n : Serial!Exists(n) <=> Exists(n)
    /\ \A E, n : Serial!Descendants(E, n) = Descendants(E, n)
    /\ \A s, t, E : Serial!HasCycle(s, t, E) <=> HasCycle(s, t, E)
    /\ \A s, t : Serial!NotConnected(s, t) <=> NotConnected(s, t)
    /\ \A d, k : Serial!Plus(d, k) = Plus(d, k)
    /\ \A n : Serial!Moved(n) = Moved(n)
    /\ \A n : Serial!Parentless(n) <=> Parentless(n)
    /\ \A n : Serial!Childless(n) <=> Childless(n)
    /\ \A n : Serial!Incident(n) = Incident(n)
    /\ \A N : Serial!TornAt(N) = TornAt(N)
    /\ Serial!Depths = Depths
<1>1. Serial!Alive = Alive /\ \A n : Serial!Exists(n) <=> Exists(n)
  BY DEF Serial!Alive, Alive, Serial!Exists, Exists
<1>2. \A E, n : Serial!Reaches(E, n) = Reaches(E, n)
  BY DEF Serial!Reaches, Reaches, Serial!Closed, Closed
<1>3. \A E, n : Serial!Descendants(E, n) = Descendants(E, n)
  BY <1>2 DEF Serial!Descendants, Descendants
<1>4. \A s, t, E : Serial!HasCycle(s, t, E) <=> HasCycle(s, t, E)
  BY <1>2 DEF Serial!HasCycle, HasCycle
<1>5. \A n : Serial!Moved(n) = Moved(n)
  BY <1>3 DEF Serial!Moved, Moved
<1>6. /\ \A s, t : Serial!NotConnected(s, t) <=> NotConnected(s, t)
      /\ \A d, k : Serial!Plus(d, k) = Plus(d, k)
  BY DEF Serial!NotConnected, NotConnected, Serial!Plus, Plus
<1>7. /\ \A n : Serial!Parentless(n) <=> Parentless(n)
      /\ \A n : Serial!Childless(n) <=> Childless(n)
      /\ \A n : Serial!Incident(n) = Incident(n)
  BY DEF Serial!Parentless, Parentless, Serial!Childless, Childless, Serial!Incident, Incident
<1>8. Serial!Depths = Depths
  BY DEF Serial!Depths, Depths
<1>9. \A N : Serial!TornAt(N) = TornAt(N)
  BY DEF Serial!TornAt, TornAt, Serial!Crossing, Crossing
<1> QED BY <1>1, <1>3, <1>4, <1>5, <1>6, <1>7, <1>8, <1>9

(* What Graph sees of the depths while r alone may be at work.             *)
LEMMA SeenAlone ==
    ASSUME NEW r \in Requests, \A q \in Requests \ {r} : op[q] = "none"
    PROVE  SeenDepth = [n \in Nodes |-> IF op[r] = "deleteEdge" /\ n \in written[r]
                                        THEN depth[n] - amount[r] ELSE depth[n]]
<1> SUFFICES ASSUME NEW n \in Nodes
             PROVE  SeenDepth[n] = IF op[r] = "deleteEdge" /\ n \in written[r]
                                   THEN depth[n] - amount[r] ELSE depth[n]
  BY DEF SeenDepth
<1> DEFINE D == {q \in Requests : op[q] = "deleteEdge" /\ n \in written[q]}
<1>1. SeenDepth[n] = IF D = {} THEN depth[n] ELSE depth[n] - amount[CHOOSE q \in D : TRUE]
  BY DEF SeenDepth
<1>2. CASE op[r] = "deleteEdge" /\ n \in written[r]
  <2>1. D = {r}
    BY <1>2
  <2>2. (CHOOSE q \in D : TRUE) = r
    BY <2>1
  <2> QED BY <1>1, <1>2, <2>1, <2>2
<1>3. CASE ~(op[r] = "deleteEdge" /\ n \in written[r])
  <2>1. D = {}
    BY <1>3
  <2> QED BY <1>1, <1>3, <2>1
<1> QED BY <1>2, <1>3

LEMMA SeenAloneNext ==
    ASSUME NEW r \in Requests, \A q \in Requests \ {r} : op'[q] = "none"
    PROVE  SeenDepth' = [n \in Nodes |-> IF op'[r] = "deleteEdge" /\ n \in written'[r]
                                         THEN depth'[n] - amount'[r] ELSE depth'[n]]
<1> SUFFICES ASSUME NEW n \in Nodes
             PROVE  SeenDepth'[n] = IF op'[r] = "deleteEdge" /\ n \in written'[r]
                                    THEN depth'[n] - amount'[r] ELSE depth'[n]
  BY DEF SeenDepth
<1> DEFINE D == {q \in Requests : op'[q] = "deleteEdge" /\ n \in written'[q]}
<1>1. SeenDepth'[n]
        = IF D = {} THEN depth'[n] ELSE depth'[n] - amount'[CHOOSE q \in D : TRUE]
  BY DEF SeenDepth
<1>2. CASE op'[r] = "deleteEdge" /\ n \in written'[r]
  <2>1. D = {r}
    BY <1>2
  <2>2. (CHOOSE q \in D : TRUE) = r
    BY <2>1
  <2> QED BY <1>1, <1>2, <2>1, <2>2
<1>3. CASE ~(op'[r] = "deleteEdge" /\ n \in written'[r])
  <2>1. D = {}
    BY <1>3
  <2> QED BY <1>1, <1>3, <2>1
<1> QED BY <1>2, <1>3

(* It suffices to look at the request that takes the step.                 *)
LEMMA AloneAfter ==
    ASSUME NEW r \in Requests, \A q \in Requests \ {r} : op'[q] = "none" /\ written'[q] = {},
           op'[r] = "none" => written'[r] = {},
           EdgesJoinLiveNodes', Connecting(r)', DeletingEdge(r)', DeletingNode(r)'
    PROVE  AloneInv'
<1>1. \A q \in Requests \ {r} : Connecting(q)' /\ DeletingEdge(q)' /\ DeletingNode(q)'
  BY DEF Connecting, DeletingEdge, DeletingNode
<1> QED BY <1>1 DEF AloneInv, AtMostOne, Resting

(* A request that is answered leaves none at work.                         *)
LEMMA AloneAfterDone ==
    ASSUME RequestsTypeOK, AloneInv, NEW r \in Requests, op[r] # "none", Done(r),
           EdgesJoinLiveNodes'
    PROVE  AloneInv' /\ SeenDepth' = [n \in Nodes |-> depth'[n]]
<1>1. \A q \in Requests : op'[q] = "none" /\ written'[q] = {}
  BY DEF Done, RequestsTypeOK, AloneInv, AtMostOne, Resting
<1>2. AloneInv'
  BY <1>1, AloneAfter DEF Connecting, DeletingEdge, DeletingNode
<1>3. SeenDepth' = [n \in Nodes |-> depth'[n]]
  BY <1>1, SeenAloneNext
<1> QED BY <1>2, <1>3

(* The steps of a request that leave the tables, and its own writes, alone *)
(* are no steps of Graph.                                                  *)
LEMMA KeptIsStutter ==
    ASSUME RequestsTypeOK, NEW r \in Requests, UNCHANGED graph,
           \A q \in Requests \ {r} : op[q] = "none" /\ op'[q] = "none",
           \/ op[r] # "deleteEdge" /\ op'[r] # "deleteEdge"
           \/ written[r] = {} /\ written'[r] = {}
           \/ op'[r] = op[r] /\ written'[r] = written[r] /\ amount'[r] = amount[r]
    PROVE  UNCHANGED Serial!graph
<1>1. /\ SeenDepth = [n \in Nodes |-> IF op[r] = "deleteEdge" /\ n \in written[r]
                                      THEN depth[n] - amount[r] ELSE depth[n]]
      /\ SeenDepth' = [n \in Nodes |-> IF op'[r] = "deleteEdge" /\ n \in written'[r]
                                       THEN depth'[n] - amount'[r] ELSE depth'[n]]
  BY SeenAlone, SeenAloneNext
<1>2. SeenDepth' = SeenDepth
  BY <1>1 DEF graph
<1> QED BY <1>2 DEF graph, Serial!graph

LEMMA KeptGraph ==
    ASSUME UNCHANGED graph
    PROVE  /\ Alive' = Alive
           /\ EdgesJoinLiveNodes => EdgesJoinLiveNodes'
           /\ \A n : Moved(n)' = Moved(n) /\ Incident(n)' = Incident(n)
           /\ \A n, k : Plus(n, k)' = Plus(n, k)
           /\ \A s, t : NotConnected(s, t)' = NotConnected(s, t)
BY DEF graph, Alive, EdgesJoinLiveNodes, Moved, Incident, Plus, NotConnected

LEMMA AnsweredAlone ==
    ASSUME RequestsTypeOK, AloneInv, NEW r \in Requests, op[r] # "none", Refuse(r),
           op[r] # "deleteEdge" \/ written[r] = {}
    PROVE  AloneInv' /\ UNCHANGED Serial!graph
<1>1. AloneInv'
  BY AloneAfterDone, KeptGraph DEF Refuse, AloneInv
<1>2. \A q \in Requests \ {r} : op[q] = "none" /\ op'[q] = "none"
  BY DEF AloneInv, AtMostOne, Refuse, Done, RequestsTypeOK
<1>3. op'[r] = "none" /\ written'[r] = {}
  BY DEF Refuse, Done, RequestsTypeOK
<1>4. UNCHANGED Serial!graph
  BY <1>2, <1>3, KeptIsStutter DEF Refuse
<1> QED BY <1>1, <1>4

(* connectNodes.                                                           *)
LEMMA ConnectAlone ==
    ASSUME tracked, RequestsTypeOK, AloneInv, NEW r \in Requests,
           \/ \E s, t \in Nodes : AskConnect(r, s, t)
           \/ ReadNodes(r) \/ ReadEdges(r) \/ CommitConnect(r)
    PROVE  AloneInv' /\ (UNCHANGED Serial!graph \/ Serial!GraphNext)
<1>1. ASSUME NEW s \in Nodes, NEW t \in Nodes, AskConnect(r, s, t)
      PROVE  AloneInv' /\ UNCHANGED Serial!graph
  <2>1. \A q \in Requests : op[q] = "none" /\ written[q] = {}
    BY <1>1 DEF AskConnect, Idle, AloneInv, Resting
  <2>2. /\ \A q \in Requests \ {r} : op'[q] = "none" /\ written'[q] = {}
        /\ op'[r] = "connect" /\ at'[r] = "nodes" /\ written'[r] = {}
        /\ source'[r] = s /\ target'[r] = t /\ s # t
        /\ UNCHANGED graph
    BY <1>1, <2>1 DEF AskConnect, Goto, RequestsTypeOK
  <2>3. Connecting(r)' /\ DeletingEdge(r)' /\ DeletingNode(r)'
    BY <2>2 DEF Connecting, DeletingEdge, DeletingNode, Propagated
  <2>4. AloneInv'
    BY <2>2, <2>3, KeptGraph, AloneAfter DEF AloneInv
  <2> QED BY <2>1, <2>2, <2>4, KeptIsStutter
<1>2. CASE Refuse(r) /\ op[r] = "connect"
  BY <1>2, AnsweredAlone
<1>3. CASE ReadNodes(r) /\ ~Refuse(r)
  <2>1. /\ Is(r, "connect", "nodes")
        /\ source[r] \in Alive /\ target[r] \in Alive \ Projects
        /\ amount' = [amount EXCEPT ![r] = Plus(depth[source[r]], 1)]
        /\ at' = [at EXCEPT ![r] = "edges"]
        /\ UNCHANGED <<graph, op, source, target, edge, rows, written, dropping>>
    BY <1>3 DEF ReadNodes, Goto, Exists
  <2>2. /\ \A q \in Requests \ {r} : op[q] = "none" /\ written[q] = {}
        /\ written[r] = {} /\ source[r] # target[r]
    BY <2>1 DEF AloneInv, AtMostOne, Resting, Connecting, Propagated, Is
  <2>3. op[r] = "connect" /\ at'[r] = "edges" /\ amount'[r] = Plus(depth[source[r]], 1)
    BY <2>1 DEF Is, RequestsTypeOK
  <2>4. Connecting(r)'
    BY <2>1, <2>2, <2>3, KeptGraph DEF Connecting, Propagated, Plus, graph
  <2>5. DeletingEdge(r)' /\ DeletingNode(r)'
    BY <2>1, <2>3 DEF DeletingEdge, DeletingNode
  <2>6. AloneInv'
    BY <2>1, <2>2, <2>3, <2>4, <2>5, KeptGraph, AloneAfter DEF AloneInv
  <2> QED BY <2>1, <2>2, <2>3, <2>6, KeptIsStutter
<1>4. CASE ReadEdges(r) /\ ~Refuse(r)
  <2>1. /\ Is(r, "connect", "edges") /\ Connectable(r)
        /\ at' = [at EXCEPT ![r] = "raise"]
        /\ UNCHANGED <<graph, op, source, target, edge, amount, rows, written, dropping>>
    BY <1>4 DEF ReadEdges, Goto, locals
  <2>2. /\ \A q \in Requests \ {r} : op[q] = "none" /\ written[q] = {}
        /\ written[r] = {} /\ source[r] # target[r]
        /\ source[r] \in Alive /\ target[r] \in Alive \ Projects
        /\ amount[r] = Plus(depth[source[r]], 1)
    BY <2>1 DEF AloneInv, AtMostOne, Resting, Connecting, Propagated, Is
  <2>3. op[r] = "connect" /\ at'[r] = "raise"
    BY <2>1 DEF Is, RequestsTypeOK
  <2>4. Connectable(r)'
    BY <2>1, KeptGraph DEF Connectable, graph
  <2>5. Connecting(r)'
    BY <2>1, <2>2, <2>3, <2>4, KeptGraph DEF Connecting, Propagated, Plus, graph
  <2>6. DeletingEdge(r)' /\ DeletingNode(r)'
    BY <2>1, <2>3 DEF DeletingEdge, DeletingNode
  <2>7. AloneInv'
    BY <2>1, <2>2, <2>3, <2>5, <2>6, KeptGraph, AloneAfter DEF AloneInv
  <2> QED BY <2>1, <2>2, <2>3, <2>7, KeptIsStutter
<1>5. CASE CommitConnect(r)
  <2> DEFINE s == source[r]
             t == target[r]
  <2>1. /\ op[r] = "connect" /\ at[r] = "commit" /\ s # t
        /\ s \in Alive /\ t \in Alive \ Projects /\ amount[r] = Plus(depth[s], 1)
        /\ NotConnected(s, t) /\ ~HasCycle(s, t, edges)
        /\ written[r] = Moved(t)
        /\ \A q \in Requests \ {r} : op[q] = "none"
    BY <1>5 DEF CommitConnect, Is, AloneInv, AtMostOne, Connecting, Connectable, Propagated
  <2>2. s \in Nodes /\ t \in Nodes
    BY <2>1 DEF RequestsTypeOK
  <2>3. /\ \A n \in Moved(t) : Plus(depth[n], amount[r]) \in Depths
        /\ depth' = [n \in Nodes |-> IF n \in Moved(t) THEN Plus(depth[n], amount[r])
                                                       ELSE depth[n]]
        /\ \E i \in EdgeIds : /\ \A e \in edges : e.id # i
                              /\ edges' = edges \cup {[id |-> i, source |-> s, target |-> t]}
        /\ treelike' = (treelike /\ Parentless(t))
        /\ UNCHANGED <<created, removed, tracked, torn>> /\ Done(r)
    BY <1>5, <2>1 DEF CommitConnect, InBounds, Raised
  <2>4. EdgesJoinLiveNodes'
    BY <2>1, <2>3 DEF AloneInv, EdgesJoinLiveNodes, Alive
  <2>5. AloneInv' /\ SeenDepth' = [n \in Nodes |-> depth'[n]]
    BY <2>1, <2>3, <2>4, AloneAfterDone
  <2>6. SeenDepth = [n \in Nodes |-> depth[n]]
    BY <2>1, SeenAlone
  <2>7. Serial!PropagateDepth(t, Plus(SeenDepth[s], 1))
    <3>1. \A n \in Moved(t) : n \in Nodes
      BY <2>2, DescendantsAreNodes DEF Moved
    <3>2. Plus(SeenDepth[s], 1) = amount[r]
      BY <2>1, <2>2, <2>6
    <3> HIDE DEF s, t
    <3>3. /\ Serial!Moved(t) = Moved(t)
          /\ \A d : Serial!Plus(d, amount[r]) = Plus(d, amount[r])
          /\ Serial!Depths = Depths
      BY SerialIsGraph
    <3>4. \A n \in Nodes : SeenDepth[n] = depth[n]
      BY <2>6
    <3>5. \A n \in Moved(t) : Serial!Plus(SeenDepth[n], amount[r]) \in Depths
      BY <2>3, <3>1, <3>3, <3>4
    <3>6. SeenDepth' = [n \in Nodes |-> IF n \in Serial!Moved(t)
                                       THEN Serial!Plus(SeenDepth[n], amount[r])
                                       ELSE SeenDepth[n]]
      BY <2>3, <2>5, <3>3, <3>4
    <3> QED BY <3>2, <3>3, <3>5, <3>6 DEF Serial!PropagateDepth, Serial!Deepen
  <2> HIDE DEF s, t
  <2>8. Serial!ConnectNodes(s, t)
    BY <2>1, <2>3, <2>7, SerialIsGraph DEF Serial!ConnectNodes, Exists
  <2> QED BY <2>2, <2>5, <2>8 DEF Serial!GraphNext
<1> QED BY <1>1, <1>2, <1>3, <1>4, <1>5 DEF ReadNodes, ReadEdges, Is

(* What propagateDepth writes Graph does not see yet: a connectNodes keeps *)
(* it aside, and what a deleteEdge has written does not count until its    *)
(* edge is gone.  Each row is written once.                                *)
LEMMA WritesAreUnseen ==
    ASSUME tracked, RequestsTypeOK, NEW r \in Requests, NEW N \in SUBSET Nodes, Write(r, N),
           op[r] \in {"connect", "deleteEdge"}, N \cap written[r] = {},
           \A q \in Requests \ {r} : op[q] = "none"
    PROVE  /\ UNCHANGED Serial!graph /\ written'[r] = written[r] \cup N
           /\ \A q \in Requests \ {r} : written'[q] = written[q]
           /\ op[r] = "connect" => UNCHANGED depth
<1>1. /\ UNCHANGED <<created, removed, edges, tracked, treelike, torn, op, amount>>
      /\ depth' = IF op[r] = "connect" THEN depth ELSE Raised(r, N)
      /\ written'[r] = written[r] \cup N
      /\ \A q \in Requests \ {r} : written'[q] = written[q]
  BY DEF Write, Transaction, RequestsTypeOK
<1>2. /\ SeenDepth = [n \in Nodes |-> IF op[r] = "deleteEdge" /\ n \in written[r]
                                      THEN depth[n] - amount[r] ELSE depth[n]]
      /\ SeenDepth' = [n \in Nodes |-> IF op[r] = "deleteEdge" /\ n \in written'[r]
                                       THEN depth'[n] - amount[r] ELSE depth'[n]]
  BY <1>1, SeenAlone, SeenAloneNext
<1>3. SeenDepth' = SeenDepth
  <2>1. CASE op[r] = "connect"
    BY <1>1, <1>2, <2>1
  <2>2. CASE op[r] = "deleteEdge"
    <3>1. ASSUME NEW n \in Nodes PROVE depth[n] \in Int /\ amount[r] \in Int
      BY DepthBound DEF RequestsTypeOK, GraphTypeOK, Depths
    <3>2. \A n \in Nodes : depth'[n] = IF n \in N THEN depth[n] + amount[r] ELSE depth[n]
      BY <1>1, <2>2 DEF Raised, Plus
    <3>3. ASSUME NEW n \in Nodes
          PROVE  (IF n \in written'[r] THEN depth'[n] - amount[r] ELSE depth'[n])
                    = (IF n \in written[r] THEN depth[n] - amount[r] ELSE depth[n])
      BY <1>1, <3>1, <3>2
    <3> QED BY <1>2, <2>2, <3>3
  <2> QED BY <2>1, <2>2
<1> QED BY <1>1, <1>3 DEF Serial!graph

(* propagateDepth.                                                         *)
LEMMA PropagateAlone ==
    ASSUME tracked, RequestsTypeOK, AloneInv, NEW r \in Requests,
           RaiseTarget(r) \/ ReadDescendants(r) \/ RaiseDescendants(r)
    PROVE  AloneInv' /\ UNCHANGED Serial!graph
<1> DEFINE t == target[r]
<1>1. /\ \A q \in Requests \ {r} : op[q] = "none" /\ written[q] = {}
      /\ op[r] \in {"connect", "deleteEdge"}
      /\ Propagated(r) /\ t \in Nodes
  BY DEF AloneInv, AtMostOne, Resting, Connecting, DeletingEdge, DeletingNode,
         RequestsTypeOK, RaiseTarget, ReadDescendants, RaiseDescendants
(* Between raise and the last write only how far it has come changes.      *)
<1>2. ASSUME UNCHANGED <<op, source, target, edge, amount>>, UNCHANGED Serial!graph,
             op[r] = "connect" => UNCHANGED depth,
             \A q \in Requests \ {r} : written'[q] = {},
             Propagated(r)', at[r] \in {"raise", "descend", "rows"},
             \/ at'[r] \in {"descend", "rows"}
             \/ op[r] = "connect" /\ at'[r] = "commit"
             \/ op[r] = "deleteEdge" /\ at'[r] = "drop"
      PROVE  AloneInv'
  <2>1. UNCHANGED <<created, removed, edges, tracked, treelike, SeenDepth>>
    BY <1>2 DEF Serial!graph
  <2>2. EdgesJoinLiveNodes' /\ Alive' = Alive
    BY <2>1 DEF AloneInv, EdgesJoinLiveNodes, Alive
  <2>3. Connecting(r)'
    <3> SUFFICES ASSUME op[r] = "connect" PROVE Connecting(r)'
      BY <1>2 DEF Connecting
    <3>1. /\ source[r] # target[r] /\ source[r] \in Alive /\ target[r] \in Alive \ Projects
          /\ amount[r] = Plus(depth[source[r]], 1) /\ Connectable(r)
      BY <1>2 DEF AloneInv, Connecting
    <3>2. Plus(depth[source[r]], 1)' = Plus(depth[source[r]], 1) /\ Connectable(r)'
      BY <1>2, <2>1, <3>1 DEF Plus, Connectable, NotConnected
    <3> QED BY <1>2, <2>2, <3>1, <3>2 DEF Connecting
  <2>4. DeletingEdge(r)'
    BY <1>2, <2>1 DEF AloneInv, DeletingEdge
  <2>5. DeletingNode(r)' /\ op'[r] # "none"
    BY <1>1, <1>2 DEF DeletingNode
  <2> QED BY <1>1, <1>2, <2>2, <2>3, <2>4, <2>5, AloneAfter
<1>3. CASE RaiseTarget(r)
  <2>1. written[r] = {} /\ at[r] = "raise" /\ at'[r] = "descend" /\ Write(r, {t})
    BY <1>1, <1>3 DEF RaiseTarget, Propagated, Goto, RequestsTypeOK
  <2>2. /\ UNCHANGED Serial!graph /\ written'[r] = {t}
        /\ \A q \in Requests \ {r} : written'[q] = {}
        /\ op[r] = "connect" => UNCHANGED depth
    BY <1>1, <2>1, WritesAreUnseen
  <2>3. UNCHANGED <<op, source, target, edge, amount>>
    BY <2>1 DEF Write
  <2>4. Propagated(r)'
    BY <2>1, <2>2, <2>3 DEF Propagated
  <2> QED BY <1>2, <2>1, <2>2, <2>3, <2>4
<1>4. CASE ReadDescendants(r)
  <2>1. /\ UNCHANGED <<graph, op, source, target, edge, amount, written, dropping>>
        /\ at[r] = "descend" /\ at'[r] = "rows" /\ rows'[r] = Descendants(edges, t)
        /\ \A n \in Descendants(edges, t) : n \notin Descendants(edges, n)
    BY <1>4 DEF ReadDescendants, Goto, QueryEnds, RequestsTypeOK
  <2>2. UNCHANGED Serial!graph
    BY <1>1, <2>1, KeptIsStutter
  <2>3. Propagated(r)'
    BY <1>1, <2>1 DEF Propagated, graph
  <2>4. UNCHANGED depth
    BY <2>1 DEF graph
  <2> QED BY <1>1, <1>2, <2>1, <2>2, <2>3, <2>4
<1>5. CASE RaiseDescendants(r)
  <2>1. /\ at[r] = "rows" /\ Write(r, rows[r] \ removed)
        /\ written[r] = {t} /\ rows[r] = Descendants(edges, t) /\ t \notin rows[r]
        /\ at'[r] = IF op[r] = "connect" THEN "commit" ELSE "drop"
    BY <1>1, <1>5 DEF RaiseDescendants, Propagated, Goto, RequestsTypeOK
  <2>2. rows[r] \ removed \in SUBSET Nodes /\ (rows[r] \ removed) \cap written[r] = {}
    BY <2>1 DEF RequestsTypeOK
  <2>3. /\ UNCHANGED Serial!graph /\ written'[r] = {t} \cup (rows[r] \ removed)
        /\ \A q \in Requests \ {r} : written'[q] = {}
        /\ op[r] = "connect" => UNCHANGED depth
    BY <1>1, <2>1, <2>2, WritesAreUnseen
  <2>4. UNCHANGED <<op, source, target, edge, amount, edges, removed>>
    BY <2>1 DEF Write
  <2>5. Propagated(r)'
    BY <2>1, <2>3, <2>4 DEF Propagated, Moved
  <2> QED BY <1>1, <1>2, <2>1, <2>3, <2>4, <2>5
<1> QED BY <1>3, <1>4, <1>5

(* deleteEdge.                                                             *)
LEMMA DeleteEdgeAlone ==
    ASSUME tracked, RequestsTypeOK, AloneInv, NEW r \in Requests,
           (\E e \in edges : AskDeleteEdge(r, e)) \/ ReadTarget(r) \/ DropEdge(r)
    PROVE  AloneInv' /\ (UNCHANGED Serial!graph \/ Serial!GraphNext)
<1>1. ASSUME NEW e \in edges, AskDeleteEdge(r, e)
      PROVE  AloneInv' /\ UNCHANGED Serial!graph
  <2>1. \A q \in Requests : op[q] = "none" /\ written[q] = {}
    BY <1>1 DEF AskDeleteEdge, Idle, AloneInv, Resting
  <2>2. /\ \A q \in Requests \ {r} : op'[q] = "none" /\ written'[q] = {}
        /\ op'[r] = "deleteEdge" /\ at'[r] = "nodes" /\ written'[r] = {}
        /\ edge'[r] = e /\ target'[r] = e.target
        /\ UNCHANGED graph
    BY <1>1, <2>1 DEF AskDeleteEdge, Goto, RequestsTypeOK
  <2>3. Connecting(r)' /\ DeletingEdge(r)' /\ DeletingNode(r)'
    BY <2>2 DEF Connecting, DeletingEdge, DeletingNode, Propagated, graph
  <2>4. AloneInv'
    BY <2>2, <2>3, KeptGraph, AloneAfter DEF AloneInv
  <2> QED BY <2>1, <2>2, <2>4, KeptIsStutter
<1>2. CASE Refuse(r) /\ ReadTarget(r)
  <2>1. op[r] = "deleteEdge" /\ written[r] = {}
    BY <1>2 DEF ReadTarget, Is, AloneInv, DeletingEdge, Propagated
  <2> QED BY <1>2, <2>1, AnsweredAlone
<1>3. CASE ReadTarget(r) /\ ~Refuse(r)
  <2>1. /\ op[r] = "deleteEdge" /\ at[r] = "nodes" /\ at'[r] = "raise"
        /\ amount'[r] = Lowering(target[r])
        /\ UNCHANGED <<graph, op, source, target, edge, rows, written, dropping>>
    BY <1>3 DEF ReadTarget, Is, Goto, RequestsTypeOK
  <2>2. /\ \A q \in Requests \ {r} : op[q] = "none" /\ written[q] = {}
        /\ written[r] = {} /\ edge[r] \in edges /\ target[r] = edge[r].target
    BY <2>1 DEF AloneInv, AtMostOne, Resting, DeletingEdge, Propagated
  <2>3. target[r] \in Nodes /\ SeenDepth = [n \in Nodes |-> depth[n]]
    BY <2>1, <2>2, SeenAlone DEF RequestsTypeOK, GraphTypeOK, Edge
  <2>4. UNCHANGED Serial!graph
    BY <2>1, <2>2, KeptIsStutter
  <2>5. amount'[r] = -SeenDepth'[target[r]]
    BY <2>1, <2>3, <2>4 DEF Lowering, Serial!graph
  <2>6. Connecting(r)' /\ DeletingEdge(r)' /\ DeletingNode(r)'
    BY <2>1, <2>2, <2>5 DEF Connecting, DeletingEdge, DeletingNode, Propagated, graph
  <2>7. AloneInv'
    BY <2>1, <2>2, <2>6, KeptGraph, AloneAfter DEF AloneInv
  <2> QED BY <2>4, <2>7
<1>4. CASE DropEdge(r)
  <2> DEFINE e == edge[r]
             t == target[r]
  <2>1. /\ op[r] = "deleteEdge" /\ at[r] = "drop" /\ e \in edges /\ t = e.target
        /\ amount[r] = -SeenDepth[t] /\ written[r] = Moved(t)
        /\ \A q \in Requests \ {r} : op[q] = "none"
    BY <1>4 DEF DropEdge, Is, AloneInv, AtMostOne, DeletingEdge, Propagated
  <2>2. t \in Alive /\ t \in Nodes
    BY <2>1 DEF AloneInv, EdgesJoinLiveNodes, RequestsTypeOK, GraphTypeOK, Edge
  <2>3. /\ edges' = edges \ {e} /\ Done(r)
        /\ UNCHANGED <<created, removed, depth, tracked, treelike>>
        /\ torn' = torn \ {e}
    BY <1>4 DEF DropEdge
  <2>4. EdgesJoinLiveNodes'
    BY <2>3 DEF AloneInv, EdgesJoinLiveNodes, Alive
  <2>5. AloneInv' /\ SeenDepth' = [n \in Nodes |-> depth[n]]
    BY <2>1, <2>3, <2>4, AloneAfterDone
  <2>6. /\ \A n \in Nodes : depth[n] \in Depths /\ depth[n] \in Int
        /\ amount[r] \in Int
    BY DepthBound DEF RequestsTypeOK, GraphTypeOK, Depths
  <2>7. \A n \in Nodes : SeenDepth[n] = IF n \in Moved(t) THEN depth[n] - amount[r]
                                                         ELSE depth[n]
    BY <2>1, SeenAlone
  <2>8. \A n \in Moved(t) : n \in Nodes
    BY <2>2, DescendantsAreNodes DEF Moved
  <2> HIDE DEF e, t
  <2>9. Serial!Lowering(t) = amount[r]
    BY <2>1 DEF Serial!Lowering
  <2>10. Serial!PropagateDepth(t, amount[r])
    <3>1. /\ Serial!Moved(t) = Moved(t)
          /\ \A d : Serial!Plus(d, amount[r]) = d + amount[r]
          /\ Serial!Depths = Depths
      BY SerialIsGraph DEF Plus
    <3>2. \A n \in Nodes : n \in Moved(t) => SeenDepth[n] + amount[r] = depth[n]
      BY <2>6, <2>7
    <3>3. \A n \in Serial!Moved(t) : Serial!Plus(SeenDepth[n], amount[r]) \in Depths
      BY <2>6, <2>8, <3>1, <3>2
    <3>4. SeenDepth' = [n \in Nodes |-> IF n \in Serial!Moved(t)
                                      THEN Serial!Plus(SeenDepth[n], amount[r])
                                      ELSE SeenDepth[n]]
      BY <2>5, <2>7, <3>1, <3>2
    <3> QED BY <3>1, <3>3, <3>4 DEF Serial!PropagateDepth, Serial!Deepen
  <2>11. Serial!DeleteEdge(e)
    BY <2>1, <2>2, <2>3, <2>9, <2>10, SerialIsGraph DEF Serial!DeleteEdge, Exists
  <2> QED BY <2>1, <2>5, <2>11 DEF Serial!GraphNext
<1> QED BY <1>1, <1>2, <1>3, <1>4

(* deleteNode and rollbacks.                                               *)
LEMMA DeleteNodeAlone ==
    ASSUME tracked, RequestsTypeOK, AloneInv, NEW r \in Requests,
           \/ \E n \in Nodes : AskDeleteNode(r, n)
           \/ DropIncident(r) \/ Mark(r) \/ CommitDelete(r) \/ Abort(r)
    PROVE  AloneInv' /\ (UNCHANGED Serial!graph \/ Serial!GraphNext)
<1>1. ASSUME NEW n \in Nodes, AskDeleteNode(r, n)
      PROVE  AloneInv' /\ UNCHANGED Serial!graph
  <2>1. \A q \in Requests : op[q] = "none" /\ written[q] = {}
    BY <1>1 DEF AskDeleteNode, Idle, AloneInv, Resting
  <2>2. /\ \A q \in Requests \ {r} : op'[q] = "none" /\ written'[q] = {}
        /\ op'[r] = "deleteNode" /\ at'[r] = "drop" /\ written'[r] = {}
        /\ target'[r] = n /\ n \in Alive /\ UNCHANGED graph
    BY <1>1, <2>1 DEF AskDeleteNode, Goto, Exists, RequestsTypeOK
  <2>3. Connecting(r)' /\ DeletingEdge(r)' /\ DeletingNode(r)'
    BY <2>2, KeptGraph DEF Connecting, DeletingEdge, DeletingNode
  <2>4. AloneInv'
    BY <2>2, <2>3, KeptGraph, AloneAfter DEF AloneInv
  <2> QED BY <2>1, <2>2, <2>4, KeptIsStutter
<1>2. CASE DropIncident(r) \/ Mark(r)
  <2>1. /\ op[r] = "deleteNode" /\ UNCHANGED <<graph, op, source, target, edge, amount>>
        /\ \A q \in Requests \ {r} : op[q] = "none" /\ written'[q] = {}
        /\ target[r] \in Alive
    BY <1>2 DEF DropIncident, Mark, Is, AloneInv, AtMostOne, Resting, DeletingNode,
                RequestsTypeOK
  <2>2. at'[r] \in {"mark", "commit"} /\ dropping'[r] = Incident(target[r])
    BY <1>2 DEF DropIncident, Mark, Is, Goto, AloneInv, DeletingNode, RequestsTypeOK
  <2>3. Connecting(r)' /\ DeletingEdge(r)' /\ DeletingNode(r)'
    BY <2>1, <2>2, KeptGraph DEF Connecting, DeletingEdge, DeletingNode
  <2>4. AloneInv'
    BY <2>1, <2>3, KeptGraph, AloneAfter DEF AloneInv
  <2> QED BY <2>1, <2>4, KeptIsStutter
<1>3. CASE CommitDelete(r)
  <2> DEFINE n == target[r]
  <2>1. /\ op[r] = "deleteNode" /\ n \in Alive /\ dropping[r] = Incident(n)
        /\ \A q \in Requests \ {r} : op[q] = "none"
    BY <1>3 DEF CommitDelete, Is, AloneInv, AtMostOne, DeletingNode
  <2>2. /\ edges' = edges \ Incident(n) /\ removed' = removed \cup {n}
        /\ treelike' = (treelike /\ Childless(n)) /\ torn' = torn \ Incident(n)
        /\ UNCHANGED <<created, depth, tracked>> /\ Done(r)
    BY <1>3, <2>1 DEF CommitDelete, Dropped
  <2>3. EdgesJoinLiveNodes'
    BY <2>2 DEF AloneInv, EdgesJoinLiveNodes, Incident, Alive
  <2>4. AloneInv' /\ SeenDepth' = [m \in Nodes |-> depth[m]]
    BY <2>1, <2>2, <2>3, AloneAfterDone
  <2>5. SeenDepth = [m \in Nodes |-> depth[m]]
    BY <2>1, SeenAlone
  <2>6. n \in Nodes
    BY <2>1 DEF RequestsTypeOK, GraphTypeOK, Alive
  <2> HIDE DEF n
  <2>7. Serial!DeleteNode(n)
    BY <2>1, <2>2, <2>4, <2>5, SerialIsGraph DEF Serial!DeleteNode, Exists
  <2> QED BY <2>4, <2>6, <2>7 DEF Serial!GraphNext
<1>4. CASE Abort(r)
  BY <1>4, AnsweredAlone DEF Abort, Transaction
<1> QED BY <1>1, <1>2, <1>3, <1>4

(* A deleteEdge that fails before it has written leaves nothing; one that  *)
(* fails later leaves the target or the whole subtree lowered.             *)
LEMMA ThrowAlone ==
    ASSUME tracked, RequestsTypeOK, AloneInv, NEW r \in Requests, Throw(r)
    PROVE  AloneInv' /\ (UNCHANGED Serial!graph \/ Serial!GraphNext)
<1> DEFINE e == edge[r]
           t == target[r]
           N == written[r]
<1>1. /\ op[r] = "deleteEdge" /\ Done(r)
      /\ UNCHANGED <<created, removed, edges, depth, tracked, treelike>>
      /\ torn' = TornAt(N)
  BY DEF Throw
<1>2. /\ e \in edges /\ t = e.target /\ Propagated(r)
      /\ at[r] \in {"nodes", "raise", "descend", "rows", "drop"}
      /\ at[r] # "nodes" => amount[r] = -SeenDepth[t]
      /\ \A q \in Requests \ {r} : op[q] = "none"
  BY <1>1 DEF AloneInv, AtMostOne, DeletingEdge
<1>3. t \in Alive /\ t \in Nodes
  BY <1>2 DEF AloneInv, EdgesJoinLiveNodes, RequestsTypeOK, GraphTypeOK, Edge
<1>4. EdgesJoinLiveNodes'
  BY <1>1 DEF AloneInv, EdgesJoinLiveNodes, Alive
<1>5. AloneInv' /\ SeenDepth' = [n \in Nodes |-> depth[n]]
  BY <1>1, <1>4, AloneAfterDone
<1>6. \A n \in Nodes : SeenDepth[n] = IF n \in N THEN depth[n] - amount[r] ELSE depth[n]
  BY <1>1, <1>2, SeenAlone
<1>7. CASE N = {}
  <2>1. SeenDepth' = SeenDepth
    BY <1>2, <1>5, <1>6, <1>7, SeenAlone
  <2>2. torn' = torn
    BY <1>1, <1>7 DEF TornAt, Crossing
  <2> QED BY <1>1, <1>5, <2>1, <2>2 DEF Serial!graph
<1>8. CASE N # {}
  <2>1. N \in {{t}, Moved(t)} /\ amount[r] = -SeenDepth[t]
    BY <1>2, <1>8 DEF Propagated
  <2>2. \A n \in N : n \in Nodes
    BY DEF RequestsTypeOK
  <2>3. \A n \in Nodes : depth[n] \in Depths /\ depth[n] \in Int
    BY DepthBound DEF RequestsTypeOK, GraphTypeOK, Depths
  <2>4. amount[r] \in Int
    BY DEF RequestsTypeOK
  <2> HIDE DEF e, t, N
  <2>5. Serial!Lowering(t) = amount[r]
    BY <2>1 DEF Serial!Lowering
  <2>6. /\ Serial!Moved(t) = Moved(t) /\ Serial!TornAt(N) = TornAt(N)
        /\ \A d : Serial!Plus(d, amount[r]) = d + amount[r]
        /\ Serial!Depths = Depths
    BY SerialIsGraph DEF Plus
  <2>7. \A n \in Nodes : n \in N => SeenDepth[n] + amount[r] = depth[n]
    BY <1>6, <2>3, <2>4
  <2>8. \A n \in N : Serial!Plus(SeenDepth[n], amount[r]) \in Depths
    BY <2>2, <2>3, <2>6, <2>7
  <2>9. SeenDepth' = [n \in Nodes |-> IF n \in N THEN Serial!Plus(SeenDepth[n], amount[r])
                                                 ELSE SeenDepth[n]]
    BY <1>5, <1>6, <2>6, <2>7
  <2>10. Serial!Deepen(N, Serial!Lowering(t)) /\ torn' = Serial!TornAt(N)
    BY <1>1, <2>5, <2>6, <2>8, <2>9 DEF Serial!Deepen, N
  <2>11. Serial!DeleteEdgeFails(e)
    BY <1>1, <1>2, <1>3, <2>1, <2>6, <2>10, SerialIsGraph DEF Serial!DeleteEdgeFails, Exists
  <2> QED BY <1>2, <1>5, <2>11 DEF Serial!GraphNext
<1> QED BY <1>7, <1>8

(* createNode inserts a row that no request at work has touched.           *)
LEMMA InsertAlone ==
    ASSUME tracked, RequestsTypeOK, AloneInv, NEW n \in Nodes, Insert(n)
    PROVE  AloneInv' /\ Serial!GraphNext
<1>1. /\ n \notin created /\ created' = created \cup {n} /\ depth' = [depth EXCEPT ![n] = 0]
      /\ UNCHANGED <<removed, edges, tracked, treelike, torn, op, at, locals>>
  BY DEF Insert, CreateNode
<1>2. /\ Alive \subseteq Alive' /\ n \notin Alive /\ EdgesJoinLiveNodes'
      /\ \A m : Moved(m)' = Moved(m) /\ Incident(m)' = Incident(m)
  BY <1>1 DEF Alive, AloneInv, EdgesJoinLiveNodes, Moved, Incident
<1>3. \A m \in Nodes : depth'[m] = IF m = n THEN 0 ELSE depth[m]
  BY <1>1 DEF RequestsTypeOK, GraphTypeOK
<1>4. CASE \A q \in Requests : op[q] = "none"
  <2>1. \A q \in Requests : op'[q] = "none"
    BY <1>1, <1>4
  <2>2. AloneInv'
    BY <1>1, <1>2, <2>1 DEF AloneInv, AtMostOne, Resting, Connecting, DeletingEdge,
                            DeletingNode, locals
  <2>3. SeenDepth = [m \in Nodes |-> depth[m]] /\ SeenDepth' = [m \in Nodes |-> depth'[m]]
    BY <1>4, <2>1 DEF SeenDepth
  <2>4. SeenDepth' = [SeenDepth EXCEPT ![n] = 0]
    BY <1>3, <2>3
  <2>5. Serial!CreateNode(n)
    BY <1>1, <2>4 DEF Serial!CreateNode
  <2> QED BY <2>2, <2>5 DEF Serial!GraphNext
<1>5. ASSUME NEW r \in Requests, op[r] # "none"
      PROVE  AloneInv' /\ Serial!GraphNext
  <2>1. /\ \A q \in Requests \ {r} : op[q] = "none" /\ op'[q] = "none" /\ written'[q] = {}
        /\ UNCHANGED <<op, at, source, target, edge, amount, rows, written, dropping>>
    BY <1>1, <1>5 DEF AloneInv, AtMostOne, Resting, locals
  <2>2. op[r] = "deleteEdge" => n \notin written[r] /\ target[r] \in Nodes \ {n}
    <3> SUFFICES ASSUME op[r] = "deleteEdge"
                 PROVE  n \notin written[r] /\ target[r] \in Nodes \ {n}
      OBVIOUS
    <3>1. /\ edge[r] \in edges /\ target[r] = edge[r].target /\ Propagated(r)
          /\ at[r] \in {"nodes", "raise", "descend", "rows", "drop"}
      BY DEF AloneInv, DeletingEdge
    <3>2. target[r] \in Alive /\ target[r] \in Nodes
      BY <3>1 DEF AloneInv, EdgesJoinLiveNodes, RequestsTypeOK, GraphTypeOK, Edge
    <3>3. n \notin Descendants(edges, target[r])
      <4>1. Closed(edges, Alive) /\ Alive \in SUBSET Nodes
        BY DEF Closed, AloneInv, EdgesJoinLiveNodes, RequestsTypeOK, GraphTypeOK, Alive
      <4>2. \A e \in edges : e.target \in Alive
        BY DEF AloneInv, EdgesJoinLiveNodes
      <4>3. \A e \in edges : n \notin Reaches(edges, e.target)
        BY <1>2, <4>1, <4>2 DEF Reaches
      <4> QED BY <4>3 DEF Descendants
    <3> QED BY <1>2, <3>1, <3>2, <3>3 DEF Propagated, Moved
  <2>3. /\ SeenDepth = [m \in Nodes |-> IF op[r] = "deleteEdge" /\ m \in written[r]
                                        THEN depth[m] - amount[r] ELSE depth[m]]
        /\ SeenDepth' = [m \in Nodes |-> IF op[r] = "deleteEdge" /\ m \in written[r]
                                         THEN depth'[m] - amount[r] ELSE depth'[m]]
    BY <2>1, SeenAlone, SeenAloneNext
  <2>4. SeenDepth' = [SeenDepth EXCEPT ![n] = 0]
    BY <1>3, <2>2, <2>3
  <2>5. Serial!CreateNode(n)
    BY <1>1, <2>4 DEF Serial!CreateNode
  <2>6. Propagated(r) => Propagated(r)'
    BY <1>1, <1>2, <2>1 DEF Propagated
  <2>7. Connecting(r)'
    <3> SUFFICES ASSUME op[r] = "connect" PROVE Connecting(r)'
      BY <2>1 DEF Connecting
    <3>1. at[r] # "nodes" => source[r] \in Nodes /\ source[r] # n
      BY <1>2 DEF AloneInv, Connecting, RequestsTypeOK
    <3>2. at[r] # "nodes" => Plus(depth[source[r]], 1)' = Plus(depth[source[r]], 1)
      BY <1>1, <1>3, <2>1, <3>1 DEF Plus
    <3>3. Connectable(r)' = Connectable(r)
      BY <1>1, <2>1 DEF Connectable, NotConnected
    <3> QED BY <1>2, <2>1, <2>6, <3>2, <3>3 DEF AloneInv, Connecting
  <2>8. DeletingEdge(r)'
    <3> SUFFICES ASSUME op[r] = "deleteEdge" PROVE DeletingEdge(r)'
      BY <2>1 DEF DeletingEdge
    <3>1. SeenDepth'[target[r]] = SeenDepth[target[r]]
      BY <2>2, <2>3, <2>4
    <3> QED BY <1>1, <2>1, <2>6, <3>1 DEF AloneInv, DeletingEdge
  <2>9. DeletingNode(r)'
    BY <1>2, <2>1 DEF AloneInv, DeletingNode
  <2>10. AloneInv'
    BY <1>2, <1>5, <2>1, <2>7, <2>8, <2>9, AloneAfter
  <2> QED BY <2>5, <2>10 DEF Serial!GraphNext
<1> QED BY <1>4, <1>5

(* Where requests are served alone, every step of one is a step of Graph   *)
(* or none.                                                                *)
LEMMA AloneStep ==
    RequestsTypeOK /\ (tracked => AloneInv) /\ [RequestsNext]_rvars
        => /\ (tracked => AloneInv)'
           /\ tracked' = tracked
           /\ tracked => UNCHANGED Serial!graph \/ Serial!GraphNext
<1> SUFFICES ASSUME RequestsTypeOK, tracked => AloneInv, [RequestsNext]_rvars
             PROVE  /\ (tracked => AloneInv)'
                    /\ tracked' = tracked
                    /\ tracked => UNCHANGED Serial!graph \/ Serial!GraphNext
  OBVIOUS
<1>1. tracked' = tracked
  <2>1. CASE UNCHANGED rvars \/ \E n \in Nodes : Insert(n)
    BY <2>1 DEF rvars, graph, Insert, CreateNode
  <2>2. ASSUME NEW r \in Requests,
               \/ \E s, t \in Nodes : AskConnect(r, s, t)
               \/ \E e \in edges : AskDeleteEdge(r, e)
               \/ \E n \in Nodes : AskDeleteNode(r, n)
               \/ RaiseTarget(r) \/ ReadDescendants(r) \/ RaiseDescendants(r)
               \/ DropIncident(r) \/ Mark(r)
        PROVE  tracked' = tracked
    BY <2>2 DEF AskConnect, AskDeleteEdge, AskDeleteNode, RaiseTarget, ReadDescendants,
                RaiseDescendants, Write, DropIncident, Mark, graph
  <2>3. ASSUME NEW r \in Requests,
               \/ ReadNodes(r) \/ ReadEdges(r) \/ ReadTarget(r) \/ Abort(r)
               \/ CommitConnect(r) \/ DropEdge(r) \/ Throw(r) \/ CommitDelete(r)
        PROVE  tracked' = tracked
    BY <2>3 DEF ReadNodes, ReadEdges, ReadTarget, Abort, CommitConnect, DropEdge, Throw,
                CommitDelete, Refuse, graph
  <2> QED BY <2>1, <2>2, <2>3 DEF RequestsNext
<1>2. ASSUME tracked PROVE AloneInv' /\ (UNCHANGED Serial!graph \/ Serial!GraphNext)
  <2>1. CASE UNCHANGED rvars
    <3>1. SeenDepth' = SeenDepth
      BY <2>1 DEF rvars, locals, graph, SeenDepth
    <3>2. UNCHANGED Serial!graph
      BY <2>1, <3>1 DEF rvars, graph, Serial!graph
    <3>3. UNCHANGED <<graph, op, at, source, target, edge, amount, rows, written, dropping>>
      BY <2>1 DEF rvars, locals
    <3>4. \A r \in Requests : Propagated(r)' = Propagated(r)
      BY <3>3 DEF Propagated, Moved, graph
    <3>5. \A r \in Requests : /\ Connecting(r) => Connecting(r)'
                              /\ DeletingEdge(r) => DeletingEdge(r)'
                              /\ DeletingNode(r) => DeletingNode(r)'
      BY <3>1, <3>3, <3>4 DEF Connecting, Connectable, NotConnected, Plus, DeletingEdge,
                              DeletingNode, Incident, Alive, graph
    <3>6. AloneInv'
      BY <1>2, <3>3, <3>5, KeptGraph DEF AloneInv, AtMostOne, Resting
    <3> QED BY <3>2, <3>6
  <2> QED BY <1>2, <2>1, InsertAlone, ConnectAlone, PropagateAlone, DeleteEdgeAlone,
             DeleteNodeAlone, ThrowAlone DEF RequestsNext
<1> QED BY <1>1, <1>2

LEMMA AloneStart == RequestsInit => AloneInv /\ Serial!GraphInit
<1> SUFFICES ASSUME RequestsInit PROVE AloneInv /\ Serial!GraphInit
  OBVIOUS
<1>1. \A r \in Requests : op[r] = "none" /\ written[r] = {}
  BY DEF RequestsInit
<1>2. AloneInv
  BY <1>1 DEF AloneInv, AtMostOne, Resting, Connecting, DeletingEdge, DeletingNode,
              EdgesJoinLiveNodes, RequestsInit, GraphInit
<1>3. SeenDepth = [n \in Nodes |-> 0]
  BY <1>1 DEF SeenDepth, RequestsInit, GraphInit
<1> QED BY <1>2, <1>3 DEF RequestsInit, GraphInit, Serial!GraphInit

(* A request served alone does what Graph says it does in one step, or     *)
(* nothing, for every graph, whatever it finds and wherever it fails:      *)
(* connectNodes and deleteNode are all or nothing, and a deleteEdge that   *)
(* fails leaves exactly what Graph's DeleteEdgeFails leaves.               *)
THEOREM RequestsImplementGraph == RequestsSpec => ServedAsOne
<1>1. RequestsTypeOK /\ (tracked => AloneInv) /\ [RequestsNext]_rvars
         => (tracked => AloneInv)' /\ [tracked => Serial!GraphNext]_(Serial!graph)
  BY AloneStep
<1> QED BY <1>1, AloneStart, RequestTypes, PTL DEF RequestsSpec, ServedAsOne

-----------------------------------------------------------------------------
(***************************************************************************)
(* Depths in a forest with nodes A and edges E, of which those in X are    *)
(* torn.  propagateDepth moves a node and all below it: every edge has     *)
(* either both its ends among them or none, but for those that enter the   *)
(* node itself.                                                            *)
(***************************************************************************)

Forest(A, E, D, X) ==
    /\ E \subseteq Edge
    /\ \A e \in E : e.source \in A /\ e.target \in A
    /\ \A d, e \in E : d.target = e.target => d = e
    /\ \A t \in A : D[t] \in Int
    /\ \A t \in A : (\A e \in E : e.target # t) => D[t] = 0
    /\ \A e \in E \ X : D[e.target] = D[e.source] + 1

(* A node below t is a child of t or of another one below it.              *)
LEMMA BelowHasParent ==
    ASSUME NEW E \in SUBSET Edge, NEW t \in Nodes, NEW x \in Descendants(E, t)
    PROVE  \E e \in E : e.target = x /\ e.source \in {t} \cup Descendants(E, t)
<1>1. PICK d \in E : d.source = t /\ x \in Reaches(E, d.target)
  BY DEF Descendants
<1>2. CASE x = d.target
  BY <1>1, <1>2
<1>3. CASE x # d.target
  <2> SUFFICES ASSUME \A e \in E : e.target = x => e.source \notin {t} \cup Descendants(E, t)
               PROVE  FALSE
    OBVIOUS
  <2> DEFINE S == Reaches(E, d.target) \ {x}
  <2>1. Reaches(E, d.target) \subseteq Descendants(E, t)
    BY <1>1 DEF Descendants
  <2>2. d.target \in S
    BY <1>3 DEF Reaches, Edge
  <2>3. Closed(E, S)
    <3> SUFFICES ASSUME NEW e \in E, e.source \in S PROVE e.target \in S
      BY DEF Closed
    <3>1. e.target \in Reaches(E, d.target)
      BY DEF Reaches, Closed, Edge
    <3>2. e.target # x
      BY <2>1
    <3> QED BY <3>1, <3>2
  <2>4. S \in SUBSET Nodes
    BY DEF Reaches
  <2> HIDE DEF S
  <2>5. x \in S
    BY <1>1, <2>2, <2>3, <2>4 DEF Reaches
  <2> QED BY <2>5 DEF S
<1> QED BY <1>2, <1>3

(* The children of t and of the nodes below it are below t.                *)
LEMMA BelowIsClosed ==
    ASSUME NEW E \in SUBSET Edge, NEW t \in Nodes, NEW e \in E,
           e.source \in {t} \cup Descendants(E, t)
    PROVE  e.target \in Descendants(E, t)
<1>1. CASE e.source = t
  <2>1. e.target \in Reaches(E, e.target)
    BY DEF Reaches, Edge
  <2> QED BY <1>1, <2>1 DEF Descendants
<1>2. CASE e.source \in Descendants(E, t)
  <2>1. PICK d \in E : d.source = t /\ e.source \in Reaches(E, d.target)
    BY <1>2 DEF Descendants
  <2>2. e.target \in Reaches(E, d.target)
    BY <2>1 DEF Reaches, Closed, Edge
  <2> QED BY <2>1, <2>2 DEF Descendants
<1> QED BY <1>1, <1>2

(* F is D with t and all below it moved by k.                              *)
ShiftedBelow(A, E, D, t, k, F) ==
    \A n \in A : F[n] = IF n \in {t} \cup Descendants(E, t) THEN D[n] + k ELSE D[n]

(* The depths F are the levels except where an edge is torn or enters t.   *)
LevelsBut(A, E, X, t, F) ==
    /\ \A n \in A : F[n] \in Int
    /\ \A e \in E \ X : e.target # t => F[e.target] = F[e.source] + 1
    /\ \A n \in A \ {t} : (\A e \in E : e.target # n) => F[n] = 0

(* Moving t and all below it disturbs only the edges that enter t.         *)
LEMMA ShiftKeepsLevels ==
    ASSUME NEW A \in SUBSET Nodes, NEW E, NEW D, NEW X, Forest(A, E, D, X), NEW t \in A, NEW k \in Int,
           NEW F, ShiftedBelow(A, E, D, t, k, F)
    PROVE  LevelsBut(A, E, X, t, F)
<1>1. /\ E \in SUBSET Edge /\ \A e \in E : e.source \in A /\ e.target \in A
      /\ \A d, e \in E : d.target = e.target => d = e
      /\ \A n \in A : D[n] \in Int
      /\ \A e \in E \ X : D[e.target] = D[e.source] + 1
      /\ \A n \in A : (\A e \in E : e.target # n) => D[n] = 0
  BY DEF Forest
<1>2. \A n \in A : F[n] \in Int
  BY <1>1 DEF ShiftedBelow
<1>3. ASSUME NEW e \in E \ X, e.target # t
      PROVE  F[e.target] = F[e.source] + 1
  <2>1. e.source \in {t} \cup Descendants(E, t) <=> e.target \in {t} \cup Descendants(E, t)
    <3>1. CASE e.source \in {t} \cup Descendants(E, t)
      BY <1>1, <3>1, BelowIsClosed
    <3>2. CASE e.target \in Descendants(E, t)
      <4>1. PICK d \in E : d.target = e.target /\ d.source \in {t} \cup Descendants(E, t)
        BY <1>1, <3>2, BelowHasParent
      <4>2. d = e
        BY <1>1, <4>1
      <4> QED BY <3>2, <4>1, <4>2
    <3> QED BY <1>3, <3>1, <3>2
  <2>2. e.source \in A /\ e.target \in A /\ D[e.source] \in Int
    BY <1>1
  <2> QED BY <1>1, <2>1, <2>2 DEF ShiftedBelow
<1>4. ASSUME NEW n \in A \ {t}, \A e \in E : e.target # n
      PROVE  F[n] = 0
  <2>1. n \notin Descendants(E, t)
    BY <1>1, <1>4, BelowHasParent
  <2> QED BY <1>1, <1>4, <2>1 DEF ShiftedBelow
<1> QED BY <1>2, <1>3, <1>4 DEF LevelsBut

(* A root put below a node it does not reach.                              *)
LEMMA LinkedForest ==
    ASSUME NEW A \in SUBSET Nodes, NEW E, NEW D, NEW X, Forest(A, E, D, X), NEW s \in A, NEW t \in A,
           s \notin {t} \cup Descendants(E, t), \A e \in E : e.target # t,
           NEW i \in EdgeIds, NEW F, ShiftedBelow(A, E, D, t, D[s] + 1, F)
    PROVE  Forest(A, E \cup {[id |-> i, source |-> s, target |-> t]}, F, X)
<1> DEFINE new == [id |-> i, source |-> s, target |-> t]
           k == D[s] + 1
<1>1. /\ E \subseteq Edge /\ \A e \in E : e.source \in A /\ e.target \in A
      /\ \A d, e \in E : d.target = e.target => d = e
      /\ D[s] \in Int /\ D[t] = 0 /\ k \in Int
  BY DEF Forest
<1>2. new \in Edge /\ new.source = s /\ new.target = t
  BY DEF Edge
<1>3. LevelsBut(A, E, X, t, F)
  <2>1. ShiftedBelow(A, E, D, t, k, F)
    OBVIOUS
  <2>2. k \in Int
    BY <1>1
  <2> HIDE DEF k
  <2> QED BY <2>1, <2>2, ShiftKeepsLevels
<1>4. F[t] = F[s] + 1
  BY <1>1 DEF ShiftedBelow
<1> HIDE DEF new, k
<1> QED BY <1>1, <1>2, <1>3, <1>4 DEF Forest, LevelsBut, new

(* A subtree cut off, with the depth of its root taken off it.             *)
LEMMA CutForest ==
    ASSUME NEW A \in SUBSET Nodes, NEW E, NEW D, NEW X, Forest(A, E, D, X), NEW e \in E, NEW F,
           ShiftedBelow(A, E, D, e.target, -D[e.target], F)
    PROVE  Forest(A, E \ {e}, F, X \ {e})
<1> DEFINE t == e.target
           k == -D[t]
<1>1. /\ E \subseteq Edge /\ \A d \in E : d.source \in A /\ d.target \in A
      /\ \A c, d \in E : c.target = d.target => c = d
      /\ t \in A /\ D[t] \in Int /\ k \in Int
  BY DEF Forest
<1>2. LevelsBut(A, E, X, t, F)
  <2>1. ShiftedBelow(A, E, D, t, k, F)
    OBVIOUS
  <2>2. t \in A /\ k \in Int
    BY <1>1
  <2> HIDE DEF t, k
  <2> QED BY <2>1, <2>2, ShiftKeepsLevels
<1>3. F[t] = 0
  BY <1>1 DEF ShiftedBelow
<1>4. \A d \in E \ {e} : d.target # t
  BY <1>1
<1>5. \A n \in A : (\A d \in E \ {e} : d.target # n) => n = t \/ \A d \in E : d.target # n
  OBVIOUS
<1> HIDE DEF t, k
<1> QED BY <1>1, <1>2, <1>3, <1>4, <1>5 DEF Forest, LevelsBut

(* F is D with the nodes in N moved by k.                                  *)
ShiftedAt(A, D, N, k, F) == \A n \in A : F[n] = IF n \in N THEN D[n] + k ELSE D[n]

(* A subtree with its root, or the root alone, lowered while its edge is   *)
(* kept: what comes between depths is torn.                                *)
LEMMA TornForest ==
    ASSUME NEW A \in SUBSET Nodes, NEW E, NEW D, NEW X, Forest(A, E, D, X), NEW e \in E,
           NEW N, N \subseteq {e.target} \cup Descendants(E, e.target), NEW k \in Int, NEW F,
           ShiftedAt(A, D, N, k, F)
    PROVE  Forest(A, E, F, X \cup {d \in E : (d.source \in N) # (d.target \in N)})
<1> DEFINE Y == X \cup {d \in E : (d.source \in N) # (d.target \in N)}
<1>1. /\ E \in SUBSET Edge /\ \A d \in E : d.source \in A /\ d.target \in A
      /\ \A c, d \in E : c.target = d.target => c = d
      /\ \A n \in A : D[n] \in Int
      /\ \A d \in E \ X : D[d.target] = D[d.source] + 1
      /\ \A n \in A : (\A d \in E : d.target # n) => D[n] = 0
  BY DEF Forest
<1>2. \A n \in A : F[n] \in Int
  BY <1>1 DEF ShiftedAt
<1>3. ASSUME NEW d \in E \ Y
      PROVE  F[d.target] = F[d.source] + 1
  <2>1. (d.source \in N <=> d.target \in N) /\ d \notin X
    OBVIOUS
  <2>2. d.source \in A /\ d.target \in A /\ D[d.source] \in Int
    BY <1>1
  <2> QED BY <1>1, <2>1, <2>2 DEF ShiftedAt
<1>4. ASSUME NEW n \in A, \A d \in E : d.target # n
      PROVE  F[n] = 0
  <2>1. n \notin Descendants(E, e.target)
    BY <1>1, <1>4, BelowHasParent
  <2> QED BY <1>1, <1>4, <2>1 DEF ShiftedAt
<1> HIDE DEF Y
<1>5. Forest(A, E, F, Y)
  BY <1>1, <1>2, <1>3, <1>4 DEF Forest
<1> QED BY <1>5 DEF Y

(* A new node, and a leaf that goes.                                       *)
LEMMA GrownForest ==
    ASSUME NEW A \in SUBSET Nodes, NEW E, NEW D, NEW X, Forest(A, E, D, X),
           NEW n \in Nodes \ A, NEW F, \A m \in A : F[m] = D[m], F[n] = 0
    PROVE  Forest(A \cup {n}, E, F, X)
BY DEF Forest

LEMMA PrunedForest ==
    ASSUME NEW A \in SUBSET Nodes, NEW E, NEW D, NEW X, Forest(A, E, D, X), NEW n \in A,
           \A e \in E : e.source # n
    PROVE  Forest(A \ {n}, {e \in E : n \notin {e.source, e.target}}, D,
                  X \ {e \in E : n \in {e.source, e.target}})
BY DEF Forest

(* What is below t is met from t.                                          *)
LEMMA BelowIsMet ==
    ASSUME NEW E, NEW t \in Nodes
    PROVE  Descendants(E, t) \subseteq Reaches(E, t)
<1> SUFFICES ASSUME NEW e \in E, e.source = t, NEW x \in Reaches(E, e.target)
             PROVE  x \in Reaches(E, t)
  BY DEF Descendants
<1>1. \A S \in SUBSET Nodes : t \in S /\ Closed(E, S) => e.target \in S
  BY DEF Closed
<1> QED BY <1>1 DEF Reaches

(* The graph as clients see it between the steps of the request at work.   *)
TreeSeen == tracked /\ treelike => Forest(Alive, edges, SeenDepth, torn)

(* The steps of Graph build trees from trees.                              *)
LEMMA TreesGrow ==
    ASSUME tracked, RequestsTypeOK, EdgesJoinLiveNodes, TreeSeen, Serial!GraphNext
    PROVE  TreeSeen'
<1>1. /\ Alive \in SUBSET Nodes /\ removed \subseteq created /\ created \subseteq Nodes
      /\ DOMAIN SeenDepth = Nodes
  BY DEF RequestsTypeOK, GraphTypeOK, Alive, SeenDepth
<1>2. ASSUME NEW n \in Nodes, Serial!CreateNode(n) PROVE TreeSeen'
  <2> SUFFICES ASSUME treelike' PROVE Forest(Alive', edges', SeenDepth', torn')
    BY DEF TreeSeen
  <2>1. /\ n \notin created /\ created' = created \cup {n} /\ UNCHANGED <<removed, edges, torn>>
        /\ SeenDepth' = [SeenDepth EXCEPT ![n] = 0] /\ treelike
    BY <1>2 DEF Serial!CreateNode
  <2>2. Alive' = Alive \cup {n} /\ n \in Nodes \ Alive
    BY <1>1, <2>1 DEF Alive
  <2>3. SeenDepth'[n] = 0 /\ \A m \in Alive : SeenDepth'[m] = SeenDepth[m]
    BY <1>1, <2>1, <2>2
  <2>4. Forest(Alive, edges, SeenDepth, torn)
    BY <2>1 DEF TreeSeen
  <2>5. Forest(Alive \cup {n}, edges, SeenDepth', torn)
    BY <1>1, <2>2, <2>3, <2>4, GrownForest
  <2> QED BY <2>1, <2>2, <2>5
<1>3. ASSUME NEW t \in Alive, NEW k \in Int, Serial!PropagateDepth(t, k),
             Forest(Alive, edges, SeenDepth, torn)
      PROVE  ShiftedBelow(Alive, edges, SeenDepth, t, k, SeenDepth')
  <2>1. \A n \in Alive :
           SeenDepth'[n] = IF n \in Moved(t) THEN SeenDepth[n] + k ELSE SeenDepth[n]
    BY <1>1, <1>3, SerialIsGraph DEF Serial!PropagateDepth, Serial!Deepen, Plus
  <2>2. \A n \in Alive : n \in Moved(t) <=> n \in {t} \cup Descendants(edges, t)
    BY DEF Moved, Alive
  <2> QED BY <2>1, <2>2 DEF ShiftedBelow
<1>4. ASSUME NEW s \in Nodes, NEW t \in Nodes, Serial!ConnectNodes(s, t) PROVE TreeSeen'
  <2> SUFFICES ASSUME treelike' PROVE Forest(Alive', edges', SeenDepth', torn')
    BY DEF TreeSeen
  <2>1. /\ s # t /\ s \in Alive /\ t \in Alive /\ ~HasCycle(s, t, edges)
        /\ Serial!PropagateDepth(t, Serial!Plus(SeenDepth[s], 1))
        /\ treelike /\ Parentless(t)
        /\ UNCHANGED <<created, removed, torn>>
    BY <1>4, SerialIsGraph DEF Serial!ConnectNodes, Exists
  <2>2. PICK i \in EdgeIds : edges' = edges \cup {[id |-> i, source |-> s, target |-> t]}
    BY <1>4 DEF Serial!ConnectNodes
  <2>3. Forest(Alive, edges, SeenDepth, torn) /\ SeenDepth[s] + 1 \in Int
    BY <2>1 DEF TreeSeen, Forest
  <2>4. Serial!Plus(SeenDepth[s], 1) = SeenDepth[s] + 1
    BY SerialIsGraph DEF Plus
  <2>5. ShiftedBelow(Alive, edges, SeenDepth, t, SeenDepth[s] + 1, SeenDepth')
    BY <1>3, <2>1, <2>3, <2>4
  <2>6. s \notin {t} \cup Descendants(edges, t) /\ \A e \in edges : e.target # t
    BY <2>1, BelowIsMet DEF HasCycle, Parentless
  <2>7. Forest(Alive, edges \cup {[id |-> i, source |-> s, target |-> t]}, SeenDepth', torn)
    BY <1>1, <2>1, <2>3, <2>5, <2>6, LinkedForest
  <2> QED BY <2>1, <2>2, <2>7 DEF Alive
<1>5. ASSUME NEW e \in edges, Serial!DeleteEdge(e) PROVE TreeSeen'
  <2> SUFFICES ASSUME treelike' PROVE Forest(Alive', edges', SeenDepth', torn')
    BY DEF TreeSeen
  <2>1. /\ Serial!PropagateDepth(e.target, -SeenDepth[e.target])
        /\ edges' = edges \ {e} /\ torn' = torn \ {e} /\ treelike /\ e.target \in Alive
        /\ UNCHANGED <<created, removed>>
    BY <1>5, SerialIsGraph DEF Serial!DeleteEdge, Serial!Lowering, Exists
  <2>2. Forest(Alive, edges, SeenDepth, torn) /\ -SeenDepth[e.target] \in Int
    BY <2>1 DEF TreeSeen, Forest
  <2>3. ShiftedBelow(Alive, edges, SeenDepth, e.target, -SeenDepth[e.target], SeenDepth')
    BY <1>3, <2>1, <2>2
  <2>4. Forest(Alive, edges \ {e}, SeenDepth', torn \ {e})
    BY <1>1, <2>2, <2>3, CutForest
  <2> QED BY <2>1, <2>4 DEF Alive
<1>6. ASSUME NEW n \in Nodes, Serial!DeleteNode(n) PROVE TreeSeen'
  <2> SUFFICES ASSUME treelike' PROVE Forest(Alive', edges', SeenDepth', torn')
    BY DEF TreeSeen
  <2>1. /\ n \in Alive /\ edges' = edges \ Incident(n) /\ removed' = removed \cup {n}
        /\ treelike /\ Childless(n) /\ SeenDepth' = SeenDepth /\ created' = created
        /\ torn' = torn \ Incident(n)
    BY <1>6, SerialIsGraph DEF Serial!DeleteNode, Exists
  <2>2. /\ Alive' = Alive \ {n}
        /\ edges' = {e \in edges : n \notin {e.source, e.target}}
        /\ torn' = torn \ {e \in edges : n \in {e.source, e.target}}
    BY <2>1 DEF Alive, Incident
  <2>3. Forest(Alive, edges, SeenDepth, torn)
    BY <2>1 DEF TreeSeen
  <2>4. \A e \in edges : e.source # n
    BY <2>1 DEF Childless
  <2>5. Forest(Alive \ {n}, {e \in edges : n \notin {e.source, e.target}}, SeenDepth,
              torn \ {e \in edges : n \in {e.source, e.target}})
    BY <1>1, <2>1, <2>3, <2>4, PrunedForest
  <2> QED BY <2>1, <2>2, <2>5
<1>7. ASSUME NEW e \in edges, Serial!DeleteEdgeFails(e) PROVE TreeSeen'
  <2> SUFFICES ASSUME treelike' PROVE Forest(Alive', edges', SeenDepth', torn')
    BY DEF TreeSeen
  <2>1. /\ treelike /\ e.target \in Alive /\ UNCHANGED <<created, removed, edges>>
        /\ e.target \in Nodes
    BY <1>1, <1>7, SerialIsGraph DEF Serial!DeleteEdgeFails, Exists
  <2>2. PICK N \in {{e.target}, Moved(e.target)} :
            Serial!Deepen(N, -SeenDepth[e.target]) /\ torn' = TornAt(N)
    BY <1>7, SerialIsGraph DEF Serial!DeleteEdgeFails, Serial!Lowering
  <2>3. N \subseteq {e.target} \cup Descendants(edges, e.target)
    BY <2>2 DEF Moved
  <2>4. Forest(Alive, edges, SeenDepth, torn) /\ -SeenDepth[e.target] \in Int
    BY <2>1 DEF TreeSeen, Forest
  <2>5. \A n \in Alive : SeenDepth'[n] = IF n \in N THEN SeenDepth[n] + (-SeenDepth[e.target])
                                                    ELSE SeenDepth[n]
    BY <1>1, <2>2, SerialIsGraph DEF Serial!Deepen, Plus
  <2>6. torn' = torn \cup {d \in edges : (d.source \in N) # (d.target \in N)}
    BY <2>2 DEF TornAt, Crossing
  <2>7. Forest(Alive, edges, SeenDepth',
               torn \cup {d \in edges : (d.source \in N) # (d.target \in N)})
    <3> DEFINE k == -SeenDepth[e.target]
    <3>1. k \in Int /\ \A n \in Alive : SeenDepth'[n] = IF n \in N THEN SeenDepth[n] + k
                                                                  ELSE SeenDepth[n]
      BY <2>4, <2>5
    <3>2. Forest(Alive, edges, SeenDepth, torn) /\ e \in edges
      BY <2>4
    <3> HIDE DEF k
    <3>3. ShiftedAt(Alive, SeenDepth, N, k, SeenDepth')
      BY <3>1 DEF ShiftedAt
    <3>4. Alive \in SUBSET Nodes /\ k \in Int
      BY <1>1, <3>1
    <3> QED BY <2>3, <3>2, <3>3, <3>4, TornForest
  <2> QED BY <2>1, <2>6, <2>7 DEF Alive
<1> QED BY <1>2, <1>4, <1>5, <1>6, <1>7 DEF Serial!GraphNext

(* Served alone, requests leave no edge to a node that is gone, and as     *)
(* long as clients build trees each depth is the level in the tree: the    *)
(* increments of connectNodes and deleteEdge add up, whatever subtrees are *)
(* connected, cut off and connected again.  A deleteEdge that fails half   *)
(* way does damage across the edges it has torn and nowhere else, however  *)
(* often that happens, and none that outlives those edges.                 *)
THEOREM DepthsAreLevels == RequestsSpec => []TreesStayTrees
<1>1. RequestsInit => TreeSeen
  BY DEF RequestsInit, GraphInit, TreeSeen, Forest, Alive, Edge
<1>2. RequestsTypeOK /\ (tracked => AloneInv) /\ TreeSeen /\ [RequestsNext]_rvars
         => TreeSeen'
  <2> SUFFICES ASSUME RequestsTypeOK, tracked => AloneInv, TreeSeen, [RequestsNext]_rvars
               PROVE  TreeSeen'
    OBVIOUS
  <2>1. tracked' = tracked /\ (tracked => UNCHANGED Serial!graph \/ Serial!GraphNext)
    BY AloneStep
  <2>2. CASE ~tracked
    BY <2>1, <2>2 DEF TreeSeen
  <2>3. CASE tracked /\ UNCHANGED Serial!graph
    BY <2>1, <2>3 DEF TreeSeen, Serial!graph, Alive
  <2>4. CASE tracked /\ Serial!GraphNext
    BY <2>4, TreesGrow DEF AloneInv
  <2> QED BY <2>1, <2>2, <2>3, <2>4
<1>3. (tracked => AloneInv) /\ TreeSeen => TreesStayTrees
  <2> SUFFICES ASSUME tracked, AloneInv, TreeSeen
               PROVE  Serial!LevelsMatch /\ Serial!EdgesJoinLiveNodes
    BY DEF TreesStayTrees
  <2>1. Serial!EdgesJoinLiveNodes
    BY SerialIsGraph DEF AloneInv, EdgesJoinLiveNodes, Serial!EdgesJoinLiveNodes
  <2>2. Serial!LevelsMatch
    BY SerialIsGraph DEF TreeSeen, Forest, Parentless, Serial!LevelsMatch
  <2> QED BY <2>1, <2>2
<1>4. RequestsTypeOK /\ (tracked => AloneInv) /\ [RequestsNext]_rvars => (tracked => AloneInv)'
  BY AloneStep
<1> QED BY <1>1, <1>2, <1>3, <1>4, AloneStart, RequestTypes, PTL DEF RequestsSpec

=============================================================================
