------------------------------ MODULE NodeRows ------------------------------
(***************************************************************************)
(* What the rows of the nodes table hold, under concurrent requests:       *)
(* updateNodePosition and updateNodeMeta (src/src/node/node.service.ts)    *)
(* and the saveToDb of the documents (src/src/yjs/yjs-crdt.service.ts),    *)
(* statement by statement.  None of them is a transaction: each statement  *)
(* commits at once.  content is read, changed in memory and written back   *)
(* whole; version is incremented by these writes and compared by none.     *)
(*                                                                         *)
(* The edges are fixed (GraphRequests is about them), of the two           *)
(* coordinates x is followed, and the value a request writes is the        *)
(* request itself.  Only nodes without children are deleted.               *)
(***************************************************************************)
EXTENDS Integers, FiniteSetsExt

CONSTANTS
    Nodes,
    Projects,  \* nodes made by fromProjectDto, the others by fromMarkDownDto
    Edges,     \* pairs <<source, target>>, without a cycle
    Requests,  \* bound: requests served, each once
    Targets,   \* positions nodes are moved to
    Initial,   \* the values a node is created with
    Nil        \* no such field

ASSUME EdgesJoinNodes == Projects \subseteq Nodes /\ Edges \subseteq Nodes \X Nodes
ASSUME EdgesAreAcyclic ==
    \A n \in Nodes : \E S \in SUBSET (Nodes \ {n}) :
        \A e \in Edges : e[1] \in S \cup {n} => e[2] \in S
ASSUME RequestsAreFinite == IsFiniteSet(Requests)
ASSUME TargetsAreInts == Targets \subseteq Int
ASSUME ValuesDiffer == {Initial, Nil} \cap Requests = {} /\ Initial # Nil

Fields == {"color", "textColor", "markdownBody"}
Values == Requests \cup {Initial, Nil}
Content == [Fields -> Values]

VARIABLES
    position, content, version,  \* nodes.position_x, content, version
    state,     \* the text in nodes.yjs_state (Nil: none yet)
    removed,   \* nodes with deleted_at set
    op, at,    \* the operation of a request and the statement it is at
    node,      \* its node
    x, delta,  \* updateNodePosition: the new position, deltaX
    fields,    \* updateNodeMeta: which of color and textColor it sets
    deep,      \* updateNodeMeta: propagateToChildren
    got, seen, \* the contents it has read, and the versions then
    rows       \* descendants it has still to write

table == <<position, content, version, state, removed>>
locals == <<op, at, node, x, delta, fields, deep, got, seen, rows>>
rowvars == <<table, locals>>

RowsTypeOK ==
    /\ position \in [Nodes -> Int]
    /\ content \in [Nodes -> Content]
    /\ version \in [Nodes -> Nat]
    /\ state \in [Nodes -> Values]
    /\ removed \subseteq Nodes
    /\ op \in [Requests -> {"none", "move", "meta", "save", "done"}]
    /\ at \in [Requests -> {"start", "write", "descend", "shift", "fetch", "spread"}]
    /\ got \in [Requests -> [Nodes -> Content \cup {Nil}]]
    /\ \A r \in Requests : /\ (op[r] \in {"none", "done"}) = (at[r] = "start")
                           /\ at[r] # "start" => node[r] \in Nodes
    /\ \A r \in Requests : at[r] = "spread" => \A n \in rows[r] : got[r][n] \in Content

FromProjectDto == [f \in Fields |-> IF f = "markdownBody" THEN Nil ELSE Initial]
FromMarkDownDto == [f \in Fields |-> Initial]

Unset == [r \in Requests |-> Nil]

RowsInit ==
    /\ position = [n \in Nodes |-> 0]
    /\ content = [n \in Nodes |-> IF n \in Projects THEN FromProjectDto
                                                    ELSE FromMarkDownDto]
    /\ version = [n \in Nodes |-> 0]
    /\ state = [n \in Nodes |-> Nil]
    /\ removed = {}
    /\ op = [r \in Requests |-> "none"] /\ at = [r \in Requests |-> "start"]
    /\ node = Unset /\ x = Unset /\ delta = Unset
    /\ fields = [r \in Requests |-> {}] /\ rows = [r \in Requests |-> {}]
    /\ deep = [r \in Requests |-> FALSE]
    /\ got = [r \in Requests |-> [n \in Nodes |-> Nil]]
    /\ seen = [r \in Requests |-> [n \in Nodes |-> 0]]

-----------------------------------------------------------------------------
Alive == Nodes \ removed

(* selectAllDescendantIds; the edges of a deleted node are gone.           *)
Below(n) ==
    {m \in Alive : \A S \in SUBSET Nodes :
        (\A e \in Edges : e[1] \in S \cup {n} => e[2] \in S) => m \in S}

Is(r, o, step) == op[r] = o /\ at[r] = step
Goto(r, step) == at' = [at EXCEPT ![r] = step] /\ UNCHANGED op

(* The request has been answered, or has thrown.                           *)
Done(r) ==
    /\ op' = [op EXCEPT ![r] = "done"]
    /\ at' = [at EXCEPT ![r] = "start"]

Begin(r, o, n) ==
    /\ op[r] = "none"
    /\ op' = [op EXCEPT ![r] = o]
    /\ at' = [at EXCEPT ![r] = "write"]
    /\ node' = [node EXCEPT ![r] = n]
    /\ UNCHANGED <<table, rows>>

(* A SELECT of the nodes N notes content and version.                      *)
Read(r, N) ==
    /\ got' = [got EXCEPT ![r] = [n \in Nodes |-> IF n \in N THEN content[n] ELSE @[n]]]
    /\ seen' = [seen EXCEPT ![r] = [n \in Nodes |-> IF n \in N THEN version[n] ELSE @[n]]]

BugNotBumped(N) == version

Bumped(N) == [n \in Nodes |-> IF n \in N THEN version[n] + 1 ELSE version[n]]

-----------------------------------------------------------------------------
(* updateNodePosition.                                                     *)

BeginMove(r, n, to) ==
    /\ n \in Alive
    /\ Begin(r, "move", n)
    /\ x' = [x EXCEPT ![r] = to]
    /\ delta' = [delta EXCEPT ![r] = to - position[n]]
    /\ Read(r, {n})
    /\ UNCHANGED <<fields, deep>>

(* updateNode finds no row and throws if the node was deleted meanwhile.   *)
WriteMove(r) ==
    /\ Is(r, "move", "write")
    /\ IF node[r] \in removed THEN Done(r) /\ UNCHANGED <<position, version>>
       ELSE /\ position' = [position EXCEPT ![node[r]] = x[r]]
            /\ version' = Bumped({node[r]})
            /\ Goto(r, "descend")
    /\ UNCHANGED <<content, state, removed, node, x, delta, fields, deep, got, seen, rows>>

BugChildrenOnly(r) == {n \in Alive : <<node[r], n>> \in Edges}

DescendantIds(r) == Below(node[r])

(* Both updates look for the descendants after their first write.          *)
ReadDescendants(r) ==
    /\ at[r] = "descend"
    /\ rows' = [rows EXCEPT ![r] = DescendantIds(r)]
    /\ IF DescendantIds(r) = {} THEN Done(r)
       ELSE Goto(r, IF op[r] = "move" THEN "shift" ELSE "fetch")
    /\ UNCHANGED <<table, node, x, delta, fields, deep, got, seen>>

(* updateNodePositionDelta: one statement.                                 *)
Shift(r) ==
    /\ Is(r, "move", "shift")
    /\ LET N == rows[r] \ removed IN
          /\ position' = [n \in Nodes |-> IF n \in N THEN position[n] + delta[r] ELSE position[n]]
          /\ version' = Bumped(N)
    /\ rows' = [rows EXCEPT ![r] = {}]
    /\ Done(r)
    /\ UNCHANGED <<content, state, removed, node, x, delta, fields, deep, got, seen>>

-----------------------------------------------------------------------------
(* updateNodeMeta; the title alone (F = {}) has content written back too.  *)

BeginMeta(r, n, F, all) ==
    /\ n \in Alive
    /\ Begin(r, "meta", n)
    /\ fields' = [fields EXCEPT ![r] = F]
    /\ deep' = [deep EXCEPT ![r] = all]
    /\ Read(r, {n})
    /\ UNCHANGED <<x, delta>>

BugFieldsOnly(r, c, F) == [f \in Fields |-> IF f \in F THEN r ELSE Nil]

BugNotSpread(r, c, F) == [f \in F |-> r]

(* { ...content, the fields the request sets }.                            *)
Updated(r, c, F) == [f \in Fields |-> IF f \in F THEN r ELSE c[f]]

WriteContent(r, n, F) ==
    /\ content' = [content EXCEPT ![n] = Updated(r, got[r][n], F)]
    /\ version' = Bumped({n})

WriteMeta(r) ==
    /\ Is(r, "meta", "write")
    /\ IF node[r] \in removed THEN Done(r) /\ UNCHANGED <<content, version>>
       ELSE /\ WriteContent(r, node[r], fields[r])
            /\ IF deep[r] /\ fields[r] # {} THEN Goto(r, "descend") ELSE Done(r)
    /\ UNCHANGED <<position, state, removed, node, x, delta, fields, deep, got, seen, rows>>

(* selectNodesByIds.                                                       *)
Fetch(r) ==
    /\ Is(r, "meta", "fetch")
    /\ LET N == rows[r] \ removed IN
          /\ Read(r, N)
          /\ rows' = [rows EXCEPT ![r] = N]
          /\ IF N = {} THEN Done(r) ELSE Goto(r, "spread")
    /\ UNCHANGED <<table, node, x, delta, fields, deep>>

(* One turn of the loop over the descendants; one that was deleted since   *)
(* they were read makes updateNode throw, and the rest is left as it was.  *)
Spread(r, n) ==
    /\ Is(r, "meta", "spread")
    /\ n \in rows[r]
    /\ rows' = [rows EXCEPT ![r] = IF n \in removed THEN {} ELSE @ \ {n}]
    /\ IF n \in removed THEN UNCHANGED <<content, version>>
                        ELSE WriteContent(r, n, fields[r])
    /\ IF rows'[r] = {} THEN Done(r) ELSE UNCHANGED <<op, at>>
    /\ UNCHANGED <<position, state, removed, node, x, delta, fields, deep, got, seen>>

-----------------------------------------------------------------------------
(* saveToDb, which does not ask whether the node is deleted.               *)

BeginSave(r, n) ==
    /\ Begin(r, "save", n)
    /\ Read(r, {n})
    /\ UNCHANGED <<x, delta, fields, deep>>

WriteSave(r) ==
    /\ Is(r, "save", "write")
    /\ WriteContent(r, node[r], {"markdownBody"})
    /\ state' = [state EXCEPT ![node[r]] = r]
    /\ Done(r)
    /\ UNCHANGED <<position, removed, node, x, delta, fields, deep, got, seen, rows>>

(* deleteNode (transactional, see GraphRequests) leaves version alone.     *)
Remove(n) ==
    /\ n \in Alive /\ Below(n) = {}
    /\ removed' = removed \cup {n}
    /\ UNCHANGED <<position, content, version, state, locals>>

(* A statement of a request fails, or the DEL of the cache between two of  *)
(* them, or the server stops: what it has written so far stays written.    *)
Throw(r) ==
    /\ at[r] # "start"
    /\ Done(r)
    /\ rows' = [rows EXCEPT ![r] = {}]
    /\ UNCHANGED <<table, node, x, delta, fields, deep, got, seen>>

RowsNext ==
    \/ \E r \in Requests, n \in Nodes :
          \/ \E to \in Targets : BeginMove(r, n, to)
          \/ \E F \in SUBSET {"color", "textColor"}, all \in BOOLEAN : BeginMeta(r, n, F, all)
          \/ BeginSave(r, n) \/ Spread(r, n)
    \/ \E r \in Requests :
          \/ WriteMove(r) \/ ReadDescendants(r) \/ Shift(r)
          \/ WriteMeta(r) \/ Fetch(r) \/ WriteSave(r) \/ Throw(r)
    \/ \E n \in Nodes : Remove(n)

RowsSpec == RowsInit /\ [][RowsNext]_rowvars

-----------------------------------------------------------------------------
Stepped(r) == <<op[r], at[r], rows[r]>>' # <<op[r], at[r], rows[r]>>

(* Request r writes node n, which has been written since r read it.        *)
Overwrites(r, n) == Stepped(r) /\ version[n] # seen[r][n]

(* Every write of content that takes away somebody else's field finds a    *)
(* version that is not the one it read: the lost updates of concurrent     *)
(* updateNodeMeta and saveToDb are just those the version column, had it   *)
(* been compared, would have refused.                                      *)
VersionTells ==
    [][\A n \in Nodes : content'[n] # content[n] =>
          \E r \in Requests :
             \/ Overwrites(r, n)
             \/ /\ Stepped(r)
                /\ \A f \in Fields : content'[n][f] \in {content[n][f], r}]_rowvars

(* Where the moves under way will have put a node.                         *)
Pending(r) ==
    CASE Is(r, "move", "descend") -> Below(node[r])
      [] Is(r, "move", "shift") -> rows[r]
      [] OTHER -> {}
Total(f, S) == MapThenSumSet(LAMBDA s : f[s], S)
SeenPosition(n) == position[n] + Total(delta, {r \in Requests : n \in Pending(r)})

Shifted(N, d) ==
    \A m \in Alive' : SeenPosition(m)' = SeenPosition(m) + (IF m \in N THEN d ELSE 0)

(* A move shifts a node and all below it by one amount, and nothing else   *)
(* moves a node, however moves of a node, its ancestors and its children   *)
(* interleave.  A node is torn off its subtree in two ways only: by a move *)
(* that puts it where its user dropped it, over a change it has not seen,  *)
(* and by one that fails after it has put it there, which leaves behind    *)
(* just the descendants it was to shift, by just its own amount.           *)
MovesAreRigid ==
    [][\/ Shifted({}, 0)
       \/ \E r \in Requests :
             /\ Is(r, "move", "write")
             /\ \/ Shifted({node[r]} \cup Below(node[r]), delta[r])
                \/ Overwrites(r, node[r])
       \/ \E r \in Requests :
             op[r] = "move" /\ Throw(r) /\ Shifted(Pending(r), -delta[r])]_rowvars

(* The markdownBody of a row is the text of its yjs_state, which a load    *)
(* prefers: every save makes them equal, and only an updateNodeMeta that   *)
(* writes back a content read before the last write parts them.            *)
Matches(n) == state[n] \in {Nil, content[n]["markdownBody"]}
BodyFollowsState ==
    [][\A n \in Nodes :
          \/ Matches(n)'
          \/ ~Matches(n) /\ state[n]' = state[n]
          \/ \E r \in Requests : Is(r, "meta", at[r]) /\ Overwrites(r, n)]_rowvars

=============================================================================
