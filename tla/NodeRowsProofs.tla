--------------------------- MODULE NodeRowsProofs ---------------------------
(***************************************************************************)
(* For every graph and every set of requests: a version a request finds    *)
(* again is a content and a position it knows.  From this, what            *)
(* VersionTells and BodyFollowsState say of each write of content, and     *)
(* what MovesAreRigid says of each write of a position, for which sums     *)
(* over finite sets are shown not to depend on their order.                *)
(***************************************************************************)
EXTENDS NodeRows, FiniteSetTheorems, WellFoundedInduction, TLAPS

MetaFields == {"color", "textColor"}

(* The types of what a request remembers.                                  *)
LocalsOK ==
    /\ node \in [Requests -> Nodes \cup {Nil}]
    /\ x \in [Requests -> Int \cup {Nil}]
    /\ delta \in [Requests -> Int \cup {Nil}]
    /\ fields \in [Requests -> SUBSET MetaFields]
    /\ deep \in [Requests -> BOOLEAN]
    /\ seen \in [Requests -> [Nodes -> Nat]]
    /\ rows \in [Requests -> SUBSET Nodes]
    /\ \A r \in Requests : Is(r, "move", at[r]) => x[r] \in Int /\ delta[r] \in Int

(* Request r may yet write the content of n from what it has read.         *)
MayWrite(r, n) ==
    \/ at[r] = "write" /\ n = node[r]
    \/ at[r] = "spread" /\ n \in rows[r]

(* What it has read is a content the row had at the version it noted, and  *)
(* has if it is at that version still.                                     *)
ReadingsAreVersions ==
    \A r \in Requests, n \in Nodes : MayWrite(r, n) =>
        /\ got[r][n] \in Content
        /\ seen[r][n] <= version[n]
        /\ seen[r][n] = version[n] => got[r][n] = content[n]

RowsInv == RowsTypeOK /\ LocalsOK /\ ReadingsAreVersions

LEMMA BelowAreNodes == \A n : Below(n) \subseteq Nodes
BY DEF Below, Alive

LEMMA InitialContents == FromProjectDto \in Content /\ FromMarkDownDto \in Content
BY DEF FromProjectDto, FromMarkDownDto, Content, Values

LEMMA UpdatedTypes ==
    ASSUME NEW r \in Requests, NEW c \in Content, NEW F
    PROVE  Updated(r, c, F) \in Content
BY DEF Updated, Content, Values

LEMMA BumpedTypes ==
    ASSUME version \in [Nodes -> Nat], NEW N
    PROVE  /\ Bumped(N) \in [Nodes -> Nat]
           /\ \A n \in Nodes : Bumped(N)[n] = IF n \in N THEN version[n] + 1 ELSE version[n]
BY DEF Bumped

(* A SELECT leaves in got and seen what the rows hold, and elsewhere what  *)
(* was there.                                                              *)
LEMMA ReadTypes ==
    ASSUME RowsTypeOK, LocalsOK, NEW r \in Requests, NEW N, Read(r, N)
    PROVE  /\ got' \in [Requests -> [Nodes -> Content \cup {Nil}]]
           /\ seen' \in [Requests -> [Nodes -> Nat]]
           /\ \A n \in Nodes \cap N : got'[r][n] = content[n] /\ seen'[r][n] = version[n]
           /\ \A s \in Requests : s # r => got'[s] = got[s] /\ seen'[s] = seen[s]
BY DEF RowsTypeOK, LocalsOK, Read

(* The writing of one content keeps types, and every other reading true.   *)
LEMMA WriteContentKeeps ==
    ASSUME RowsInv, NEW r \in Requests, NEW n \in Nodes, NEW F, MayWrite(r, n),
           WriteContent(r, n, F), UNCHANGED <<got, seen>>
    PROVE  /\ content' \in [Nodes -> Content] /\ version' \in [Nodes -> Nat]
           /\ content'[n] = Updated(r, got[r][n], F)
           /\ \A m \in Nodes \ {n} : content'[m] = content[m]
           /\ \A s \in Requests, m \in Nodes : MayWrite(s, m) =>
                  /\ got'[s][m] \in Content
                  /\ seen'[s][m] <= version'[m]
                  /\ seen'[s][m] = version'[m] => got'[s][m] = content'[m]
<1> USE DEF RowsInv, RowsTypeOK, WriteContent
<1>1. Updated(r, got[r][n], F) \in Content
    BY UpdatedTypes DEF ReadingsAreVersions
<1>2. /\ version' \in [Nodes -> Nat]
      /\ \A m \in Nodes : version'[m] = IF m = n THEN version[m] + 1 ELSE version[m]
    BY BumpedTypes
<1>3. /\ content' \in [Nodes -> Content]
      /\ content'[n] = Updated(r, got[r][n], F)
      /\ \A m \in Nodes \ {n} : content'[m] = content[m]
    BY <1>1
<1>4. ASSUME NEW s \in Requests, NEW m \in Nodes, MayWrite(s, m)
      PROVE  /\ got'[s][m] \in Content
             /\ seen'[s][m] <= version'[m]
             /\ seen'[s][m] = version'[m] => got'[s][m] = content'[m]
    <2>1. seen[s][m] \in Nat /\ version[m] \in Nat
        BY DEF LocalsOK
    <2>2. /\ got[s][m] \in Content /\ seen[s][m] <= version[m]
          /\ seen[s][m] = version[m] => got[s][m] = content[m]
        BY <1>4 DEF ReadingsAreVersions
    <2>3. version'[m] = IF m = n THEN version[m] + 1 ELSE version[m]
        BY <1>2
    <2>4. CASE m = n
        <3>1. seen[s][m] <= version'[m] /\ seen[s][m] # version'[m]
            BY <2>1, <2>2, <2>3, <2>4
        <3> QED
            BY <2>2, <3>1
    <2>5. CASE m # n
        BY <1>3, <2>2, <2>3, <2>5
    <2> QED
        BY <2>4, <2>5
<1> QED
    BY <1>2, <1>3, <1>4

(* Writes of versions alone: positions, or nothing.                        *)
LEMMA VersionsGrow ==
    ASSUME RowsInv, NEW N, version' = Bumped(N) \/ UNCHANGED version,
           UNCHANGED <<content, got, seen>>,
           \A s \in Requests, m \in Nodes : MayWrite(s, m)' => MayWrite(s, m)
    PROVE  ReadingsAreVersions' /\ version' \in [Nodes -> Nat]
<1> USE DEF RowsInv, RowsTypeOK, LocalsOK
<1>1. /\ version' \in [Nodes -> Nat]
      /\ \A m \in Nodes : version'[m] = version[m] \/ version'[m] = version[m] + 1
    BY BumpedTypes
<1>2. \A s \in Requests, m \in Nodes : seen[s][m] \in Nat /\ version[m] \in Nat
    OBVIOUS
<1>3. ASSUME NEW s \in Requests, NEW m \in Nodes, MayWrite(s, m)'
      PROVE  /\ got'[s][m] \in Content
             /\ seen'[s][m] <= version'[m]
             /\ seen'[s][m] = version'[m] => got'[s][m] = content'[m]
    <2>1. MayWrite(s, m)
        BY <1>3
    <2>2. /\ got[s][m] \in Content /\ seen[s][m] <= version[m]
          /\ seen[s][m] = version[m] => got[s][m] = content[m]
        BY <2>1 DEF ReadingsAreVersions
    <2> QED
        BY <1>1, <1>2, <2>2
<1> QED
    BY <1>1, <1>3 DEF ReadingsAreVersions

(* A request begins: it has read the row of its node.                      *)
LEMMA BeginKeeps ==
    ASSUME RowsInv, NEW r \in Requests, NEW n \in Nodes, NEW o \in {"move", "meta", "save"},
           Begin(r, o, n), Read(r, {n}),
           x' \in [Requests -> Int \cup {Nil}], delta' \in [Requests -> Int \cup {Nil}],
           \A s \in Requests : s # r => x'[s] = x[s] /\ delta'[s] = delta[s],
           o = "move" => x'[r] \in Int /\ delta'[r] \in Int,
           fields' \in [Requests -> SUBSET MetaFields], deep' \in [Requests -> BOOLEAN]
    PROVE  RowsInv'
<1> USE DEF RowsInv, Begin, table
<1>1. /\ op' = [op EXCEPT ![r] = o] /\ at' = [at EXCEPT ![r] = "write"]
      /\ op \in [Requests -> {"none", "move", "meta", "save", "done"}]
      /\ at \in [Requests -> {"start", "write", "descend", "shift", "fetch", "spread"}]
      /\ node \in [Requests -> Nodes \cup {Nil}] /\ node' = [node EXCEPT ![r] = n]
    BY DEF RowsTypeOK, LocalsOK
<1>2. LocalsOK'
    BY <1>1, ReadTypes DEF LocalsOK, Is
<1>3. \A s \in Requests :
          /\ (op'[s] \in {"none", "done"}) = (at'[s] = "start")
          /\ at'[s] # "start" => node'[s] \in Nodes
    BY <1>1 DEF RowsTypeOK
<1>4. \A s \in Requests : at'[s] = "spread" => \A m \in rows'[s] : got'[s][m] \in Content
    BY <1>1, ReadTypes DEF RowsTypeOK
<1>5. RowsTypeOK'
    BY <1>1, <1>3, <1>4, ReadTypes DEF RowsTypeOK
<1>6. ReadingsAreVersions'
    <2>1. ASSUME NEW s \in Requests, NEW m \in Nodes, s # r, MayWrite(s, m)'
          PROVE  MayWrite(s, m) /\ got'[s] = got[s] /\ seen'[s] = seen[s]
        BY <1>1, <2>1, ReadTypes DEF MayWrite
    <2>2. ASSUME NEW m \in Nodes, MayWrite(r, m)'
          PROVE  m = n
        BY <1>1, <2>2 DEF MayWrite
    <2>3. /\ got'[r][n] = content[n] /\ seen'[r][n] = version[n]
          /\ content[n] \in Content /\ version[n] \in Nat
        BY ReadTypes DEF RowsTypeOK
    <2> QED
        BY <2>1, <2>2, <2>3 DEF ReadingsAreVersions
<1> QED
    BY <1>2, <1>5, <1>6

LEMMA RowsInitially == RowsInit => RowsInv
<1> SUFFICES ASSUME RowsInit
             PROVE  RowsInv
    OBVIOUS
<1>1. RowsTypeOK
    BY InitialContents DEF RowsInit, RowsTypeOK, Values
<1>2. LocalsOK
    BY DEF RowsInit, LocalsOK, Unset, Is
<1>3. ReadingsAreVersions
    BY DEF RowsInit, ReadingsAreVersions, MayWrite
<1> QED
    BY <1>1, <1>2, <1>3 DEF RowsInv

LEMMA RowsStep == RowsInv /\ [RowsNext]_rowvars => RowsInv'
<1> SUFFICES ASSUME RowsInv, [RowsNext]_rowvars
             PROVE  RowsInv'
    OBVIOUS
<1>0. /\ op \in [Requests -> {"none", "move", "meta", "save", "done"}]
      /\ at \in [Requests -> {"start", "write", "descend", "shift", "fetch", "spread"}]
      /\ rows \in [Requests -> SUBSET Nodes]
    BY DEF RowsInv, RowsTypeOK, LocalsOK
<1>1. ASSUME NEW r \in Requests, NEW n \in Nodes, NEW to \in Targets, BeginMove(r, n, to)
      PROVE  RowsInv'
    <2>1. position[n] \in Int /\ to \in Int
        BY TargetsAreInts DEF RowsInv, RowsTypeOK
    <2>2. /\ x' \in [Requests -> Int \cup {Nil}] /\ delta' \in [Requests -> Int \cup {Nil}]
          /\ x'[r] \in Int /\ delta'[r] \in Int
          /\ \A s \in Requests : s # r => x'[s] = x[s] /\ delta'[s] = delta[s]
          /\ fields' \in [Requests -> SUBSET MetaFields] /\ deep' \in [Requests -> BOOLEAN]
        BY <1>1, <2>1 DEF BeginMove, RowsInv, LocalsOK
    <2> QED
        BY <1>1, <2>2, BeginKeeps DEF BeginMove
<1>2. ASSUME NEW r \in Requests, NEW n \in Nodes,
             NEW F \in SUBSET {"color", "textColor"}, NEW all \in BOOLEAN,
             BeginMeta(r, n, F, all)
      PROVE  RowsInv'
    <2>1. /\ fields' \in [Requests -> SUBSET MetaFields] /\ deep' \in [Requests -> BOOLEAN]
          /\ x' = x /\ delta' = delta
          /\ x \in [Requests -> Int \cup {Nil}] /\ delta \in [Requests -> Int \cup {Nil}]
        BY <1>2 DEF BeginMeta, RowsInv, LocalsOK, MetaFields
    <2> QED
        BY <1>2, <2>1, BeginKeeps DEF BeginMeta
<1>3. ASSUME NEW r \in Requests, NEW n \in Nodes, BeginSave(r, n)
      PROVE  RowsInv'
    <2>1. /\ fields' \in [Requests -> SUBSET MetaFields] /\ deep' \in [Requests -> BOOLEAN]
          /\ x' = x /\ delta' = delta
          /\ x \in [Requests -> Int \cup {Nil}] /\ delta \in [Requests -> Int \cup {Nil}]
        BY <1>3 DEF BeginSave, RowsInv, LocalsOK
    <2> QED
        BY <1>3, <2>1, BeginKeeps DEF BeginSave
<1>4. ASSUME NEW r \in Requests, NEW n \in Nodes, Spread(r, n)
      PROVE  RowsInv'
    <2>1. /\ at[r] = "spread" /\ n \in rows[r] /\ op[r] = "meta"
          /\ UNCHANGED <<position, state, removed, node, x, delta, fields, deep, got, seen>>
          /\ rows' \in [Requests -> SUBSET Nodes]
          /\ \A s \in Requests : rows'[s] \subseteq rows[s]
          /\ \/ at' = at /\ op' = op
             \/ at' = [at EXCEPT ![r] = "start"] /\ op' = [op EXCEPT ![r] = "done"]
        BY <1>0, <1>4 DEF Spread, Is, Done
    <2>2. \A s \in Requests, m \in Nodes : MayWrite(s, m)' => MayWrite(s, m)
        BY <1>0, <2>1 DEF MayWrite
    <2>3. /\ content' \in [Nodes -> Content] /\ version' \in [Nodes -> Nat]
          /\ ReadingsAreVersions'
        <3>1. CASE n \in removed
            <4>1. UNCHANGED <<content, version>>
                BY <1>4, <3>1 DEF Spread
            <4> QED
                BY <2>1, <2>2, <4>1, VersionsGrow DEF RowsInv, RowsTypeOK
        <3>2. CASE n \notin removed
            <4>1. WriteContent(r, n, fields[r]) /\ MayWrite(r, n)
                BY <1>4, <2>1, <3>2 DEF Spread, MayWrite
            <4> QED
                BY <2>1, <2>2, <4>1, WriteContentKeeps DEF ReadingsAreVersions
        <3> QED
            BY <3>1, <3>2
    <2>4. LocalsOK'
        BY <1>0, <2>1 DEF RowsInv, LocalsOK, Is
    <2>5. RowsTypeOK'
        BY <1>0, <2>1, <2>3 DEF RowsInv, RowsTypeOK
    <2> QED
        BY <2>3, <2>4, <2>5 DEF RowsInv
<1>5. ASSUME NEW r \in Requests, WriteMove(r)
      PROVE  RowsInv'
    <2>1. /\ op[r] = "move" /\ at[r] = "write"
          /\ UNCHANGED <<content, state, removed, node, x, delta, fields, deep, got, seen, rows>>
          /\ version' = Bumped({node[r]}) \/ UNCHANGED version
          /\ \/ at' = [at EXCEPT ![r] = "start"] /\ op' = [op EXCEPT ![r] = "done"]
             \/ at' = [at EXCEPT ![r] = "descend"] /\ op' = op
        BY <1>5 DEF WriteMove, Is, Done, Goto
    <2>2. position' \in [Nodes -> Int]
        BY <1>5 DEF WriteMove, RowsInv, RowsTypeOK, LocalsOK, Is
    <2>3. \A s \in Requests, m \in Nodes : MayWrite(s, m)' => MayWrite(s, m)
        BY <1>0, <2>1 DEF MayWrite
    <2>4. ReadingsAreVersions' /\ version' \in [Nodes -> Nat]
        BY <2>1, <2>3, VersionsGrow
    <2>5. LocalsOK'
        BY <1>0, <2>1 DEF RowsInv, LocalsOK, Is
    <2>6. RowsTypeOK'
        BY <1>0, <2>1, <2>2, <2>4 DEF RowsInv, RowsTypeOK
    <2> QED
        BY <2>4, <2>5, <2>6 DEF RowsInv
<1>6. ASSUME NEW r \in Requests, ReadDescendants(r)
      PROVE  RowsInv'
    <2>1. /\ at[r] = "descend"
          /\ UNCHANGED <<table, node, x, delta, fields, deep, got, seen>>
          /\ rows' = [rows EXCEPT ![r] = Below(node[r])]
          /\ \/ at' = [at EXCEPT ![r] = "start"] /\ op' = [op EXCEPT ![r] = "done"]
             \/ at' = [at EXCEPT ![r] = "shift"] /\ op' = op
             \/ at' = [at EXCEPT ![r] = "fetch"] /\ op' = op
        BY <1>6 DEF ReadDescendants, DescendantIds, Done, Goto
    <2>2. \A s \in Requests, m \in Nodes : MayWrite(s, m)' => MayWrite(s, m)
        BY <1>0, <2>1 DEF MayWrite
    <2>3. ReadingsAreVersions' /\ version' \in [Nodes -> Nat]
        BY <2>1, <2>2, VersionsGrow DEF table
    <2>4. rows' \in [Requests -> SUBSET Nodes]
        BY <1>0, <2>1, BelowAreNodes
    <2>5. LocalsOK'
        BY <1>0, <2>1, <2>4 DEF RowsInv, LocalsOK, Is
    <2>6. RowsTypeOK'
        BY <1>0, <2>1, <2>3 DEF RowsInv, RowsTypeOK, table
    <2> QED
        BY <2>3, <2>5, <2>6 DEF RowsInv
<1>7. ASSUME NEW r \in Requests, Shift(r)
      PROVE  RowsInv'
    <2>1. /\ op[r] = "move" /\ at[r] = "shift"
          /\ UNCHANGED <<content, state, removed, node, x, delta, fields, deep, got, seen>>
          /\ version' = Bumped(rows[r] \ removed)
          /\ rows' = [rows EXCEPT ![r] = {}]
          /\ at' = [at EXCEPT ![r] = "start"] /\ op' = [op EXCEPT ![r] = "done"]
        BY <1>7 DEF Shift, Is, Done
    <2>2. position' \in [Nodes -> Int]
        <3>1. position \in [Nodes -> Int] /\ delta[r] \in Int
            BY <2>1 DEF RowsInv, RowsTypeOK, LocalsOK, Is
        <3> QED
            BY <1>7, <3>1 DEF Shift
    <2>3. \A s \in Requests, m \in Nodes : MayWrite(s, m)' => MayWrite(s, m)
        BY <1>0, <2>1 DEF MayWrite
    <2>4. ReadingsAreVersions' /\ version' \in [Nodes -> Nat]
        BY <2>1, <2>3, VersionsGrow
    <2>5. LocalsOK'
        BY <1>0, <2>1 DEF RowsInv, LocalsOK, Is
    <2>6. RowsTypeOK'
        BY <1>0, <2>1, <2>2, <2>4 DEF RowsInv, RowsTypeOK
    <2> QED
        BY <2>4, <2>5, <2>6 DEF RowsInv
<1>8. ASSUME NEW r \in Requests, WriteMeta(r)
      PROVE  RowsInv'
    <2>1. /\ op[r] = "meta" /\ at[r] = "write" /\ node[r] \in Nodes
          /\ UNCHANGED <<position, state, removed, node, x, delta, fields, deep, got, seen, rows>>
          /\ \/ at' = [at EXCEPT ![r] = "start"] /\ op' = [op EXCEPT ![r] = "done"]
             \/ at' = [at EXCEPT ![r] = "descend"] /\ op' = op
        BY <1>8 DEF WriteMeta, Is, Done, Goto, RowsInv, RowsTypeOK
    <2>2. \A s \in Requests, m \in Nodes : MayWrite(s, m)' => MayWrite(s, m)
        BY <1>0, <2>1 DEF MayWrite
    <2>3. /\ content' \in [Nodes -> Content] /\ version' \in [Nodes -> Nat]
          /\ ReadingsAreVersions'
        <3>1. CASE node[r] \in removed
            <4>1. UNCHANGED <<content, version>>
                BY <1>8, <3>1 DEF WriteMeta
            <4> QED
                BY <2>1, <2>2, <4>1, VersionsGrow DEF RowsInv, RowsTypeOK
        <3>2. CASE node[r] \notin removed
            <4>1. WriteContent(r, node[r], fields[r]) /\ MayWrite(r, node[r])
                BY <1>8, <2>1, <3>2 DEF WriteMeta, MayWrite
            <4> QED
                BY <2>1, <2>2, <4>1, WriteContentKeeps DEF ReadingsAreVersions
        <3> QED
            BY <3>1, <3>2
    <2>4. LocalsOK'
        BY <1>0, <2>1 DEF RowsInv, LocalsOK, Is
    <2>5. RowsTypeOK'
        BY <1>0, <2>1, <2>3 DEF RowsInv, RowsTypeOK
    <2> QED
        BY <2>3, <2>4, <2>5 DEF RowsInv
<1>9. ASSUME NEW r \in Requests, Fetch(r)
      PROVE  RowsInv'
    <2> DEFINE N == rows[r] \ removed
    <2>1. /\ op[r] = "meta" /\ at[r] = "fetch"
          /\ UNCHANGED <<table, node, x, delta, fields, deep>>
          /\ rows' = [rows EXCEPT ![r] = N] /\ Read(r, N)
          /\ \/ at' = [at EXCEPT ![r] = "start"] /\ op' = [op EXCEPT ![r] = "done"]
             \/ at' = [at EXCEPT ![r] = "spread"] /\ op' = op
        BY <1>9 DEF Fetch, Is, Done, Goto
    <2>2. /\ got' \in [Requests -> [Nodes -> Content \cup {Nil}]]
          /\ seen' \in [Requests -> [Nodes -> Nat]]
          /\ \A n \in N : got'[r][n] = content[n] /\ seen'[r][n] = version[n]
          /\ \A s \in Requests : s # r => got'[s] = got[s] /\ seen'[s] = seen[s]
        BY <1>0, <2>1, ReadTypes DEF RowsInv
    <2>3. N \subseteq Nodes /\ rows' \in [Requests -> SUBSET Nodes]
        BY <1>0, <2>1
    <2>4. LocalsOK'
        BY <1>0, <2>1, <2>2, <2>3 DEF RowsInv, LocalsOK, Is
    <2>5. \A s \in Requests : at'[s] = "spread" => \A m \in rows'[s] : got'[s][m] \in Content
        BY <1>0, <2>1, <2>2, <2>3 DEF RowsInv, RowsTypeOK
    <2>6. RowsTypeOK'
        BY <1>0, <2>1, <2>2, <2>5 DEF RowsInv, RowsTypeOK, table
    <2>7. ReadingsAreVersions'
        <3>1. ASSUME NEW s \in Requests, NEW m \in Nodes, MayWrite(s, m)', s # r
              PROVE  MayWrite(s, m)
            BY <1>0, <2>1, <3>1 DEF MayWrite
        <3>2. ASSUME NEW m \in Nodes, MayWrite(r, m)'
              PROVE  m \in N
            BY <1>0, <2>1, <3>2 DEF MayWrite
        <3>3. \A m \in Nodes : content[m] \in Content /\ version[m] \in Nat
            BY DEF RowsInv, RowsTypeOK
        <3>4. UNCHANGED <<content, version>>
            BY <2>1 DEF table
        <3> QED
            BY <2>2, <3>1, <3>2, <3>3, <3>4 DEF RowsInv, ReadingsAreVersions
    <2> QED
        BY <2>4, <2>6, <2>7 DEF RowsInv
<1>10. ASSUME NEW r \in Requests, WriteSave(r)
       PROVE  RowsInv'
    <2>1. /\ op[r] = "save" /\ at[r] = "write" /\ node[r] \in Nodes
          /\ UNCHANGED <<position, removed, node, x, delta, fields, deep, got, seen, rows>>
          /\ at' = [at EXCEPT ![r] = "start"] /\ op' = [op EXCEPT ![r] = "done"]
        BY <1>10 DEF WriteSave, Is, Done, RowsInv, RowsTypeOK
    <2>2. \A s \in Requests, m \in Nodes : MayWrite(s, m)' => MayWrite(s, m)
        BY <1>0, <2>1 DEF MayWrite
    <2>3. WriteContent(r, node[r], {"markdownBody"}) /\ MayWrite(r, node[r])
        BY <1>10, <2>1 DEF WriteSave, MayWrite
    <2>4. /\ content' \in [Nodes -> Content] /\ version' \in [Nodes -> Nat]
          /\ ReadingsAreVersions'
        BY <2>1, <2>2, <2>3, WriteContentKeeps DEF ReadingsAreVersions
    <2>5. state' \in [Nodes -> Values]
        BY <1>10 DEF WriteSave, RowsInv, RowsTypeOK, Values
    <2>6. LocalsOK'
        BY <1>0, <2>1 DEF RowsInv, LocalsOK, Is
    <2>7. RowsTypeOK'
        BY <1>0, <2>1, <2>4, <2>5 DEF RowsInv, RowsTypeOK
    <2> QED
        BY <2>4, <2>6, <2>7 DEF RowsInv
<1>13. ASSUME NEW r \in Requests, Throw(r)
       PROVE  RowsInv'
    <2>1. /\ UNCHANGED <<table, node, x, delta, fields, deep, got, seen>>
          /\ rows' = [rows EXCEPT ![r] = {}]
          /\ at' = [at EXCEPT ![r] = "start"] /\ op' = [op EXCEPT ![r] = "done"]
        BY <1>13 DEF Throw, Done
    <2>2. \A s \in Requests, m \in Nodes : MayWrite(s, m)' => MayWrite(s, m)
        BY <1>0, <2>1 DEF MayWrite
    <2>3. ReadingsAreVersions' /\ version' \in [Nodes -> Nat]
        BY <2>1, <2>2, VersionsGrow DEF table
    <2>4. LocalsOK'
        BY <1>0, <2>1 DEF RowsInv, LocalsOK, Is
    <2>5. RowsTypeOK'
        BY <1>0, <2>1, <2>3 DEF RowsInv, RowsTypeOK, table
    <2> QED
        BY <2>3, <2>4, <2>5 DEF RowsInv
<1>11. ASSUME NEW n \in Nodes, Remove(n)
       PROVE  RowsInv'
    BY <1>11 DEF Remove, locals, RowsInv, RowsTypeOK, LocalsOK, ReadingsAreVersions, MayWrite, Is
<1>12. CASE UNCHANGED rowvars
    BY <1>12 DEF rowvars, table, locals, RowsInv, RowsTypeOK, LocalsOK, ReadingsAreVersions,
       MayWrite, Is
<1> QED
    BY <1>1, <1>2, <1>3, <1>4, <1>5, <1>6, <1>7, <1>8, <1>9, <1>10, <1>11, <1>12, <1>13
    DEF RowsNext

LEMMA RowsCorrect == RowsSpec => []RowsInv
BY RowsInitially, RowsStep, PTL DEF RowsSpec

(* The table and what the requests have read keep their types.             *)
THEOREM RowsTypeCorrect == RowsSpec => []RowsTypeOK
<1>1. RowsInv => RowsTypeOK
    BY DEF RowsInv
<1> QED
    BY <1>1, RowsCorrect, PTL

-----------------------------------------------------------------------------
(* What one write of content does, seen from the row: a write that finds   *)
(* the version its request noted changes the given fields, and no other.   *)
LEMMA OneWrite ==
    ASSUME RowsInv, NEW r \in Requests, NEW n \in Nodes, NEW F, MayWrite(r, n),
           WriteContent(r, n, F), Stepped(r)
    PROVE  /\ \A m \in Nodes \ {n} : content'[m] = content[m]
           /\ \/ Overwrites(r, n)
              \/ \A f \in Fields : content'[n][f] = IF f \in F THEN r ELSE content[n][f]
<1>1. content \in [Nodes -> Content]
    BY DEF RowsInv, RowsTypeOK
<1>2. content' = [content EXCEPT ![n] = Updated(r, got[r][n], F)]
    BY DEF WriteContent
<1>3. version[n] = seen[r][n] => got[r][n] = content[n]
    BY DEF RowsInv, ReadingsAreVersions
<1>4. content'[n] = Updated(r, got[r][n], F)
    BY <1>1, <1>2
<1> QED
    BY <1>1, <1>2, <1>3, <1>4 DEF Overwrites, Updated

(* The statements that write content, with the request that steps.         *)
LEMMA ContentSteps ==
    ASSUME RowsInv, RowsNext, content' # content
    PROVE  \E r \in Requests, n \in Nodes :
              /\ MayWrite(r, n) /\ Stepped(r)
              /\ \/ op[r] = "meta" /\ WriteContent(r, n, fields[r]) /\ state' = state
                 \/ WriteContent(r, n, {"markdownBody"}) /\ state' = [state EXCEPT ![n] = r]
<1>0. /\ op \in [Requests -> {"none", "move", "meta", "save", "done"}]
      /\ at \in [Requests -> {"start", "write", "descend", "shift", "fetch", "spread"}]
      /\ rows \in [Requests -> SUBSET Nodes]
    BY DEF RowsInv, RowsTypeOK, LocalsOK
<1>1. PICK r \in Requests : (\E n \in Nodes : Spread(r, n)) \/ WriteMeta(r) \/ WriteSave(r)
    BY DEF RowsNext, BeginMove, BeginMeta, BeginSave, Begin, WriteMove, ReadDescendants, Shift,
       Fetch, Throw, Remove, table
<1>2. ASSUME NEW n \in Nodes, Spread(r, n)
      PROVE  /\ MayWrite(r, n) /\ Stepped(r)
             /\ op[r] = "meta" /\ WriteContent(r, n, fields[r]) /\ state' = state
    <2>1. n \notin removed
        BY <1>2 DEF Spread
    <2>2. rows'[r] = rows[r] \ {n}
        BY <1>0, <1>2, <2>1 DEF Spread
    <2> QED
        BY <1>2, <2>1, <2>2 DEF Spread, Is, MayWrite, Stepped
<1>3. CASE WriteMeta(r)
    <2>1. node[r] \in Nodes /\ at'[r] # at[r]
        BY <1>0, <1>3 DEF WriteMeta, Is, Done, Goto, RowsInv, RowsTypeOK
    <2> QED
        BY <1>3, <2>1 DEF WriteMeta, Is, MayWrite, Stepped
<1>4. CASE WriteSave(r)
    <2>1. node[r] \in Nodes /\ at'[r] # at[r]
        BY <1>0, <1>4 DEF WriteSave, Is, Done, RowsInv, RowsTypeOK
    <2> QED
        BY <1>4, <2>1 DEF WriteSave, Is, MayWrite, Stepped
<1> QED
    BY <1>1, <1>2, <1>3, <1>4

(* No write of content takes a field somebody else has set, unless the     *)
(* version tells that the row was written since it was read.               *)
THEOREM VersionsTell == RowsSpec => VersionTells
<1>1. RowsInv /\ [RowsNext]_rowvars =>
          [\A n \in Nodes : content'[n] # content[n] =>
              \E r \in Requests :
                 \/ Overwrites(r, n)
                 \/ /\ Stepped(r)
                    /\ \A f \in Fields : content'[n][f] \in {content[n][f], r}]_rowvars
    <2> SUFFICES ASSUME RowsInv, RowsNext, NEW n \in Nodes, content'[n] # content[n]
                 PROVE  \E r \in Requests :
                           \/ Overwrites(r, n)
                           \/ /\ Stepped(r)
                              /\ \A f \in Fields : content'[n][f] \in {content[n][f], r}
        OBVIOUS
    <2>1. PICK r \in Requests, m \in Nodes :
              /\ MayWrite(r, m) /\ Stepped(r)
              /\ \E F : WriteContent(r, m, F)
        BY ContentSteps
    <2>2. PICK F : WriteContent(r, m, F)
        BY <2>1
    <2>3. m = n
        BY <2>1, <2>2, OneWrite
    <2> QED
        BY <2>1, <2>2, <2>3, OneWrite
<1> QED
    BY <1>1, RowsCorrect, PTL DEF RowsSpec, VersionTells

(* Only an updateNodeMeta that overwrites what it has not seen parts the   *)
(* markdownBody of a row from the text of its yjs_state.                   *)
THEOREM BodiesFollowStates == RowsSpec => BodyFollowsState
<1>1. RowsInv /\ [RowsNext]_rowvars =>
          [\A n \in Nodes :
              \/ Matches(n)'
              \/ ~Matches(n) /\ state[n]' = state[n]
              \/ \E r \in Requests : Is(r, "meta", at[r]) /\ Overwrites(r, n)]_rowvars
    <2> SUFFICES ASSUME RowsInv, RowsNext, NEW n \in Nodes
                 PROVE  \/ Matches(n)'
                        \/ ~Matches(n) /\ state[n]' = state[n]
                        \/ \E r \in Requests : Is(r, "meta", at[r]) /\ Overwrites(r, n)
        OBVIOUS
    <2>1. CASE UNCHANGED <<content, state>>
        BY <2>1 DEF Matches
    <2>2. CASE content' # content
        <3>1. PICK r \in Requests, m \in Nodes :
                  /\ MayWrite(r, m) /\ Stepped(r)
                  /\ \/ op[r] = "meta" /\ WriteContent(r, m, fields[r]) /\ state' = state
                     \/ WriteContent(r, m, {"markdownBody"}) /\ state' = [state EXCEPT ![m] = r]
            BY <2>2, ContentSteps
        <3>2. fields[r] \subseteq MetaFields /\ state \in [Nodes -> Values]
            BY DEF RowsInv, LocalsOK, RowsTypeOK
        <3>3. CASE op[r] = "meta" /\ WriteContent(r, m, fields[r]) /\ state' = state
            <4>1. /\ n # m => content'[n] = content[n]
                  /\ Overwrites(r, m) \/ content'[m]["markdownBody"] = content[m]["markdownBody"]
                BY <3>1, <3>2, <3>3, OneWrite DEF Fields, MetaFields
            <4> QED
                BY <3>3, <4>1 DEF Matches, Is
        <3>4. CASE WriteContent(r, m, {"markdownBody"}) /\ state' = [state EXCEPT ![m] = r]
            <4>1. n # m => content'[n] = content[n] /\ state'[n] = state[n]
                BY <3>1, <3>2, <3>4, OneWrite
            <4>2. n = m => content'[n]["markdownBody"] = r /\ state'[n] = r
                <5>1. content \in [Nodes -> Content]
                    BY DEF RowsInv, RowsTypeOK
                <5> QED
                    BY <3>2, <3>4, <5>1 DEF WriteContent, Updated, Fields
            <4> QED
                BY <4>1, <4>2 DEF Matches
        <3> QED
            BY <3>1, <3>3, <3>4
    <2>3. CASE content' = content /\ state' # state
        <3>1. PICK r \in Requests : WriteSave(r)
            BY <2>3 DEF RowsNext, BeginMove, BeginMeta, BeginSave, Begin, WriteMove,
               ReadDescendants, Shift, WriteMeta, Spread, Fetch, Throw, Remove, table
        <3>2. /\ WriteContent(r, node[r], {"markdownBody"}) /\ node[r] \in Nodes
              /\ state' = [state EXCEPT ![node[r]] = r]
              /\ content \in [Nodes -> Content] /\ state \in [Nodes -> Values]
            BY <3>1 DEF WriteSave, Is, RowsInv, RowsTypeOK
        <3>3. n = node[r] => content'[n]["markdownBody"] = r /\ state'[n] = r
            BY <3>2 DEF WriteContent, Updated, Fields
        <3>4. n # node[r] => content'[n] = content[n] /\ state'[n] = state[n]
            BY <3>2 DEF WriteContent
        <3> QED
            BY <3>3, <3>4 DEF Matches
    <2> QED
        BY <2>1, <2>2, <2>3
<1> QED
    BY <1>1, RowsCorrect, PTL DEF RowsSpec, BodyFollowsState

-----------------------------------------------------------------------------
(* Sums over finite sets.  They are added up in an order of the library's  *)
(* choosing: there is a recursive function that does so, and it takes the  *)
(* summands in any order.  Each lemma looks at a smallest set it would be  *)
(* wrong for.                                                              *)

First(T) == CHOOSE e \in T : TRUE
IsTotal(h, f, S) ==
    h = [T \in SUBSET S |-> IF T = {} THEN 0 ELSE f[First(T)] + h[T \ {First(T)}]]
Totals(f, S) == CHOOSE h : IsTotal(h, f, S)

LEMMA TotalIsLast == \A f, S : Total(f, S) = Totals(f, S)[S]
BY DEF Total, Totals, IsTotal, First, MapThenSumSet, MapThenFoldSet

LEMMA SmallestSet ==
    ASSUME NEW S, IsFiniteSet(S), NEW Q \in SUBSET (SUBSET S), Q # {}
    PROVE  \E T \in Q : \A U \in Q : U \subseteq T => U = T
<1>1. IsWellFoundedOn(StrictSubsetOrdering(S), SUBSET S)
    BY FS_StrictSubsetOrderingWellFounded, FS_FiniteSubsetsOfFinite
<1>2. PICK T \in Q : \A U \in Q : ~ (<<U, T>> \in StrictSubsetOrdering(S))
    BY <1>1, WFMin
<1> QED
    BY <1>2 DEF StrictSubsetOrdering

(* A recursion over the subsets of a finite set has one solution at most. *)
LEMMA TotalsAgree ==
    ASSUME NEW f, NEW A, NEW B, IsFiniteSet(A), NEW g, NEW h,
           IsTotal(g, f, A), IsTotal(h, f, B)
    PROVE  \A T \in SUBSET (A \cap B) : g[T] = h[T]
<1> DEFINE Q == {T \in SUBSET (A \cap B) : g[T] # h[T]}
<1>1. SUFFICES ASSUME Q # {} PROVE FALSE
    OBVIOUS
<1>2. IsFiniteSet(A \cap B)
    BY FS_Subset
<1>3. PICK T \in Q : \A U \in Q : U \subseteq T => U = T
    <2> HIDE DEF Q
    <2>1. Q \in SUBSET (SUBSET (A \cap B))
        BY DEF Q
    <2> QED
        BY <1>1, <1>2, <2>1, SmallestSet
<1>4. T \in SUBSET A /\ T \in SUBSET B /\ g[T] # h[T]
    OBVIOUS
<1>5. T # {}
    BY <1>4 DEF IsTotal
<1>6. First(T) \in T
    BY <1>5 DEF First
<1>7. g[T \ {First(T)}] = h[T \ {First(T)}]
    BY <1>3, <1>6
<1> QED
    BY <1>4, <1>5, <1>7 DEF IsTotal

LEMMA TotalsExist ==
    ASSUME NEW f, NEW S, IsFiniteSet(S)
    PROVE  IsTotal(Totals(f, S), f, S)
<1> DEFINE Q == {T \in SUBSET S : ~IsTotal(Totals(f, T), f, T)}
<1>1. SUFFICES ASSUME Q # {} PROVE FALSE
    OBVIOUS
<1>2. PICK T \in Q : \A U \in Q : U \subseteq T => U = T
    <2> HIDE DEF Q
    <2>1. Q \in SUBSET (SUBSET S)
        BY DEF Q
    <2> QED
        BY <1>1, <2>1, SmallestSet
<1> DEFINE Rest(U) == U \ {First(U)}
           G == [U \in SUBSET T |-> IF U = {} THEN 0
                                    ELSE f[First(U)] + Totals(f, Rest(U))[Rest(U)]]
<1>3. ASSUME NEW U \in SUBSET T, U # {}
      PROVE  /\ Rest(U) \in SUBSET T /\ IsFiniteSet(Rest(U))
             /\ IsTotal(Totals(f, Rest(U)), f, Rest(U))
    <2>1. First(U) \in U
        BY <1>3 DEF First
    <2>2. Rest(U) \in SUBSET S /\ Rest(U) \subseteq T /\ Rest(U) # T
        BY <2>1
    <2>3. IsFiniteSet(Rest(U))
        BY <2>2, FS_Subset
    <2> QED
        BY <1>2, <2>2, <2>3
<1>4. ASSUME NEW U \in SUBSET T, U # {}
      PROVE  G[Rest(U)] = Totals(f, Rest(U))[Rest(U)]
    <2> DEFINE W == Rest(U)
    <2>1. W \in SUBSET T /\ IsFiniteSet(W) /\ IsTotal(Totals(f, W), f, W)
        BY <1>3, <1>4
    <2>2. CASE W = {}
        BY <2>1, <2>2 DEF IsTotal
    <2>3. CASE W # {}
        <3>1. /\ Rest(W) \in SUBSET W /\ IsFiniteSet(Rest(W))
              /\ IsTotal(Totals(f, Rest(W)), f, Rest(W))
            BY <1>3, <2>1, <2>3
        <3>2. Totals(f, Rest(W))[Rest(W)] = Totals(f, W)[Rest(W)]
            BY <2>1, <3>1, TotalsAgree
        <3>3. Totals(f, W)[W] = f[First(W)] + Totals(f, W)[Rest(W)]
            BY <2>1, <2>3 DEF IsTotal
        <3> QED
            BY <2>1, <2>3, <3>2, <3>3
    <2> QED
        BY <2>2, <2>3
<1>5. IsTotal(G, f, T)
    <2>1. ASSUME NEW U \in SUBSET T
          PROVE  G[U] = IF U = {} THEN 0 ELSE f[First(U)] + G[Rest(U)]
        BY <1>4
    <2> QED
        BY <2>1 DEF IsTotal
<1>6. IsTotal(Totals(f, T), f, T)
    <2> HIDE DEF G
    <2> QED
        BY <1>5 DEF Totals
<1> QED
    BY <1>6

(* Sums of integers are integers, whatever the order of the summands.      *)
LEMMA TotalsTakeAny ==
    ASSUME NEW S, IsFiniteSet(S), NEW f, \A r \in S : f[r] \in Int, NEW h, IsTotal(h, f, S)
    PROVE  /\ \A T \in SUBSET S : h[T] \in Int
           /\ \A T \in SUBSET S : \A y \in T : h[T] = f[y] + h[T \ {y}]
<1>0. /\ h[{}] = 0
      /\ \A T \in SUBSET S : T # {} =>
            First(T) \in T /\ h[T] = f[First(T)] + h[T \ {First(T)}]
    BY DEF IsTotal, First
<1>1. \A T \in SUBSET S : h[T] \in Int
    <2> DEFINE Q == {T \in SUBSET S : h[T] \notin Int}
    <2>1. SUFFICES ASSUME Q # {} PROVE FALSE
        OBVIOUS
    <2>2. PICK T \in Q : \A U \in Q : U \subseteq T => U = T
        <3> HIDE DEF Q
        <3>1. Q \in SUBSET (SUBSET S)
            BY DEF Q
        <3> QED
            BY <2>1, <3>1, SmallestSet
    <2>3. T # {}
        BY <1>0
    <2>4. h[T \ {First(T)}] \in Int
        BY <1>0, <2>2, <2>3
    <2> QED
        BY <1>0, <2>3, <2>4
<1>2. \A T \in SUBSET S : \A y \in T : h[T] = f[y] + h[T \ {y}]
    <2> DEFINE Q == {T \in SUBSET S : \E y \in T : h[T] # f[y] + h[T \ {y}]}
    <2>1. SUFFICES ASSUME Q # {} PROVE FALSE
        OBVIOUS
    <2>2. PICK T \in Q : \A U \in Q : U \subseteq T => U = T
        <3> HIDE DEF Q
        <3>1. Q \in SUBSET (SUBSET S)
            BY DEF Q
        <3> QED
            BY <2>1, <3>1, SmallestSet
    <2>3. PICK y \in T : h[T] # f[y] + h[T \ {y}]
        OBVIOUS
    <2> DEFINE z == First(T)
    <2>4. z \in T /\ h[T] = f[z] + h[T \ {z}] /\ z # y
        BY <1>0, <2>3
    <2>5. T \ {y} \notin Q /\ T \ {z} \notin Q
        BY <2>2, <2>4
    <2> HIDE DEF z
    <2>6. /\ h[T \ {z}] = f[y] + h[(T \ {z}) \ {y}]
          /\ h[T \ {y}] = f[z] + h[(T \ {y}) \ {z}]
        BY <2>4, <2>5
    <2>7. (T \ {z}) \ {y} = (T \ {y}) \ {z}
        OBVIOUS
    <2>8. f[y] \in Int /\ f[z] \in Int /\ h[(T \ {y}) \ {z}] \in Int
        BY <1>1, <2>4
    <2>9. h[T] = f[z] + (f[y] + h[(T \ {y}) \ {z}])
        BY <2>4, <2>6, <2>7
    <2>10. f[z] + (f[y] + h[(T \ {y}) \ {z}]) = f[y] + (f[z] + h[(T \ {y}) \ {z}])
        BY <2>8
    <2> QED
        BY <2>3, <2>6, <2>9, <2>10
<1> QED
    BY <1>1, <1>2

LEMMA TotalTypes ==
    ASSUME NEW S, IsFiniteSet(S), NEW f, \A r \in S : f[r] \in Int
    PROVE  Total(f, S) \in Int
BY TotalIsLast, TotalsExist, TotalsTakeAny

LEMMA TotalAdds ==
    ASSUME NEW S, IsFiniteSet(S), NEW f, \A r \in S : f[r] \in Int, NEW y \in S
    PROVE  Total(f, S) = f[y] + Total(f, S \ {y})
<1>1. IsTotal(Totals(f, S), f, S)
    BY TotalsExist
<1>2. IsFiniteSet(S \ {y}) /\ S \ {y} \in SUBSET (S \cap (S \ {y}))
    BY FS_Subset
<1>3. IsTotal(Totals(f, S \ {y}), f, S \ {y})
    BY <1>2, TotalsExist
<1>4. Totals(f, S)[S \ {y}] = Totals(f, S \ {y})[S \ {y}]
    BY <1>1, <1>2, <1>3, TotalsAgree
<1>5. Totals(f, S)[S] = f[y] + Totals(f, S)[S \ {y}]
    BY <1>1, TotalsTakeAny
<1> QED
    BY <1>4, <1>5, TotalIsLast

LEMMA TotalSame ==
    ASSUME NEW S, IsFiniteSet(S), NEW f, NEW g, \A r \in S : f[r] = g[r]
    PROVE  Total(f, S) = Total(g, S)
<1>1. IsTotal(Totals(f, S), f, S) /\ IsTotal(Totals(g, S), g, S)
    BY TotalsExist
<1> DEFINE h == Totals(f, S)
<1>2. \A T \in SUBSET S : T # {} => f[First(T)] = g[First(T)]
    BY DEF First
<1>3. IsTotal(h, g, S)
    <2> HIDE DEF h
    <2> QED
      BY <1>1, <1>2 DEF IsTotal, h
<1>4. h[S] = Totals(g, S)[S]
    BY <1>1, <1>3, TotalsAgree
<1> QED
    BY <1>4, TotalIsLast

-----------------------------------------------------------------------------
(* A move that finds the version it read finds the position it read: its   *)
(* delta is what its write will add.                                       *)
DeltasAreMoves ==
    \A r \in Requests :
        Is(r, "move", "write") /\ seen[r][node[r]] = version[node[r]] =>
            delta[r] = x[r] - position[node[r]]

MovesInv == RowsInv /\ DeltasAreMoves

(* What a request remembers of a move, and where it is.                    *)
Waits(s) ==
    <<op[s], at[s], node[s], x[s], delta[s], seen[s], rows[s]>>'
        = <<op[s], at[s], node[s], x[s], delta[s], seen[s], rows[s]>>

(* A step that is no part of a move.                                       *)
NoMove(r) == op[r] # "move" /\ op'[r] # "move" /\ UNCHANGED position

(* The steps as the positions see them: one request's, or a deletion.      *)
RequestStep(r) ==
    /\ UNCHANGED removed /\ \A s \in Requests \ {r} : Waits(s)
    /\ \/ NoMove(r)
       \/ \E n \in Nodes, to \in Targets : BeginMove(r, n, to)
       \/ WriteMove(r)
       \/ op[r] = "move" /\ ReadDescendants(r)
       \/ Shift(r)
       \/ op[r] = "move" /\ Throw(r)

LEMMA StepsAreRequests ==
    ASSUME RowsInv, RowsNext
    PROVE  (\E r \in Requests : RequestStep(r)) \/ \E n \in Nodes : Remove(n)
<1>0. /\ op \in [Requests -> {"none", "move", "meta", "save", "done"}]
      /\ at \in [Requests -> {"start", "write", "descend", "shift", "fetch", "spread"}]
      /\ node \in [Requests -> Nodes \cup {Nil}] /\ seen \in [Requests -> [Nodes -> Nat]]
      /\ x \in [Requests -> Int \cup {Nil}] /\ delta \in [Requests -> Int \cup {Nil}]
      /\ rows \in [Requests -> SUBSET Nodes]
    BY DEF RowsInv, RowsTypeOK, LocalsOK
<1>1. ASSUME NEW r \in Requests, NEW n \in Nodes, NEW to \in Targets, BeginMove(r, n, to)
      PROVE  RequestStep(r)
    BY <1>0, <1>1 DEF BeginMove, Begin, Read, table, RequestStep, Waits
<1>2. ASSUME NEW r \in Requests, NEW n \in Nodes, NEW F \in SUBSET {"color", "textColor"},
             NEW all \in BOOLEAN, BeginMeta(r, n, F, all)
      PROVE  RequestStep(r)
    BY <1>0, <1>2 DEF BeginMeta, Begin, Read, table, RequestStep, Waits, NoMove
<1>3. ASSUME NEW r \in Requests, NEW n \in Nodes, BeginSave(r, n)
      PROVE  RequestStep(r)
    BY <1>0, <1>3 DEF BeginSave, Begin, Read, table, RequestStep, Waits, NoMove
<1>4. ASSUME NEW r \in Requests, NEW n \in Nodes, Spread(r, n)
      PROVE  RequestStep(r)
    BY <1>0, <1>4 DEF Spread, Is, Done, RequestStep, Waits, NoMove
<1>5. ASSUME NEW r \in Requests, WriteMove(r)
      PROVE  RequestStep(r)
    BY <1>0, <1>5 DEF WriteMove, Is, Done, Goto, RequestStep, Waits
<1>6. ASSUME NEW r \in Requests, ReadDescendants(r)
      PROVE  RequestStep(r)
    BY <1>0, <1>6 DEF ReadDescendants, Done, Goto, table, RequestStep, Waits, NoMove
<1>7. ASSUME NEW r \in Requests, Shift(r)
      PROVE  RequestStep(r)
    BY <1>0, <1>7 DEF Shift, Is, Done, RequestStep, Waits
<1>8. ASSUME NEW r \in Requests, WriteMeta(r)
      PROVE  RequestStep(r)
    BY <1>0, <1>8 DEF WriteMeta, Is, Done, Goto, RequestStep, Waits, NoMove
<1>9. ASSUME NEW r \in Requests, Fetch(r)
      PROVE  RequestStep(r)
    BY <1>0, <1>9 DEF Fetch, Read, Is, Done, Goto, table, RequestStep, Waits, NoMove
<1>10. ASSUME NEW r \in Requests, WriteSave(r)
       PROVE  RequestStep(r)
    BY <1>0, <1>10 DEF WriteSave, Is, Done, RequestStep, Waits, NoMove
<1>11. ASSUME NEW r \in Requests, Throw(r)
       PROVE  RequestStep(r)
    BY <1>0, <1>11 DEF Throw, Done, table, RequestStep, Waits, NoMove
<1> QED
    BY <1>1, <1>2, <1>3, <1>4, <1>5, <1>6, <1>7, <1>8, <1>9, <1>10, <1>11 DEF RowsNext

(* A position is written with its version, and versions only grow.         *)
LEMMA PositionsAreVersioned ==
    ASSUME RowsInv, RowsNext, NEW n \in Nodes
    PROVE  \/ position'[n] = position[n] /\ version'[n] = version[n]
           \/ version'[n] = version[n] + 1
<1>0. position \in [Nodes -> Int] /\ version \in [Nodes -> Nat]
    BY DEF RowsInv, RowsTypeOK
<1>1. ASSUME NEW r \in Requests, WriteMove(r)
      PROVE  \/ position'[n] = position[n] /\ version'[n] = version[n]
             \/ version'[n] = version[n] + 1
    BY <1>0, <1>1, BumpedTypes DEF WriteMove
<1>2. ASSUME NEW r \in Requests, Shift(r)
      PROVE  \/ position'[n] = position[n] /\ version'[n] = version[n]
             \/ version'[n] = version[n] + 1
    BY <1>0, <1>2, BumpedTypes DEF Shift
<1>3. CASE UNCHANGED position /\ (UNCHANGED version \/ \E N : version' = Bumped(N))
    BY <1>0, <1>3, BumpedTypes
<1> QED
    BY <1>1, <1>2, <1>3 DEF RowsNext, BeginMove, BeginMeta, BeginSave, Begin, Spread,
       WriteContent, ReadDescendants, WriteMeta, Fetch, WriteSave, Throw, Remove, table

LEMMA MovesStep == RowsInv /\ DeltasAreMoves /\ RowsInv' /\ [RowsNext]_rowvars => DeltasAreMoves'
<1> SUFFICES ASSUME RowsInv, DeltasAreMoves, RowsInv', RowsNext,
                    NEW s \in Requests, Is(s, "move", "write")',
                    seen'[s][node'[s]] = version'[node'[s]]
             PROVE  delta'[s] = x'[s] - position'[node'[s]]
    BY DEF DeltasAreMoves, Is, rowvars, table, locals
<1>0. /\ position \in [Nodes -> Int] /\ version \in [Nodes -> Nat]
      /\ seen \in [Requests -> [Nodes -> Nat]]
      /\ op \in [Requests -> {"none", "move", "meta", "save", "done"}]
      /\ at \in [Requests -> {"start", "write", "descend", "shift", "fetch", "spread"}]
      /\ node \in [Requests -> Nodes \cup {Nil}]
      /\ x \in [Requests -> Int \cup {Nil}] /\ delta \in [Requests -> Int \cup {Nil}]
    BY DEF RowsInv, RowsTypeOK, LocalsOK
<1>1. CASE Waits(s)
    <2>1. /\ Is(s, "move", "write") /\ node'[s] = node[s] /\ node[s] \in Nodes
          /\ seen'[s] = seen[s] /\ x'[s] = x[s] /\ delta'[s] = delta[s]
        BY <1>0, <1>1 DEF Waits, Is, RowsInv, RowsTypeOK
    <2>2. seen[s][node[s]] <= version[node[s]]
        BY <2>1 DEF RowsInv, ReadingsAreVersions, MayWrite, Is
    <2>3. seen[s][node[s]] \in Nat /\ version[node[s]] \in Nat
        BY <1>0, <2>1
    <2>4. position'[node[s]] = position[node[s]] /\ version'[node[s]] = version[node[s]]
        BY <2>1, <2>2, <2>3, PositionsAreVersioned
    <2> QED
        BY <2>1, <2>4 DEF DeltasAreMoves
<1>2. ASSUME NEW n \in Nodes, NEW to \in Targets, BeginMove(s, n, to)
      PROVE  delta'[s] = x'[s] - position'[node'[s]]
    BY <1>0, <1>2 DEF BeginMove, Begin, table
<1>3. ASSUME ~Waits(s)
      PROVE  \E n \in Nodes, to \in Targets : BeginMove(s, n, to)
    <2>1. ASSUME NEW n \in Nodes, Remove(n)
          PROVE  Waits(s)
        BY <2>1 DEF Remove, locals, Waits
    <2>2. RequestStep(s)
        BY <1>3, <2>1, StepsAreRequests DEF RequestStep
    <2>3. ~NoMove(s)
        BY DEF NoMove, Is
    <2>4. ~WriteMove(s)
        BY <1>0 DEF WriteMove, Is, Done, Goto
    <2>5. ~ReadDescendants(s)
        BY <1>0 DEF ReadDescendants, Is, Done, Goto
    <2>6. ~Shift(s)
        BY <1>0 DEF Shift, Is, Done
    <2>7. ~Throw(s)
        BY <1>0 DEF Throw, Is, Done
    <2> QED
        BY <2>2, <2>3, <2>4, <2>5, <2>6, <2>7 DEF RequestStep
<1> QED
    BY <1>1, <1>2, <1>3

LEMMA MovesCorrect == RowsSpec => []MovesInv
<1>1. RowsInit => DeltasAreMoves
    BY DEF RowsInit, DeltasAreMoves, Is
<1>2. RowsInit => MovesInv
    BY <1>1, RowsInitially DEF MovesInv
<1>3. MovesInv /\ [RowsNext]_rowvars => MovesInv'
    BY RowsStep, MovesStep DEF MovesInv
<1> QED
    BY <1>2, <1>3, PTL DEF RowsSpec

-----------------------------------------------------------------------------
Movers(m) == {s \in Requests : m \in Pending(s)}

(* Only a move that has written its node has something pending.            *)
LEMMA PendingMoves ==
    \A s : Pending(s) # {} => op[s] = "move" /\ at[s] \in {"descend", "shift"}
BY DEF Pending, Is

LEMMA MoversAreMoves ==
    ASSUME RowsInv, NEW m
    PROVE  IsFiniteSet(Movers(m)) /\ \A s \in Movers(m) : delta[s] \in Int
<1>1. IsFiniteSet(Movers(m))
    BY RequestsAreFinite, FS_Subset DEF Movers
<1>2. \A s \in Movers(m) : delta[s] \in Int
    BY PendingMoves DEF Movers, RowsInv, LocalsOK, Is
<1> QED
    BY <1>1, <1>2

LEMMA SeenPositionTypes ==
    ASSUME RowsInv, NEW m \in Nodes
    PROVE  SeenPosition(m) \in Int /\ position[m] \in Int /\ Total(delta, Movers(m)) \in Int
<1>1. Total(delta, Movers(m)) \in Int
    BY MoversAreMoves, TotalTypes
<1> QED
    BY <1>1 DEF SeenPosition, Movers, RowsInv, RowsTypeOK

(* What SeenPosition is after a step that adds d to the position of m and  *)
(* changes the movers of m.                                                *)
LEMMA SameMovers ==
    ASSUME RowsInv, NEW m \in Nodes, Movers(m)' = Movers(m),
           \A s \in Movers(m) : delta'[s] = delta[s],
           NEW d \in Int, position'[m] = position[m] + d
    PROVE  SeenPosition(m)' = SeenPosition(m) + d
<1>1. Total(delta', Movers(m)) = Total(delta, Movers(m))
    BY MoversAreMoves, TotalSame
<1>2. SeenPosition(m)' = position'[m] + Total(delta', Movers(m))
    BY DEF SeenPosition, Movers
<1>3. SeenPosition(m) = position[m] + Total(delta, Movers(m))
    BY DEF SeenPosition, Movers
<1> QED
    BY <1>1, <1>2, <1>3, SeenPositionTypes

LEMMA NobodyMoves ==
    ASSUME RowsInv, NEW m \in Nodes, Movers(m)' = Movers(m),
           \A s \in Movers(m) : delta'[s] = delta[s], position'[m] = position[m]
    PROVE  SeenPosition(m)' = SeenPosition(m)
<1>1. Total(delta', Movers(m)) = Total(delta, Movers(m))
    BY MoversAreMoves, TotalSame
<1> QED
    BY <1>1 DEF SeenPosition, Movers

LEMMA OneMoverMore ==
    ASSUME RowsInv, NEW m \in Nodes, NEW r \in Requests, r \notin Movers(m), delta[r] \in Int,
           Movers(m)' = Movers(m) \cup {r}, UNCHANGED delta, position'[m] = position[m]
    PROVE  SeenPosition(m)' = SeenPosition(m) + delta[r]
<1>1. IsFiniteSet(Movers(m) \cup {r}) /\ (Movers(m) \cup {r}) \ {r} = Movers(m)
    BY MoversAreMoves, FS_AddElement
<1>2. Total(delta, Movers(m) \cup {r}) = delta[r] + Total(delta, Movers(m))
    BY <1>1, MoversAreMoves, TotalAdds
<1>3. SeenPosition(m)' = position[m] + Total(delta, Movers(m) \cup {r})
    BY DEF SeenPosition, Movers
<1>4. SeenPosition(m) = position[m] + Total(delta, Movers(m))
    BY DEF SeenPosition, Movers
<1> QED
    BY <1>2, <1>3, <1>4, SeenPositionTypes

LEMMA OneMoverLess ==
    ASSUME RowsInv, NEW m \in Nodes, NEW r \in Movers(m),
           Movers(m)' = Movers(m) \ {r}, UNCHANGED delta,
           position'[m] = position[m] + delta[r]
    PROVE  SeenPosition(m)' = SeenPosition(m)
<1>1. Total(delta, Movers(m)) = delta[r] + Total(delta, Movers(m) \ {r})
    BY MoversAreMoves, TotalAdds
<1>2. Total(delta, Movers(m) \ {r}) \in Int /\ delta[r] \in Int /\ position[m] \in Int
    <2>1. IsFiniteSet(Movers(m) \ {r})
        BY MoversAreMoves, FS_Subset
    <2> QED
        BY <2>1, MoversAreMoves, SeenPositionTypes, TotalTypes
<1>3. SeenPosition(m)' = (position[m] + delta[r]) + Total(delta, Movers(m) \ {r})
    BY DEF SeenPosition, Movers
<1>4. SeenPosition(m) = position[m] + Total(delta, Movers(m))
    BY DEF SeenPosition, Movers
<1> QED
    BY <1>1, <1>2, <1>3, <1>4

LEMMA OneMoverGone ==
    ASSUME RowsInv, NEW m \in Nodes, NEW r \in Movers(m),
           Movers(m)' = Movers(m) \ {r}, UNCHANGED delta, position'[m] = position[m]
    PROVE  SeenPosition(m)' = SeenPosition(m) + (-delta[r])
<1>1. Total(delta, Movers(m)) = delta[r] + Total(delta, Movers(m) \ {r})
    BY MoversAreMoves, TotalAdds
<1>2. Total(delta, Movers(m) \ {r}) \in Int /\ delta[r] \in Int /\ position[m] \in Int
    <2>1. IsFiniteSet(Movers(m) \ {r})
        BY MoversAreMoves, FS_Subset
    <2> QED
        BY <2>1, MoversAreMoves, SeenPositionTypes, TotalTypes
<1>3. SeenPosition(m)' = position[m] + Total(delta, Movers(m) \ {r})
    BY DEF SeenPosition, Movers
<1>4. SeenPosition(m) = position[m] + Total(delta, Movers(m))
    BY DEF SeenPosition, Movers
<1> QED
    BY <1>1, <1>2, <1>3, <1>4

(* A request that waits has the same descendants to shift as before.       *)
LEMMA WaitingMovers ==
    ASSUME NEW r \in Requests, UNCHANGED removed, \A s \in Requests \ {r} : Waits(s)
    PROVE  /\ \A n : Below(n)' = Below(n)
           /\ \A s \in Requests \ {r} : Pending(s)' = Pending(s) /\ delta'[s] = delta[s]
<1>1. \A n : Below(n)' = Below(n)
    BY DEF Below, Alive
<1>2. ASSUME NEW s \in Requests \ {r}
      PROVE  Pending(s)' = Pending(s) /\ delta'[s] = delta[s]
    <2>1. op'[s] = op[s] /\ at'[s] = at[s] /\ node'[s] = node[s] /\ delta'[s] = delta[s]
          /\ rows'[s] = rows[s]
        BY DEF Waits
    <2>2. Below(node[s])' = Below(node[s])
        <3>1. \A m : (m \in Below(node[s]))' <=> m \in Below(node[s])
            BY <2>1 DEF Below, Alive
        <3> QED
            BY <3>1
    <2> QED
        BY <2>1, <2>2 DEF Pending, Is
<1> QED
    BY <1>1, <1>2

(* No node is below itself.                                                *)
LEMMA NotBelowItself == \A n \in Nodes : n \notin Below(n)
BY EdgesAreAcyclic DEF Below

(* If the pending rows of a request stay what they are, nothing is seen to *)
(* move.                                                                   *)
LEMMA NothingMoves ==
    ASSUME RowsInv, NEW r \in Requests, UNCHANGED <<removed, position>>,
           \A s \in Requests \ {r} : Waits(s),
           Pending(r)' = Pending(r), Pending(r) # {} => delta'[r] = delta[r]
    PROVE  Shifted({}, 0)
<1> SUFFICES ASSUME NEW m \in Alive
             PROVE  SeenPosition(m)' = SeenPosition(m)
    BY SeenPositionTypes DEF Shifted, Alive
<1>1. m \in Nodes
    BY DEF Alive
<1>2. Movers(m)' = Movers(m)
    BY WaitingMovers DEF Movers
<1>3. \A s \in Movers(m) : delta'[s] = delta[s]
    BY WaitingMovers DEF Movers
<1> QED
    BY <1>1, <1>2, <1>3, NobodyMoves

(* The write of a move carries its node and all below it along.            *)
LEMMA WriteShifts ==
    ASSUME RowsInv, DeltasAreMoves, NEW r \in Requests, WriteMove(r), RequestStep(r),
           ~Overwrites(r, node[r])
    PROVE  Shifted({}, 0) \/ Shifted({node[r]} \cup Below(node[r]), delta[r])
<1>0. /\ position \in [Nodes -> Int] /\ op[r] = "move" /\ at[r] = "write" /\ node[r] \in Nodes
      /\ op \in [Requests -> {"none", "move", "meta", "save", "done"}]
      /\ at \in [Requests -> {"start", "write", "descend", "shift", "fetch", "spread"}]
      /\ x[r] \in Int /\ delta[r] \in Int
    BY DEF RowsInv, RowsTypeOK, LocalsOK, WriteMove, Is
<1>1. Pending(r) = {} /\ UNCHANGED <<removed, node, x, delta, seen>>
      /\ \A s \in Requests \ {r} : Waits(s)
    BY <1>0 DEF Pending, Is, WriteMove, RequestStep
<1>2. CASE node[r] \in removed
    <2>1. Pending(r)' = {} /\ UNCHANGED position
        BY <1>0, <1>2 DEF WriteMove, Done, Pending, Is
    <2> QED
        BY <1>1, <2>1, NothingMoves
<1>3. CASE node[r] \notin removed
    <2>1. /\ position' = [position EXCEPT ![node[r]] = x[r]]
          /\ op'[r] = "move" /\ at'[r] = "descend"
        BY <1>0, <1>3 DEF WriteMove, Goto
    <2>2. Pending(r)' = Below(node[r])
        BY <1>1, <2>1, WaitingMovers DEF Pending, Is
    <2>3. delta[r] = x[r] - position[node[r]]
        <3>1. Stepped(r)
            BY <1>0, <2>1 DEF Stepped
        <3> QED
            BY <1>0, <3>1 DEF Overwrites, DeltasAreMoves, Is
    <2>4. ASSUME NEW m \in Alive
          PROVE  SeenPosition(m)' = SeenPosition(m) +
                     (IF m \in {node[r]} \cup Below(node[r]) THEN delta[r] ELSE 0)
        <3>1. m \in Nodes /\ r \notin Movers(m)
            BY <1>1 DEF Alive, Movers
        <3>2. CASE m \in Below(node[r])
            <4>1. m # node[r]
                BY <1>0, <3>2, NotBelowItself
            <4>2. Movers(m)' = Movers(m) \cup {r}
                BY <1>1, <2>2, <3>2, WaitingMovers DEF Movers
            <4>3. position'[m] = position[m]
                BY <1>0, <2>1, <3>1, <4>1
            <4> QED
                BY <1>0, <1>1, <3>1, <3>2, <4>2, <4>3, OneMoverMore
        <3>3. CASE m \notin Below(node[r])
            <4> DEFINE d == IF m = node[r] THEN delta[r] ELSE 0
            <4>1. Movers(m)' = Movers(m)
                BY <1>1, <2>2, <3>3, WaitingMovers DEF Movers
            <4>2. d \in Int /\ position'[m] = position[m] + d
                BY <1>0, <2>1, <2>3, <3>1
            <4>3. SeenPosition(m)' = SeenPosition(m) + d
                <5> HIDE DEF d
                <5> QED
                    BY <1>1, <3>1, <4>1, <4>2, SameMovers
            <4> QED
                BY <3>3, <4>3
        <3> QED
            BY <3>2, <3>3
    <2>5. Alive' = Alive
        BY <1>1 DEF Alive
    <2> QED
        BY <2>4, <2>5 DEF Shifted
<1> QED
    BY <1>2, <1>3

(* Reading the descendants only notes what was to be shifted anyway.       *)
LEMMA DescendShiftsNothing ==
    ASSUME RowsInv, NEW r \in Requests, op[r] = "move", ReadDescendants(r), RequestStep(r)
    PROVE  Shifted({}, 0)
<1>0. /\ op \in [Requests -> {"none", "move", "meta", "save", "done"}]
      /\ at \in [Requests -> {"start", "write", "descend", "shift", "fetch", "spread"}]
      /\ rows \in [Requests -> SUBSET Nodes]
    BY DEF RowsInv, RowsTypeOK, LocalsOK
<1>1. UNCHANGED <<removed, position, delta>> /\ \A s \in Requests \ {r} : Waits(s)
    BY DEF ReadDescendants, table, RequestStep
<1>2. Pending(r) = Below(node[r]) /\ rows'[r] = Below(node[r])
    BY <1>0 DEF ReadDescendants, DescendantIds, Pending, Is
<1>3. Pending(r)' = Below(node[r])
    <2>1. CASE Below(node[r]) = {}
        <3>1. op'[r] = "done"
            BY <1>0, <2>1 DEF ReadDescendants, DescendantIds, Done
        <3> QED
            BY <2>1, <3>1 DEF Pending, Is
    <2>2. CASE Below(node[r]) # {}
        <3>1. op'[r] = "move" /\ at'[r] = "shift"
            BY <1>0, <2>2 DEF ReadDescendants, DescendantIds, Goto
        <3> QED
            BY <1>2, <3>1 DEF Pending, Is
    <2> QED
        BY <2>1, <2>2
<1> QED
    BY <1>1, <1>2, <1>3, NothingMoves

(* The shift of the descendants is what everybody was waiting for.         *)
LEMMA ShiftWasSeen ==
    ASSUME RowsInv, NEW r \in Requests, Shift(r), RequestStep(r)
    PROVE  Shifted({}, 0)
<1>0. /\ position \in [Nodes -> Int] /\ op[r] = "move" /\ at[r] = "shift" /\ delta[r] \in Int
      /\ op \in [Requests -> {"none", "move", "meta", "save", "done"}]
      /\ rows \in [Requests -> SUBSET Nodes]
    BY DEF RowsInv, RowsTypeOK, LocalsOK, Shift, Is
<1>1. UNCHANGED <<removed, delta>> /\ \A s \in Requests \ {r} : Waits(s)
    BY DEF Shift, RequestStep
<1>2. Pending(r) = rows[r] /\ Pending(r)' = {}
    BY <1>0 DEF Shift, Done, Pending, Is
<1> SUFFICES ASSUME NEW m \in Alive
             PROVE  SeenPosition(m)' = SeenPosition(m)
    BY <1>1, SeenPositionTypes DEF Shifted, Alive
<1>3. m \in Nodes /\ m \notin removed
    BY DEF Alive
<1>4. CASE m \in rows[r]
    <2>1. r \in Movers(m) /\ Movers(m)' = Movers(m) \ {r}
        BY <1>1, <1>2, <1>4, WaitingMovers DEF Movers
    <2>2. position'[m] = position[m] + delta[r]
        BY <1>3, <1>4 DEF Shift
    <2> QED
        BY <1>1, <1>3, <2>1, <2>2, OneMoverLess
<1>5. CASE m \notin rows[r]
    <2>1. Movers(m)' = Movers(m)
        BY <1>1, <1>2, <1>5, WaitingMovers DEF Movers
    <2>2. position'[m] = position[m]
        BY <1>0, <1>3, <1>5 DEF Shift
    <2> QED
        BY <1>1, <1>3, <2>1, <2>2, NobodyMoves
<1> QED
    BY <1>4, <1>5

(* A move that fails leaves its descendants where they are: those it was   *)
(* to shift lose its amount, and nothing else is seen to move.             *)
LEMMA ThrowTears ==
    ASSUME RowsInv, NEW r \in Requests, op[r] = "move", Throw(r), RequestStep(r)
    PROVE  Shifted({}, 0) \/ Shifted(Pending(r), -delta[r])
<1>0. /\ op \in [Requests -> {"none", "move", "meta", "save", "done"}]
      /\ at[r] # "start" /\ delta[r] \in Int
    BY DEF RowsInv, RowsTypeOK, LocalsOK, Throw, Is
<1>1. UNCHANGED <<removed, position, delta>> /\ \A s \in Requests \ {r} : Waits(s)
    BY DEF Throw, table, RequestStep
<1>2. Pending(r)' = {} /\ Alive' = Alive
    BY <1>0, <1>1 DEF Throw, Done, Pending, Is, Alive
<1>3. ASSUME NEW m \in Alive
      PROVE  SeenPosition(m)' = SeenPosition(m) + (IF m \in Pending(r) THEN -delta[r] ELSE 0)
    <2>1. m \in Nodes
        BY DEF Alive
    <2>2. CASE m \in Pending(r)
        <3>1. r \in Movers(m) /\ Movers(m)' = Movers(m) \ {r}
            BY <1>1, <1>2, <2>2, WaitingMovers DEF Movers
        <3>2. SeenPosition(m)' = SeenPosition(m) + (-delta[r])
            BY <1>1, <2>1, <3>1, OneMoverGone
        <3> QED
            BY <2>2, <3>2
    <2>3. CASE m \notin Pending(r)
        <3>1. Movers(m)' = Movers(m)
            BY <1>1, <1>2, <2>3, WaitingMovers DEF Movers
        <3>2. SeenPosition(m)' = SeenPosition(m)
            BY <1>1, <2>1, <3>1, NobodyMoves
        <3> QED
            BY <2>1, <2>3, <3>2, SeenPositionTypes
    <2> QED
        BY <2>2, <2>3
<1> QED
    BY <1>2, <1>3 DEF Shifted

(* A deleted leaf takes nobody else out of a subtree.                      *)
LEMMA RemoveShiftsNothing ==
    ASSUME RowsInv, NEW n \in Nodes, Remove(n)
    PROVE  Shifted({}, 0)
<1>1. UNCHANGED <<position, delta, op, at, node, rows>> /\ Alive' \subseteq Alive
    BY DEF Remove, locals, Alive
<1> SUFFICES ASSUME NEW m \in Alive'
             PROVE  SeenPosition(m)' = SeenPosition(m)
    BY <1>1, SeenPositionTypes DEF Shifted, Alive
<1>2. m \in Nodes /\ m \in Alive
    BY <1>1 DEF Alive
<1>3. \A k : (m \in Below(k))' <=> m \in Below(k)
    BY <1>2 DEF Below
<1>4. \A s \in Requests : (m \in Pending(s))' <=> m \in Pending(s)
    BY <1>1, <1>3 DEF Pending, Is
<1>5. Movers(m)' = Movers(m)
    BY <1>4 DEF Movers
<1> QED
    BY <1>1, <1>2, <1>5, NobodyMoves

(* Seen through the moves under way, each move shifts a node and all below *)
(* it by one amount, and nothing else moves a node, for any graph without  *)
(* a cycle and any number of moves of a node, its ancestors and its        *)
(* descendants at once.  The exceptions are a move that overwrites a       *)
(* position it has not seen, and one that fails between its two writes,    *)
(* which takes its amount, and nothing else, off those it has not reached. *)
THEOREM SubtreesMoveRigidly == RowsSpec => MovesAreRigid
<1>1. MovesInv /\ [RowsNext]_rowvars =>
          [\/ Shifted({}, 0)
           \/ \E r \in Requests :
                 /\ Is(r, "move", "write")
                 /\ \/ Shifted({node[r]} \cup Below(node[r]), delta[r])
                    \/ Overwrites(r, node[r])
           \/ \E r \in Requests :
                 op[r] = "move" /\ Throw(r) /\ Shifted(Pending(r), -delta[r])]_rowvars
    <2> SUFFICES ASSUME RowsInv, DeltasAreMoves, RowsNext
                 PROVE  \/ Shifted({}, 0)
                        \/ \E r \in Requests :
                              /\ Is(r, "move", "write")
                              /\ \/ Shifted({node[r]} \cup Below(node[r]), delta[r])
                                 \/ Overwrites(r, node[r])
                        \/ \E r \in Requests :
                              op[r] = "move" /\ Throw(r) /\ Shifted(Pending(r), -delta[r])
        BY DEF MovesInv
    <2>1. CASE \E n \in Nodes : Remove(n)
        BY <2>1, RemoveShiftsNothing
    <2>2. ASSUME NEW r \in Requests, RequestStep(r), NoMove(r)
          PROVE  Shifted({}, 0)
        <3>1. Pending(r) = {} /\ Pending(r)' = {}
            BY <2>2 DEF NoMove, Pending, Is
        <3> QED
            BY <2>2, <3>1, NothingMoves DEF NoMove, RequestStep
    <2>3. ASSUME NEW r \in Requests, RequestStep(r), NEW n \in Nodes, NEW to \in Targets,
                 BeginMove(r, n, to)
          PROVE  Shifted({}, 0)
        <3>1. op[r] = "none" /\ at'[r] = "write" /\ UNCHANGED position
            BY <2>3 DEF BeginMove, Begin, table, RowsInv, RowsTypeOK
        <3>2. Pending(r) = {} /\ Pending(r)' = {}
            BY <3>1 DEF Pending, Is
        <3> QED
            BY <2>3, <3>1, <3>2, NothingMoves DEF RequestStep
    <2>4. ASSUME NEW r \in Requests, RequestStep(r), WriteMove(r)
          PROVE  \/ Shifted({}, 0)
                 \/ /\ Is(r, "move", "write")
                    /\ \/ Shifted({node[r]} \cup Below(node[r]), delta[r])
                       \/ Overwrites(r, node[r])
        BY <2>4, WriteShifts DEF WriteMove
    <2>5. ASSUME NEW r \in Requests, RequestStep(r), op[r] = "move", ReadDescendants(r)
          PROVE  Shifted({}, 0)
        BY <2>5, DescendShiftsNothing
    <2>6. ASSUME NEW r \in Requests, RequestStep(r), Shift(r)
          PROVE  Shifted({}, 0)
        BY <2>6, ShiftWasSeen
    <2>8. ASSUME NEW r \in Requests, RequestStep(r), op[r] = "move", Throw(r)
          PROVE  Shifted({}, 0) \/ Shifted(Pending(r), -delta[r])
        BY <2>8, ThrowTears
    <2>7. ASSUME NEW r \in Requests, RequestStep(r)
          PROVE  \/ Shifted({}, 0)
                 \/ \E s \in Requests :
                       /\ Is(s, "move", "write")
                       /\ \/ Shifted({node[s]} \cup Below(node[s]), delta[s])
                          \/ Overwrites(s, node[s])
                 \/ \E s \in Requests :
                       op[s] = "move" /\ Throw(s) /\ Shifted(Pending(s), -delta[s])
        BY <2>2, <2>3, <2>4, <2>5, <2>6, <2>7, <2>8 DEF RequestStep
    <2> QED
        BY <2>1, <2>7, StepsAreRequests
<1> QED
    BY <1>1, MovesCorrect, PTL DEF RowsSpec, MovesAreRigid
=============================================================================
