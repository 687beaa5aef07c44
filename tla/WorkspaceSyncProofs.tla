------------------------ MODULE WorkspaceSyncProofs ------------------------
(***************************************************************************)
(* How stale the cached workspace sync may be, for any number of changes   *)
(* and readers, any lifetime of the key and any bound on a fill.           *)
(***************************************************************************)
EXTENDS WorkspaceSync, TLAPS

(* What the proofs use of the scripts.                                     *)
LEMMA ScriptSteps ==
    /\ {"create", "save", "cut"} \subseteq Kinds
    /\ "none" \notin Kinds /\ "failed" \notin Kinds
    /\ \A k \in Kinds : Len(Script[k]) \in 1..3
    /\ \A k \in Kinds : \A i \in 1..Len(Script[k]) :
          Script[k][i] = DEL \/ Script[k][i] \subseteq Tables
    /\ \A k \in {"create", "save", "cut"} : Script[k][Len(Script[k])] = DEL
<1> USE DEF CreateScript, SaveScript, UpdateScript, CutScript, CommitScript, DEL, Tables
<1>1. Kinds = {"create", "save", "update", "cut", "commit"}
  BY DEF Script, Kinds
<1>2. /\ Script["create"] = <<{"nodes"}, {"cache"}>>
      /\ Script["save"] = <<{"nodes"}, {"cache"}>>
      /\ Script["update"] = <<{"nodes"}, {"cache"}, {"nodes"}>>
      /\ Script["cut"] = <<{"nodes"}, {"edges"}, {"cache"}>>
      /\ Script["commit"] = <<{"cache"}, {"nodes", "edges"}>>
  BY DEF Script
<1>3. /\ Len(Script["create"]) = 2 /\ Len(Script["save"]) = 2
      /\ Len(Script["update"]) = 3 /\ Len(Script["cut"]) = 3 /\ Len(Script["commit"]) = 2
  <2>1. \A a, b : Len(<<a, b>>) = 2
    OBVIOUS
  <2>2. \A a, b, c : Len(<<a, b, c>>) = 3
    OBVIOUS
  <2> QED BY <1>2, <2>1, <2>2, Zenon
<1>4. \A k \in Kinds : Len(Script[k]) \in 1..3
  BY <1>1, <1>3
<1>5. ASSUME NEW k \in Kinds, NEW i \in 1..Len(Script[k])
      PROVE  Script[k][i] = DEL \/ Script[k][i] \subseteq Tables
  <2>1. CASE k = "create"
    BY <1>2, <1>3, <2>1
  <2>2. CASE k = "save"
    BY <1>2, <1>3, <2>2
  <2>3. CASE k = "update"
    BY <1>2, <1>3, <2>3
  <2>4. CASE k = "cut"
    BY <1>2, <1>3, <2>4
  <2>5. CASE k = "commit"
    <3>1. i = 1 \/ i = 2
      BY <1>3, <2>5
    <3>2. Script[k][1] = DEL /\ Script[k][2] = Tables
      BY <1>2, <2>5
    <3> QED BY <3>1, <3>2
  <2> QED BY <1>1, <2>1, <2>2, <2>3, <2>4, <2>5
<1>6. ASSUME NEW k \in {"create", "save", "cut"}
      PROVE  Script[k][Len(Script[k])] = DEL
  <2>1. Script["create"][2] = {"cache"} /\ Script["save"][2] = {"cache"}
    BY <1>2
  <2>2. \A x : \A a, b, c : x = <<a, b, c>> => x[3] = c
    OBVIOUS
  <2>3. Script["cut"][3] = {"cache"}
    BY <1>2, <2>2, Zenon
  <2> HIDE DEF Script
  <2>4. Len(Script["create"]) = 2 /\ Len(Script["save"]) = 2 /\ Len(Script["cut"]) = 3
    BY <1>3, Zenon
  <2>5. CASE k = "create"
    BY <2>1, <2>4, <2>5 DEF DEL
  <2>6. CASE k = "save"
    BY <2>1, <2>4, <2>6 DEF DEL
  <2>7. CASE k = "cut"
    BY <2>3, <2>4, <2>7 DEF DEL
  <2> QED BY <2>5, <2>6, <2>7
<1> QED BY <1>1, <1>4, <1>5, <1>6

(* The next step of a change is one of the three at most of its script.    *)
LEMMA StepExists ==
    ASSUME SyncTypeOK, NEW c \in Changes, Todo(c)
    PROVE  kind[c] \in Kinds /\ step[c] \in 1..Len(Script[kind[c]]) /\ step[c] \in 1..3
<1>1. kind[c] \in Kinds /\ step[c] \in 1..4 /\ step[c] <= Len(Script[kind[c]])
  BY DEF SyncTypeOK, Todo
<1>2. Len(Script[kind[c]]) \in 1..3
  BY <1>1, ScriptSteps
<1>3. \A n \in 1..3 : \A i \in 1..4 : i <= n => i \in 1..n /\ i \in 1..3
  OBVIOUS
<1> QED BY <1>1, <1>2, <1>3, Zenon

(* A step that is not the DEL writes rows of its own change.               *)
LEMMA StepWrites ==
    ASSUME SyncTypeOK, NEW c \in Changes, Todo(c), Script[kind[c]][step[c]] # DEL
    PROVE  {c} \X {step[c]} \X Script[kind[c]][step[c]] \subseteq Writes
<1>1. kind[c] \in Kinds /\ step[c] \in 1..Len(Script[kind[c]]) /\ step[c] \in 1..3
  BY StepExists
<1>2. Script[kind[c]][step[c]] \subseteq Tables
  BY <1>1, ScriptSteps
<1> QED BY <1>1, <1>2 DEF Writes

(* The state of the sync is well typed: above all, a key never outlives    *)
(* its ten minutes.                                                        *)
THEOREM SyncTypes == SyncSpec => []SyncTypeOK
<1>1. SyncInit => SyncTypeOK
  BY TtlIsPositive, MaxFillIsPositive DEF SyncInit, SyncTypeOK, Old
<1>2. SyncTypeOK /\ [SyncNext]_svars => SyncTypeOK'
  <2> SUFFICES ASSUME SyncTypeOK, [SyncNext]_svars
               PROVE  SyncTypeOK'
    OBVIOUS
  <2> USE TtlIsPositive, MaxFillIsPositive
  <2>1. ASSUME NEW c \in Changes, NEW k \in Kinds, Begin(c, k) PROVE SyncTypeOK'
    BY <2>1 DEF Begin, SyncTypeOK, reading
  <2>2. ASSUME NEW c \in Changes, Commit(c) PROVE SyncTypeOK'
    <3>1. step[c] \in 1..3
      BY <2>2, StepExists DEF Commit
    <3>2. rows' \subseteq Writes
      BY <2>2, StepWrites DEF Commit, SyncTypeOK
    <3>3. since' \in [Writes -> 0..Old]
      BY <2>2 DEF Commit, SyncTypeOK, Old
    <3>4. step' \in [Changes -> 1..4]
      BY <2>2, <3>1 DEF Commit, SyncTypeOK
    <3> QED BY <2>2, <3>2, <3>3, <3>4 DEF Commit, SyncTypeOK, reading
  <2>3. ASSUME NEW c \in Changes, DelKey(c) PROVE SyncTypeOK'
    <3>1. step[c] \in 1..3
      BY <2>3, StepExists DEF DelKey
    <3> QED BY <2>3, <3>1 DEF DelKey, SyncTypeOK, reading
  <2>13. ASSUME NEW c \in Changes, DelLost(c) PROVE SyncTypeOK'
    <3>1. step[c] \in 1..3
      BY <2>13, StepExists DEF DelLost
    <3> QED BY <2>13, <3>1 DEF DelLost, SyncTypeOK, reading
  <2>4. ASSUME NEW c \in Changes, Fail(c) PROVE SyncTypeOK'
    BY <2>4 DEF Fail, SyncTypeOK, reading
  <2>5. ASSUME NEW r \in Readers, Hit(r) PROVE SyncTypeOK'
    BY <2>5 DEF Hit, HitAge, SyncTypeOK, reading, changing
  <2>6. ASSUME NEW r \in Readers, Miss(r) PROVE SyncTypeOK'
    BY <2>6 DEF Miss, SyncTypeOK, changing
  <2>7. ASSUME NEW r \in Readers, SelectAllNode(r) PROVE SyncTypeOK'
    BY <2>7 DEF SelectAllNode, In, SyncTypeOK, changing
  <2>8. ASSUME NEW r \in Readers, SelectAllEdge(r) PROVE SyncTypeOK'
    BY <2>8 DEF SelectAllEdge, In, SyncTypeOK, changing
  <2>9. ASSUME NEW r \in Readers, Store(r) PROVE SyncTypeOK'
    BY <2>9 DEF Store, Leave, SyncTypeOK, changing
  <2>10. ASSUME NEW r \in Readers, GiveUp(r) PROVE SyncTypeOK'
    BY <2>10 DEF GiveUp, Leave, SyncTypeOK, changing
  <2>11. CASE Tick
    <3>1. since' \in [Writes -> 0..Old]
      BY <2>11 DEF Tick, SyncTypeOK, Old
    <3>2. filling' \in [Readers -> 0..MaxFill]
      BY <2>11 DEF Tick, SyncTypeOK
    <3>3. age' \in 0..(Ttl - 1) /\ cache' \in {Nil} \cup SUBSET Writes
      BY <2>11 DEF Tick, Expires, SyncTypeOK
    <3> QED BY <2>11, <3>1, <3>2, <3>3 DEF Tick, SyncTypeOK, changing
  <2>12. CASE UNCHANGED svars
    BY <2>12 DEF svars, changing, reading, SyncTypeOK
  <2> QED BY <2>1, <2>2, <2>3, <2>4, <2>5, <2>6, <2>7, <2>8, <2>9, <2>10, <2>11, <2>12,
            <2>13 DEF SyncNext
<1> QED BY <1>1, <1>2, PTL DEF SyncSpec

-----------------------------------------------------------------------------
(* What an entry or a fill misses was committed after the fill's first     *)
(* query: it is no older than the fill, or the fill and the entry.         *)
FillMisses(r) ==
    \A w \in rows \ got[r] : w[3] = "nodes" \/ at[r] = "store" => since[w] <= filling[r]

StaleInv ==
    /\ cache # Nil => \A w \in rows \ cache : since[w] <= MaxFill + age
    /\ \A r \in Fills : FillMisses(r)

(* The entry shows every write older than the lifetime of the key and the  *)
(* time of a fill, whatever getWorkspaceInfo and the DELs of the changes   *)
(* do to each other.                                                       *)
THEOREM StalenessIsBounded == SyncSpec => []StaleAtMostTtl
<1> USE TtlIsPositive, MaxFillIsPositive
<1>1. SyncInit => StaleInv
  BY DEF SyncInit, StaleInv, Fills
<1>2. SyncTypeOK /\ StaleInv /\ [SyncNext]_svars => StaleInv'
  <2> SUFFICES ASSUME SyncTypeOK, StaleInv, [SyncNext]_svars
               PROVE  StaleInv'
    OBVIOUS
  <2>1. ASSUME NEW c \in Changes, NEW k \in Kinds, Begin(c, k) PROVE StaleInv'
    BY <2>1 DEF Begin, StaleInv, FillMisses, Fills, reading
  <2>2. ASSUME NEW c \in Changes, Commit(c) PROVE StaleInv'
    <3> DEFINE W == {c} \X {step[c]} \X Script[kind[c]][step[c]]
    <3>1. rows' = rows \cup W /\ W \subseteq Writes
      BY <2>2, StepWrites DEF Commit
    <3>2. \A w \in W : since'[w] = 0
      BY <2>2, <3>1 DEF Commit
    <3>3. \A w \in rows \ W : since'[w] = since[w]
      BY <2>2 DEF Commit, SyncTypeOK
    <3>4. UNCHANGED <<cache, age, at, got, filling>>
      BY <2>2 DEF Commit, reading
    <3> HIDE DEF W
    <3>5. \A n \in Nat : 0 <= n
      OBVIOUS
    <3>6. age \in Nat /\ MaxFill + age \in Nat /\ \A r \in Readers : filling[r] \in Nat
      BY DEF SyncTypeOK
    <3>7. cache' # Nil => \A w \in rows' \ cache' : since'[w] <= MaxFill + age'
      BY <3>1, <3>2, <3>3, <3>4, <3>5, <3>6 DEF StaleInv
    <3>8. ASSUME NEW r \in Fills' PROVE FillMisses(r)'
      BY <3>8, <3>1, <3>2, <3>3, <3>4, <3>5, <3>6 DEF StaleInv, FillMisses, Fills
    <3> QED BY <3>7, <3>8 DEF StaleInv
  <2>3. ASSUME NEW c \in Changes, DelKey(c) PROVE StaleInv'
    BY <2>3 DEF DelKey, StaleInv, FillMisses, Fills, reading
  <2>13. ASSUME NEW c \in Changes, DelLost(c) PROVE StaleInv'
    BY <2>13 DEF DelLost, StaleInv, FillMisses, Fills, reading
  <2>4. ASSUME NEW c \in Changes, Fail(c) PROVE StaleInv'
    BY <2>4 DEF Fail, StaleInv, FillMisses, Fills, reading
  <2>5. ASSUME NEW r \in Readers, Hit(r) PROVE StaleInv'
    BY <2>5 DEF Hit, HitAge, StaleInv, FillMisses, Fills, reading
  <2>6. ASSUME NEW r \in Readers, Miss(r) PROVE StaleInv'
    BY <2>6 DEF Miss, StaleInv, FillMisses, Fills, SyncTypeOK
  <2>7. ASSUME NEW r \in Readers, SelectAllNode(r) PROVE StaleInv'
    <3>1. FillMisses(r)'
      BY <2>7 DEF SelectAllNode, In, FillMisses, SyncTypeOK
    <3>2. ASSUME NEW q \in Fills', q # r PROVE FillMisses(q)'
      BY <2>7, <3>2 DEF SelectAllNode, StaleInv, FillMisses, Fills, SyncTypeOK
    <3> QED BY <2>7, <3>1, <3>2 DEF SelectAllNode, StaleInv
  <2>8. ASSUME NEW r \in Readers, SelectAllEdge(r) PROVE StaleInv'
    <3>1. FillMisses(r)'
      <4> SUFFICES ASSUME NEW w \in rows, w \notin got'[r]
                   PROVE  since[w] <= filling[r]
        BY <2>8 DEF SelectAllEdge, FillMisses
      <4>1. w \notin got[r] /\ w \notin In("edges")
        BY <2>8 DEF SelectAllEdge, SyncTypeOK
      <4>2. w[3] \in Tables
        BY DEF SyncTypeOK, Writes
      <4>3. w[3] = "nodes"
        BY <4>1, <4>2 DEF In, Tables
      <4>4. r \in Fills
        BY <2>8 DEF SelectAllEdge, Fills
      <4> QED BY <4>1, <4>3, <4>4 DEF StaleInv, FillMisses
    <3>2. ASSUME NEW q \in Fills', q # r PROVE FillMisses(q)'
      BY <2>8, <3>2 DEF SelectAllEdge, StaleInv, FillMisses, Fills, SyncTypeOK
    <3> QED BY <2>8, <3>1, <3>2 DEF SelectAllEdge, StaleInv
  <2>9. ASSUME NEW r \in Readers, Store(r) PROVE StaleInv'
    <3>1. \A w \in rows \ got[r] : since[w] <= filling[r]
      BY <2>9 DEF Store, StaleInv, FillMisses, Fills
    <3>2. \A w \in rows : since[w] \in Nat
      BY DEF SyncTypeOK, Old
    <3>3. filling[r] \in 0..MaxFill
      BY DEF SyncTypeOK
    <3>4. \A w \in rows' \ cache' : since'[w] <= MaxFill + age'
      BY <2>9, <3>1, <3>2, <3>3 DEF Store
    <3>5. ASSUME NEW q \in Fills' PROVE FillMisses(q)'
      <4>1. q # r /\ q \in Fills
        BY <2>9, <3>5 DEF Store, Leave, Fills, SyncTypeOK
      <4> QED BY <2>9, <4>1 DEF Store, Leave, StaleInv, FillMisses, Fills, SyncTypeOK
    <3> QED BY <3>4, <3>5 DEF StaleInv
  <2>10. ASSUME NEW r \in Readers, GiveUp(r) PROVE StaleInv'
    <3>1. ASSUME NEW q \in Fills' PROVE q # r /\ q \in Fills
      BY <2>10, <3>1 DEF GiveUp, Leave, Fills, SyncTypeOK
    <3> QED BY <2>10, <3>1 DEF GiveUp, Leave, StaleInv, FillMisses, Fills, SyncTypeOK
  <2>11. CASE Tick
    <3>1. rows' = rows /\ at' = at /\ got' = got
      BY <2>11 DEF Tick
    <3>2. \A w \in rows : since[w] \in Nat /\ since'[w] \in Nat /\ since'[w] <= since[w] + 1
      BY <2>11 DEF Tick, SyncTypeOK, Old
    <3>3. cache' # Nil => cache' = cache /\ age' = age + 1
      BY <2>11 DEF Tick
    <3>4. cache' # Nil => \A w \in rows' \ cache' : since'[w] <= MaxFill + age'
      BY <3>1, <3>2, <3>3 DEF StaleInv, SyncTypeOK
    <3>5. ASSUME NEW r \in Fills' PROVE FillMisses(r)'
      <4>1. r \in Fills /\ r \in Readers
        BY <3>1, <3>5 DEF Fills
      <4>2. filling'[r] = filling[r] + 1 /\ filling[r] \in Nat
        BY <2>11, <4>1 DEF Tick, SyncTypeOK
      <4>3. FillMisses(r)
        BY <4>1 DEF StaleInv
      <4> QED BY <3>1, <3>2, <4>2, <4>3 DEF FillMisses
    <3> QED BY <3>4, <3>5 DEF StaleInv
  <2>12. CASE UNCHANGED svars
    BY <2>12 DEF svars, changing, reading, StaleInv, FillMisses, Fills
  <2> QED BY <2>1, <2>2, <2>3, <2>4, <2>5, <2>6, <2>7, <2>8, <2>9, <2>10, <2>11, <2>12,
            <2>13 DEF SyncNext
<1>3. SyncTypeOK /\ StaleInv => StaleAtMostTtl
  BY DEF SyncTypeOK, StaleInv, StaleAtMostTtl, Old
<1> QED BY <1>1, <1>2, <1>3, SyncTypes, PTL DEF SyncSpec

-----------------------------------------------------------------------------
(* What a change wrote whose DEL, the last of its steps, was carried out   *)
(* and met no fill.                                                        *)
Settled(w) == Finished(w[1]) /\ DelIsLast(w[1]) /\ w[1] \notin raced \cup lost

FillShows(r) ==
    \A w \in rows : Settled(w) /\ (w[3] = "nodes" \/ at[r] = "store") => w \in got[r]

(* A change that has not started has all of its steps before it; a fill    *)
(* under way shows what was settled when it read.                          *)
FreshInv ==
    /\ \A c \in Changes : kind[c] = "none" => step[c] = 1
    /\ FreshUnlessRaced
    /\ \A r \in Fills : FillShows(r)

(* A step that settles no change and leaves the entry and the fills alone  *)
(* makes neither miss anything settled.                                    *)
LEMMA NothingSettledIsNothingMissed ==
    ASSUME FreshInv, \A w \in rows' : Settled(w)' => w \in rows /\ Settled(w),
           cache' = cache, at' = at, got' = got
    PROVE  FreshUnlessRaced' /\ \A r \in Fills' : FillShows(r)'
BY DEF FreshInv, FreshUnlessRaced, Settled, Fills, FillShows

(* Only the step that is the DEL finishes a change whose DEL is last.      *)
LEMMA CommitsDoNotFinish ==
    ASSUME SyncTypeOK, NEW c \in Changes, Commit(c), DelIsLast(c)
    PROVE  ~Finished(c)'
<1> DEFINE n == Len(Script[kind[c]])
<1>1. kind[c] \in {"create", "save", "cut"} /\ kind' = kind /\ step'[c] = step[c] + 1
  BY DEF Commit, DelIsLast, SyncTypeOK
<1>2. step[c] \in 1..n /\ n \in 1..3 /\ Script[kind[c]][n] = DEL
  BY <1>1, StepExists, ScriptSteps DEF Commit
<1>3. step[c] # n
  BY <1>2 DEF Commit
<1>4. ~(step'[c] > n)
  <2> HIDE DEF n
  <2> QED BY <1>1, <1>2, <1>3
<1> QED BY <1>1, <1>4 DEF Finished

(* An entry lacks nothing of a finished createProjectNode,                 *)
(* createMarkdownNode, saveToDb or deleteEdge unless a getWorkspaceInfo    *)
(* was between its queries and its SET when the key was deleted, or the    *)
(* DEL of a saveToDb was rejected and nobody heard of it.                  *)
THEOREM OnlyRacesHideChanges == SyncSpec => []FreshUnlessRaced
<1>1. SyncInit => FreshInv
  BY DEF SyncInit, FreshInv, FreshUnlessRaced, Fills
<1>2. SyncTypeOK /\ FreshInv /\ [SyncNext]_svars => FreshInv'
  <2> SUFFICES ASSUME SyncTypeOK, FreshInv, [SyncNext]_svars
               PROVE  FreshInv'
    OBVIOUS
  <2>1. ASSUME NEW c \in Changes, NEW k \in Kinds, Begin(c, k) PROVE FreshInv'
    <3>1. k # "none"
      BY ScriptSteps
    <3>2. kind' = [kind EXCEPT ![c] = k] /\ step' = step /\ step[c] = 1
      BY <2>1 DEF Begin, FreshInv
    <3>3. ~Finished(c)'
      <4>1. kind'[c] = k /\ step'[c] = 1
        BY <3>2 DEF SyncTypeOK
      <4>2. \A n \in 1..3 : ~(1 > n)
        OBVIOUS
      <4> QED BY <4>1, <4>2, ScriptSteps, Zenon DEF Finished
    <3>4. \A w \in rows' : Settled(w)' => w \in rows /\ Settled(w)
      BY <2>1, <3>2, <3>3 DEF Begin, Settled, Finished, DelIsLast, SyncTypeOK
    <3>5. \A d \in Changes : kind'[d] = "none" => step'[d] = 1
      BY <3>1, <3>2 DEF FreshInv, SyncTypeOK
    <3> QED BY <2>1, <3>4, <3>5, NothingSettledIsNothingMissed DEF Begin, reading, FreshInv
  <2>2. ASSUME NEW c \in Changes, Commit(c) PROVE FreshInv'
    <3>1. \A w \in rows' : w \in rows \/ w[1] = c
      BY <2>2 DEF Commit
    <3>2. kind' = kind /\ raced' = raced /\ lost' = lost /\ step' = [step EXCEPT ![c] = @ + 1]
      BY <2>2 DEF Commit
    <3>3. \A w \in rows' : Settled(w)' => w[1] # c
      BY <2>2, <3>2, CommitsDoNotFinish DEF Settled, DelIsLast
    <3>4. \A w \in rows' : Settled(w)' => w \in rows /\ Settled(w)
      BY <3>1, <3>2, <3>3 DEF Settled, Finished, DelIsLast, SyncTypeOK
    <3>5. \A d \in Changes : kind'[d] = "none" => step'[d] = 1
      BY <2>2, <3>2, ScriptSteps DEF Commit, Todo, FreshInv, SyncTypeOK
    <3> QED BY <2>2, <3>4, <3>5, NothingSettledIsNothingMissed DEF Commit, reading, FreshInv
  <2>3. ASSUME NEW c \in Changes, DelKey(c) PROVE FreshInv'
    <3>1. cache' = Nil /\ UNCHANGED <<rows, kind, at, got, lost>>
      BY <2>3 DEF DelKey, reading
    <3>2. step' = [step EXCEPT ![c] = @ + 1]
      BY <2>3 DEF DelKey
    <3>3. \A d \in Changes : kind'[d] = "none" => step'[d] = 1
      BY <2>3, <3>1, <3>2, ScriptSteps DEF DelKey, Todo, FreshInv, SyncTypeOK
    <3>4. ASSUME NEW r \in Fills' PROVE FillShows(r)'
      <4>1. r \in Fills /\ c \in raced' /\ raced \subseteq raced'
        BY <2>3, <3>1, <3>4 DEF DelKey, Fills
      <4>2. \A w \in rows' : Settled(w)' => w \in rows /\ Settled(w)
        BY <3>1, <3>2, <4>1 DEF Settled, Finished, DelIsLast, SyncTypeOK
      <4> QED BY <3>1, <4>1, <4>2 DEF FreshInv, FillShows
    <3> QED BY <3>1, <3>3, <3>4 DEF FreshInv, FreshUnlessRaced
  <2>14. ASSUME NEW c \in Changes, DelLost(c) PROVE FreshInv'
    <3>1. c \in lost' /\ lost \subseteq lost'
      BY <2>14 DEF DelLost
    <3>2. step' = [step EXCEPT ![c] = @ + 1] /\ UNCHANGED <<rows, kind, cache, at, got, raced>>
      BY <2>14 DEF DelLost, reading
    <3>3. \A w \in rows' : Settled(w)' => w \in rows /\ Settled(w)
      BY <3>1, <3>2 DEF Settled, Finished, DelIsLast, SyncTypeOK
    <3>4. \A d \in Changes : kind'[d] = "none" => step'[d] = 1
      BY <2>14, <3>2, ScriptSteps DEF DelLost, Todo, FreshInv, SyncTypeOK
    <3> QED BY <3>2, <3>3, <3>4, NothingSettledIsNothingMissed DEF FreshInv
  <2>4. ASSUME NEW c \in Changes, Fail(c) PROVE FreshInv'
    <3>1. kind' = [kind EXCEPT ![c] = "failed"] /\ UNCHANGED <<rows, step, cache, at, got, raced, lost>>
      BY <2>4 DEF Fail, reading
    <3>2. \A w \in rows' : Settled(w)' => w \in rows /\ Settled(w)
      BY <3>1, ScriptSteps DEF Settled, Finished, DelIsLast, SyncTypeOK
    <3>3. \A d \in Changes : kind'[d] = "none" => step'[d] = 1
      BY <3>1 DEF FreshInv, SyncTypeOK
    <3> QED BY <3>1, <3>2, <3>3, NothingSettledIsNothingMissed DEF FreshInv
  <2> DEFINE Rests == UNCHANGED <<rows, kind, step, raced, lost>>
  <2>5. ASSUME Rests PROVE /\ \A d \in Changes : kind'[d] = "none" => step'[d] = 1
                           /\ \A w \in rows' : Settled(w)' => w \in rows /\ Settled(w)
    BY <2>5 DEF FreshInv, Settled, Finished, DelIsLast
  <2>6. ASSUME NEW r \in Readers, Hit(r) PROVE FreshInv'
    BY <2>6, <2>5, NothingSettledIsNothingMissed DEF Hit, changing, reading, FreshInv
  <2>7. ASSUME NEW r \in Readers, Miss(r) PROVE FreshInv'
    <3>1. Rests /\ cache' = cache /\ got' = got /\ Fills' = Fills
      BY <2>7 DEF Miss, changing, Fills, SyncTypeOK
    <3>2. \A q \in Fills : at'[q] = at[q]
      BY <2>7 DEF Miss, Fills, SyncTypeOK
    <3> QED BY <2>5, <3>1, <3>2 DEF FreshInv, FreshUnlessRaced, Settled, FillShows
  <2>8. ASSUME NEW r \in Readers, SelectAllNode(r) PROVE FreshInv'
    <3>1. Rests /\ cache' = cache
      BY <2>8 DEF SelectAllNode, changing
    <3>2. FillShows(r)'
      BY <2>8 DEF SelectAllNode, In, FillShows, SyncTypeOK
    <3>3. ASSUME NEW q \in Fills', q # r PROVE FillShows(q)'
      <4>1. q \in Fills /\ at'[q] = at[q] /\ got'[q] = got[q]
        BY <2>8, <3>3 DEF SelectAllNode, Fills, SyncTypeOK
      <4> QED BY <2>5, <3>1, <4>1 DEF FreshInv, FillShows
    <3> QED BY <2>5, <3>1, <3>2, <3>3 DEF FreshInv, FreshUnlessRaced, Settled
  <2>9. ASSUME NEW r \in Readers, SelectAllEdge(r) PROVE FreshInv'
    <3>1. Rests /\ cache' = cache
      BY <2>9 DEF SelectAllEdge, changing
    <3>2. FillShows(r)'
      <4> SUFFICES ASSUME NEW w \in rows', Settled(w)'
                   PROVE  w \in got'[r]
        BY DEF FillShows
      <4>1. w \in rows /\ Settled(w) /\ (w[3] = "nodes" \/ w[3] = "edges")
        BY <2>5, <3>1 DEF SyncTypeOK, Writes, Tables
      <4>2. r \in Fills /\ got'[r] = got[r] \cup In("edges")
        BY <2>9 DEF SelectAllEdge, Fills, SyncTypeOK
      <4> QED BY <4>1, <4>2 DEF FreshInv, FillShows, In
    <3>3. ASSUME NEW q \in Fills', q # r PROVE FillShows(q)'
      <4>1. q \in Fills /\ at'[q] = at[q] /\ got'[q] = got[q]
        BY <2>9, <3>3 DEF SelectAllEdge, Fills, SyncTypeOK
      <4> QED BY <2>5, <3>1, <4>1 DEF FreshInv, FillShows
    <3> QED BY <2>5, <3>1, <3>2, <3>3 DEF FreshInv, FreshUnlessRaced, Settled
  <2>10. ASSUME NEW r \in Readers, Store(r) PROVE FreshInv'
    <3>1. Rests /\ cache' = got[r] /\ at[r] = "store"
      BY <2>10 DEF Store, changing
    <3>2. FillShows(r)
      BY <3>1 DEF FreshInv, Fills
    <3>3. FreshUnlessRaced'
      BY <2>5, <3>1, <3>2 DEF FreshUnlessRaced, Settled, FillShows
    <3>4. ASSUME NEW q \in Fills' PROVE FillShows(q)'
      <4>1. q \in Fills /\ at'[q] = at[q] /\ got'[q] = got[q]
        BY <2>10, <3>4 DEF Store, Leave, Fills, SyncTypeOK
      <4> QED BY <2>5, <3>1, <4>1 DEF FreshInv, FillShows
    <3> QED BY <2>5, <3>1, <3>3, <3>4 DEF FreshInv
  <2>11. ASSUME NEW r \in Readers, GiveUp(r) PROVE FreshInv'
    <3>1. Rests /\ cache' = cache
      BY <2>11 DEF GiveUp, changing
    <3>2. ASSUME NEW q \in Fills' PROVE FillShows(q)'
      <4>1. q \in Fills /\ at'[q] = at[q] /\ got'[q] = got[q]
        BY <2>11, <3>2 DEF GiveUp, Leave, Fills, SyncTypeOK
      <4> QED BY <2>5, <3>1, <4>1 DEF FreshInv, FillShows
    <3> QED BY <2>5, <3>1, <3>2 DEF FreshInv, FreshUnlessRaced, Settled
  <2>12. CASE Tick
    <3>1. Rests /\ at' = at /\ got' = got /\ (cache' = Nil \/ cache' = cache)
      BY <2>12 DEF Tick, changing
    <3>2. \A r \in Fills' : FillShows(r)'
      BY <2>5, <3>1 DEF FreshInv, FillShows, Fills
    <3> QED BY <2>5, <3>1, <3>2 DEF FreshInv, FreshUnlessRaced, Settled
  <2>13. CASE UNCHANGED svars
    BY <2>5, <2>13, NothingSettledIsNothingMissed DEF svars, changing, reading, FreshInv
  <2> QED BY <2>1, <2>2, <2>3, <2>4, <2>6, <2>7, <2>8, <2>9, <2>10, <2>11, <2>12, <2>13,
            <2>14 DEF SyncNext
<1>3. FreshInv => FreshUnlessRaced
  BY DEF FreshInv
<1> QED BY <1>1, <1>2, <1>3, SyncTypes, PTL DEF SyncSpec

=============================================================================
