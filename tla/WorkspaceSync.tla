--------------------------- MODULE WorkspaceSync ---------------------------
(***************************************************************************)
(* The cached workspace sync: getWorkspaceInfo answers with all nodes and  *)
(* edges of a workspace from the Redis key workspace:sync, and fills the   *)
(* key for ten minutes when it finds it missing.  Every request that       *)
(* changes a node or an edge deletes the key, each at its own place.       *)
(*                                                                         *)
(* A change is a request, a write <<c, i, t>> what step i of change c      *)
(* commits to table t, and an answer the set of the writes it shows.  A    *)
(* change may fail between any two of its steps; a saveToDb whose DEL is   *)
(* rejected goes on as if it had succeeded.  Time passes in ticks.         *)
(* A fill is at most MaxFill ticks under way between its first query and   *)
(* its SET, or fails: an assumption about the database.                    *)
(***************************************************************************)
EXTENDS Naturals, Sequences

CONSTANTS
    Changes,   \* bound: requests that change the workspace
    Readers,   \* getWorkspaceInfo requests served at once
    Ttl,       \* WORKSPACE_SYNC_TTL, in ticks
    MaxFill,
    Nil        \* the key is missing

ASSUME TtlIsPositive == Ttl \in Nat \ {0}
ASSUME MaxFillIsPositive == MaxFill \in Nat \ {0}

Tables == {"nodes", "edges"}

DEL == {"cache"}

(* What each request does, in order: commit to tables, or DEL the key.     *)

(* createProjectNode, createMarkdownNode.                                  *)
CreateScript == <<{"nodes"}, DEL>>

(* saveToDb; it does not hear of a DEL that failed.                        *)
SaveScript == <<{"nodes"}, DEL>>

(* updateNodePosition, updateNodeMeta: the descendants come last.          *)
UpdateScript == <<{"nodes"}, DEL, {"nodes"}>>

BugDelBeforeDrop == <<{"nodes"}, DEL, {"edges"}>>

(* deleteEdge, with propagateDepth as one step.                            *)
CutScript == <<{"nodes"}, {"edges"}, DEL>>

(* connectNodes and deleteNode: the DEL, then the COMMIT.                  *)
CommitScript == <<DEL, {"nodes", "edges"}>>

Script == [create |-> CreateScript, save |-> SaveScript, update |-> UpdateScript,
           cut |-> CutScript, commit |-> CommitScript]

Kinds == DOMAIN Script

Writes == Changes \X (1..3) \X Tables

ASSUME NilIsNoAnswer == \A S \in SUBSET Writes : Nil # S

(* Older than any entry may miss.                                          *)
Old == Ttl + MaxFill

VARIABLES
    rows,     \* the writes committed
    since,    \* their age, in ticks, up to Old
    cache,    \* the Redis key: Nil or an answer
    age,      \* its age, in ticks
    kind,     \* what a change is: "none" before it starts, "failed" after it failed
    step,     \* the step it takes next
    at,       \* where a reader is
    got,      \* the rows it has read
    filling,  \* how long ago it read the first of them, in ticks
    raced,    \* history: changes whose DEL met a fill under way
    lost      \* history: changes whose DEL was rejected and the rejection swallowed

changing == <<kind, step>>
reading == <<at, got, filling>>
svars == <<rows, since, cache, age, changing, reading, raced, lost>>

SyncTypeOK ==
    /\ rows \subseteq Writes
    /\ since \in [Writes -> 0..Old]
    /\ cache \in {Nil} \cup SUBSET Writes
    /\ age \in 0..(Ttl - 1)
    /\ kind \in [Changes -> Kinds \cup {"none", "failed"}]
    /\ step \in [Changes -> 1..4]
    /\ at \in [Readers -> {"idle", "nodes", "edges", "store"}]
    /\ got \in [Readers -> SUBSET Writes]
    /\ filling \in [Readers -> 0..MaxFill]
    /\ raced \subseteq Changes
    /\ lost \subseteq Changes

SyncInit ==
    /\ rows = {} /\ since = [w \in Writes |-> 0]
    /\ cache = Nil /\ age = 0
    /\ kind = [c \in Changes |-> "none"] /\ step = [c \in Changes |-> 1]
    /\ at = [r \in Readers |-> "idle"]
    /\ got = [r \in Readers |-> {}]
    /\ filling = [r \in Readers |-> 0]
    /\ raced = {} /\ lost = {}

-----------------------------------------------------------------------------
(* Changes.                                                                *)

Begin(c, k) ==
    /\ kind[c] = "none"
    /\ kind' = [kind EXCEPT ![c] = k]
    /\ UNCHANGED <<rows, since, cache, age, step, reading, raced, lost>>

Todo(c) == kind[c] \in Kinds /\ step[c] <= Len(Script[kind[c]])
Finished(c) == kind[c] \in Kinds /\ step[c] > Len(Script[kind[c]])

(* Readers that have read rows they have not stored yet.                   *)
Fills == {r \in Readers : at[r] \in {"edges", "store"}}

Commit(c) ==
    /\ Todo(c) /\ Script[kind[c]][step[c]] # DEL
    /\ LET W == {c} \X {step[c]} \X Script[kind[c]][step[c]]
       IN  /\ rows' = rows \cup W
           /\ since' = [w \in Writes |-> IF w \in W THEN 0 ELSE since[w]]
    /\ step' = [step EXCEPT ![c] = @ + 1]
    /\ UNCHANGED <<cache, age, kind, reading, raced, lost>>

DelKey(c) ==
    /\ Todo(c) /\ Script[kind[c]][step[c]] = DEL
    /\ cache' = Nil /\ age' = 0
    /\ raced' = IF Fills # {} THEN raced \cup {c} ELSE raced
    /\ step' = [step EXCEPT ![c] = @ + 1]
    /\ UNCHANGED <<rows, since, kind, reading, lost>>

(* saveToDb's .catch(() => {}): the key stays, and the save is done.       *)
DelLost(c) ==
    /\ Todo(c) /\ kind[c] = "save" /\ Script[kind[c]][step[c]] = DEL
    /\ lost' = lost \cup {c}
    /\ step' = [step EXCEPT ![c] = @ + 1]
    /\ UNCHANGED <<rows, since, cache, age, kind, reading, raced>>

(* A statement, the DEL or the process fails; an update without            *)
(* descendants ends like this too.                                         *)
Fail(c) ==
    /\ Todo(c)
    /\ kind' = [kind EXCEPT ![c] = "failed"]
    /\ UNCHANGED <<rows, since, cache, age, step, reading, raced, lost>>

-----------------------------------------------------------------------------
(* getWorkspaceInfo.                                                       *)

BugHitRenews == 0

(* GET leaves the lifetime of the key as it is.                            *)
HitAge == age

Hit(r) ==
    /\ at[r] = "idle" /\ cache # Nil
    /\ age' = HitAge
    /\ UNCHANGED <<rows, since, cache, changing, reading, raced, lost>>

Miss(r) ==
    /\ at[r] = "idle" /\ cache = Nil
    /\ at' = [at EXCEPT ![r] = "nodes"]
    /\ UNCHANGED <<rows, since, cache, age, changing, got, filling, raced, lost>>

In(t) == {w \in rows : w[3] = t}

SelectAllNode(r) ==
    /\ at[r] = "nodes"
    /\ at' = [at EXCEPT ![r] = "edges"]
    /\ got' = [got EXCEPT ![r] = In("nodes")]
    /\ filling' = [filling EXCEPT ![r] = 0]
    /\ UNCHANGED <<rows, since, cache, age, changing, raced, lost>>

SelectAllEdge(r) ==
    /\ at[r] = "edges"
    /\ at' = [at EXCEPT ![r] = "store"]
    /\ got' = [got EXCEPT ![r] = @ \cup In("edges")]
    /\ UNCHANGED <<rows, since, cache, age, changing, filling, raced, lost>>

Leave(r) ==
    /\ at' = [at EXCEPT ![r] = "idle"]
    /\ got' = [got EXCEPT ![r] = {}]
    /\ filling' = [filling EXCEPT ![r] = 0]

(* SET with EX, and the answer.                                            *)
Store(r) ==
    /\ at[r] = "store"
    /\ cache' = got[r] /\ age' = 0
    /\ Leave(r)
    /\ UNCHANGED <<rows, since, changing, raced, lost>>

(* A query fails, or the process dies.                                     *)
GiveUp(r) ==
    /\ at[r] # "idle"
    /\ Leave(r)
    /\ UNCHANGED <<rows, since, cache, age, changing, raced, lost>>

-----------------------------------------------------------------------------
BugNeverExpires == FALSE

Expires == cache # Nil /\ age + 1 = Ttl

Tick ==
    /\ \A r \in Fills : filling[r] < MaxFill
    /\ IF Expires THEN cache' = Nil /\ age' = 0
       ELSE cache' = cache /\ age' = IF cache = Nil THEN 0 ELSE age + 1
    /\ since' = [w \in Writes |->
                    IF w \in rows /\ since[w] < Old THEN since[w] + 1 ELSE since[w]]
    /\ filling' = [r \in Readers |-> IF r \in Fills THEN filling[r] + 1 ELSE 0]
    /\ UNCHANGED <<rows, changing, at, got, raced, lost>>

SyncNext ==
    \/ \E c \in Changes :
          \/ \E k \in Kinds : Begin(c, k)
          \/ Commit(c) \/ DelKey(c) \/ DelLost(c) \/ Fail(c)
    \/ \E r \in Readers :
          \/ Hit(r) \/ Miss(r) \/ SelectAllNode(r) \/ SelectAllEdge(r)
          \/ Store(r) \/ GiveUp(r)
    \/ Tick

SyncSpec == SyncInit /\ [][SyncNext]_svars

(* Queries and Redis answer, time passes.  Nobody has to change or read.   *)
SyncFairness ==
    /\ \A r \in Readers : WF_svars(SelectAllEdge(r)) /\ WF_svars(Store(r))
    /\ WF_svars(Tick)

SyncFairSpec == SyncSpec /\ SyncFairness

-----------------------------------------------------------------------------
(* A sync answered from the cache shows every write that is older than the *)
(* ten minutes of the key and the time a fill takes, wherever the changes  *)
(* put their DEL and whichever of their steps fail.                        *)
StaleAtMostTtl ==
    cache # Nil => \A w \in rows : since[w] >= Old => w \in cache

(* createProjectNode, createMarkdownNode, saveToDb and deleteEdge delete   *)
(* the key last: once one of them is done, the cache shows all it wrote,   *)
(* unless a fill was under way when it deleted the key, or it swallowed    *)
(* the rejection of its DEL, as saveToDb does.                             *)
DelIsLast(c) == kind[c] \in {"create", "save", "cut"}

FreshUnlessRaced ==
    cache # Nil =>
        \A w \in rows :
            Finished(w[1]) /\ DelIsLast(w[1]) /\ w[1] \notin raced \cup lost => w \in cache

(* Liveness: whatever races happen, every write is shown by the cache in   *)
(* the end, and stays shown.                                               *)
EventuallyFresh ==
    \A w \in Writes : w \in rows ~> [](cache # Nil => w \in cache)

=============================================================================
