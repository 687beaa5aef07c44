--------------------------- MODULE ReplicasProofs ---------------------------
(***************************************************************************)
(* What the synchronisation of the replicas of a document keeps, for every *)
(* number of clients and of updates.                                       *)
(*                                                                         *)
(* A client in step says nothing of how it came to be so: the argument     *)
(* follows what is on its way.  As long as the server's greeting is on its *)
(* way down, the client will send what the server lacks; from then on what *)
(* the client has the server has too, or it is on its way up (NothingOwed).*)
(* As long as the greeting, or the client's own question in answer to it,  *)
(* is on its way, the server will send what the client lacks; from then on *)
(* what the server has the client has too, or it is on its way down, or    *)
(* it was merged quietly (NothingDue).                                     *)
(***************************************************************************)
EXTENDS Replicas, TLAPS

(* What a message brings, what the messages of a queue bring, what they    *)
(* mention at all, and whether one of them asks for an answer.             *)
Brings(m) == {u \in m.items : m.type # "step1"}
Carried(q) ==
    {u \in Updates : \E i \in DOMAIN q : q[i].type # "step1" /\ u \in q[i].items}
Mentioned(q) == {u \in Updates : \E i \in DOMAIN q : u \in q[i].items}
Asks(q) == \E i \in DOMAIN q : q[i].type = "step1"

QueuesOK ==
    /\ up \in [Clients -> Seq(Message)]
    /\ down \in [Clients -> Seq(Message)]

(* Nobody talks with a client whose join has not been served.              *)
SilentBeforeJoin == \A c \in Clients \ joined : down[c] = <<>> /\ ~Asks(up[c])

(* Neither side mentions what it does not have.                            *)
ClientsAreHonest == \A c \in Clients : Mentioned(up[c]) \subseteq replica[c]
ServerIsHonest == \A c \in joined : Mentioned(down[c]) \subseteq server

NothingOwed ==
    \A c \in joined :
        \/ Asks(down[c])
        \/ replica[c] \subseteq server \cup Carried(up[c])

NothingDue ==
    \A c \in joined :
        \/ Asks(down[c]) \/ Asks(up[c])
        \/ server \ replica[c] \subseteq quiet \cup Carried(down[c])

ReplicasInv ==
    /\ ReplicasTypeOK
    /\ QueuesOK
    /\ SilentBeforeJoin
    /\ ClientsAreHonest
    /\ ServerIsHonest
    /\ NothingOwed
    /\ NothingDue

-----------------------------------------------------------------------------
(* Queues.                                                                 *)

(* What a message put at the end of a queue adds.                          *)
LEMMA QueueAppend ==
    ASSUME NEW q \in Seq(Message), NEW m \in Message
    PROVE  /\ Append(q, m) \in Seq(Message)
           /\ Carried(Append(q, m))
                = Carried(q) \cup Brings(m)
           /\ Mentioned(Append(q, m)) = Mentioned(q) \cup m.items
           /\ Asks(Append(q, m)) <=> Asks(q) \/ m.type = "step1"
<1> DEFINE r == Append(q, m)
<1>1. /\ r \in Seq(Message) /\ DOMAIN q = 1 .. Len(q) /\ DOMAIN r = 1 .. (Len(q) + 1)
      /\ Len(q) \in Nat /\ r[Len(q) + 1] = m
      /\ \A i \in DOMAIN q : i \in DOMAIN r /\ r[i] = q[i] /\ i # Len(q) + 1
      /\ \A i \in DOMAIN r : i \in DOMAIN q \/ i = Len(q) + 1
      /\ Len(q) + 1 \in DOMAIN r
    OBVIOUS
<1>2. m.items \subseteq Updates
    BY DEF Message
<1> HIDE DEF r
<1>3. Carried(r) = Carried(q) \cup Brings(m)
    BY <1>1, <1>2 DEF Carried, Brings
<1>4. Mentioned(r) = Mentioned(q) \cup m.items
    BY <1>1, <1>2 DEF Mentioned
<1>5. Asks(r) <=> Asks(q) \/ m.type = "step1"
    BY <1>1 DEF Asks
<1> QED BY <1>1, <1>3, <1>4, <1>5 DEF r

(* What a queue loses with its oldest message.                             *)
LEMMA QueueRead ==
    ASSUME NEW q \in Seq(Message), q # <<>>
    PROVE  /\ Head(q) \in Message /\ Tail(q) \in Seq(Message)
           /\ Carried(q)
                = Carried(Tail(q)) \cup Brings(Head(q))
           /\ Mentioned(q) = Mentioned(Tail(q)) \cup Head(q).items
           /\ Asks(q) <=> Asks(Tail(q)) \/ Head(q).type = "step1"
<1> DEFINE r == Tail(q)
           m == Head(q)
<1>1. /\ r \in Seq(Message) /\ m \in Message /\ m = q[1] /\ 1 \in DOMAIN q
      /\ \A i \in DOMAIN r : i + 1 \in DOMAIN q /\ r[i] = q[i + 1]
      /\ \A i \in DOMAIN q : i = 1 \/ (i - 1 \in DOMAIN r /\ r[i - 1] = q[i])
    OBVIOUS
<1>2. m.items \subseteq Updates
    BY <1>1 DEF Message
<1> HIDE DEF r, m
<1>3. Carried(q) = Carried(r) \cup Brings(m)
    BY <1>1, <1>2 DEF Carried, Brings
<1>4. Mentioned(q) = Mentioned(r) \cup m.items
    BY <1>1, <1>2 DEF Mentioned
<1>5. Asks(q) <=> Asks(r) \/ m.type = "step1"
    BY <1>1 DEF Asks
<1> QED BY <1>1, <1>3, <1>4, <1>5 DEF r, m

(* An empty queue brings, mentions and asks nothing.                       *)
LEMMA QueueEmpty ==
    /\ <<>> \in Seq(Message) /\ Carried(<<>>) = {} /\ Mentioned(<<>>) = {} /\ ~Asks(<<>>)
BY DEF Carried, Mentioned, Asks

(* Two messages put after a queue are two appended to it.                  *)
LEMMA QueueOfTwo ==
    ASSUME NEW q \in Seq(Message), NEW m \in Message, NEW n \in Message
    PROVE  q \o <<m, n>> = Append(Append(q, m), n)
OBVIOUS

(* Queues of messages are what the type invariant says of them.            *)
LEMMA QueuesAreTyped ==
    ASSUME QueuesOK
    PROVE  \A c \in Clients : \A q \in {up[c], down[c]} : \A i \in DOMAIN q : q[i] \in Message
BY DEF QueuesOK

-----------------------------------------------------------------------------
(* The inductive invariant, one action at a time.                          *)

LEMMA ReplicasInitOK == ReplicasInit => ReplicasInv
<1> SUFFICES ASSUME ReplicasInit PROVE ReplicasInv
    OBVIOUS
<1> USE QueueEmpty DEF ReplicasInit
<1>1. QueuesOK
    BY DEF QueuesOK
<1>2. ReplicasTypeOK
    BY <1>1, QueuesAreTyped DEF ReplicasTypeOK
<1>3. SilentBeforeJoin /\ ClientsAreHonest
    BY DEF SilentBeforeJoin, ClientsAreHonest
<1>4. ServerIsHonest /\ NothingOwed /\ NothingDue
    BY DEF ServerIsHonest, NothingOwed, NothingDue
<1> QED BY <1>1, <1>2, <1>3, <1>4 DEF ReplicasInv

(* A new connection and a flush move nothing.                              *)
LEMMA QuietSteps ==
    ASSUME ReplicasInv, (\E c \in Clients : Connect(c)) \/ Save \/ UNCHANGED vars
    PROVE  ReplicasInv'
<1>1. /\ UNCHANGED <<joined, synced, replica, managed, server, up, down, quiet, viewers>>
      /\ linked \subseteq linked' /\ linked' \subseteq Clients
      /\ stored' \subseteq server
    BY DEF ReplicasInv, ReplicasTypeOK, Connect, Save, vars
<1>2. QueuesOK'
    BY <1>1 DEF ReplicasInv, QueuesOK
<1>3. ReplicasTypeOK'
    BY <1>1 DEF ReplicasInv, ReplicasTypeOK
<1>4. SilentBeforeJoin' /\ ClientsAreHonest' /\ ServerIsHonest'
    BY <1>1 DEF ReplicasInv, SilentBeforeJoin, ClientsAreHonest, ServerIsHonest
<1>5. NothingOwed' /\ NothingDue'
    BY <1>1 DEF ReplicasInv, NothingOwed, NothingDue
<1> QED BY <1>2, <1>3, <1>4, <1>5 DEF ReplicasInv

(* The greeting is on its way to who has joined.                           *)
LEMMA JoinedStep ==
    ASSUME ReplicasInv, NEW c \in Clients, Joined(c)
    PROVE  ReplicasInv'
<1>1. Greeting(c) \in Message /\ Greeting(c).type = "step1" /\ Greeting(c).items = server
    BY DEF ReplicasInv, ReplicasTypeOK, Greeting, Msg, Message
<1>2. /\ UNCHANGED <<viewers, linked, synced, replica, server, stored, up, quiet>>
      /\ joined' = joined \cup {c} /\ c \in linked \ joined /\ managed' = TRUE
      /\ \A d \in Clients : down'[d] = IF d = c THEN Append(down[c], Greeting(c)) ELSE down[d]
    BY DEF Joined, ReplicasInv, QueuesOK
<1>3. QueuesOK'
    BY <1>1 DEF Joined, ReplicasInv, QueuesOK
<1>4. ReplicasTypeOK'
  <2>1. (\A d \in Clients : \A q \in {up[d], down[d]} : \A i \in DOMAIN q : q[i] \in Message)'
      BY <1>3, QueuesAreTyped DEF QueuesOK
  <2> QED BY <1>2, <2>1 DEF ReplicasInv, ReplicasTypeOK
<1>5. /\ Asks(down'[c])
      /\ Mentioned(down'[c]) \subseteq server
    BY <1>1, <1>2, QueueAppend, QueueEmpty DEF ReplicasInv, QueuesOK, SilentBeforeJoin
<1>6. SilentBeforeJoin' /\ ClientsAreHonest' /\ ServerIsHonest'
    BY <1>2, <1>5 DEF ReplicasInv, ReplicasTypeOK, SilentBeforeJoin, ClientsAreHonest, ServerIsHonest
<1>7. NothingOwed' /\ NothingDue'
    BY <1>2, <1>5 DEF ReplicasInv, ReplicasTypeOK, NothingOwed, NothingDue
<1> QED BY <1>3, <1>4, <1>6, <1>7 DEF ReplicasInv

(* Whoever is cut off has empty queues and is out of the room.             *)
LEMMA CutStep ==
    ASSUME ReplicasInv, NEW S \in SUBSET Clients, Cut(S),
           stored' \subseteq server', server' \subseteq Updates, managed' \in BOOLEAN,
           joined \ S # {} => managed' /\ server' = server
    PROVE  ReplicasInv'
<1>1. /\ UNCHANGED <<viewers, replica, quiet>>
      /\ linked' = linked \ S /\ joined' = joined \ S /\ synced' = synced \ S
      /\ \A d \in Clients : /\ up'[d] = IF d \in S THEN <<>> ELSE up[d]
                            /\ down'[d] = IF d \in S THEN <<>> ELSE down[d]
    BY DEF Cut, InRoomWithout
<1>2. QueuesOK'
    BY QueueEmpty DEF Cut, ReplicasInv, QueuesOK
<1>3. ReplicasTypeOK'
  <2>1. (\A d \in Clients : \A q \in {up[d], down[d]} : \A i \in DOMAIN q : q[i] \in Message)'
      BY <1>2, QueuesAreTyped DEF QueuesOK
  <2> QED BY <1>1, <2>1 DEF ReplicasInv, ReplicasTypeOK
<1>4. SilentBeforeJoin' /\ ClientsAreHonest'
    BY <1>1, QueueEmpty DEF ReplicasInv, SilentBeforeJoin, ClientsAreHonest
<1>5. ServerIsHonest'
    BY <1>1 DEF ReplicasInv, ReplicasTypeOK, ServerIsHonest
<1>6. NothingOwed'
    BY <1>1 DEF ReplicasInv, ReplicasTypeOK, NothingOwed
<1>7. NothingDue'
    BY <1>1 DEF ReplicasInv, ReplicasTypeOK, NothingDue
<1> QED BY <1>2, <1>3, <1>4, <1>5, <1>6, <1>7 DEF ReplicasInv

(* A document goes only when nobody takes part in it.                      *)
LEMMA LossSteps ==
    ASSUME ReplicasInv, (\E c \in Clients : Disconnect(c)) \/ Crash \/ Evict
    PROVE  ReplicasInv'
<1>1. CASE \E c \in Clients : Disconnect(c)
    BY <1>1, CutStep DEF ReplicasInv, ReplicasTypeOK, Disconnect
<1>2. CASE Crash
    BY <1>2, CutStep DEF ReplicasInv, ReplicasTypeOK, Crash
<1>3. CASE Evict
  <2>1. /\ UNCHANGED <<viewers, linked, joined, synced, replica, stored, up, down, quiet>>
        /\ joined = {} /\ managed' = FALSE /\ server' = stored
      BY <1>3 DEF Evict
  <2>2. QueuesOK'
      BY <2>1 DEF ReplicasInv, QueuesOK
  <2>3. ReplicasTypeOK'
      BY <2>1 DEF ReplicasInv, ReplicasTypeOK
  <2>4. SilentBeforeJoin' /\ ClientsAreHonest'
      BY <2>1 DEF ReplicasInv, SilentBeforeJoin, ClientsAreHonest
  <2>5. ServerIsHonest' /\ NothingOwed' /\ NothingDue'
      BY <2>1 DEF ServerIsHonest, NothingOwed, NothingDue
  <2> QED BY <2>2, <2>3, <2>4, <2>5 DEF ReplicasInv
<1> QED BY <1>1, <1>2, <1>3

(* What is typed is in the replica and, on a connection, on its way up.    *)
LEMMA EditStep ==
    ASSUME ReplicasInv, NEW c \in Clients, NEW u \in Updates, Edit(c, u)
    PROVE  ReplicasInv'
<1> DEFINE m == Msg("update", {u})
<1>1. m \in Message /\ m.type = "update" /\ m.items = {u}
    BY DEF Msg, Message
<1> HIDE DEF m
<1>2. /\ UNCHANGED <<viewers, linked, joined, synced, managed, server, stored, down, quiet>>
      /\ \A d \in Clients :
            /\ replica'[d] = IF d = c THEN replica[c] \cup {u} ELSE replica[d]
            /\ up'[d] = IF d = c /\ c \in linked THEN Append(up[c], m) ELSE up[d]
    BY DEF Edit, ReplicasInv, ReplicasTypeOK, QueuesOK, m
<1>3. QueuesOK'
    BY <1>1 DEF Edit, ReplicasInv, QueuesOK, m
<1>4. ReplicasTypeOK'
  <2>1. (\A d \in Clients : \A q \in {up[d], down[d]} : \A i \in DOMAIN q : q[i] \in Message)'
      BY <1>3, QueuesAreTyped DEF QueuesOK
  <2>2. replica' \in [Clients -> SUBSET Updates]
      BY DEF Edit, ReplicasInv, ReplicasTypeOK
  <2> QED BY <1>2, <2>1, <2>2 DEF ReplicasInv, ReplicasTypeOK
<1>5. \A d \in Clients :
         /\ Asks(up'[d]) <=> Asks(up[d])
         /\ Mentioned(up'[d]) \subseteq Mentioned(up[d]) \cup (IF d = c THEN {u} ELSE {})
         /\ Carried(up[d]) \subseteq Carried(up'[d])
         /\ d = c /\ c \in linked => u \in Carried(up'[d])
  <2> SUFFICES ASSUME NEW d \in Clients
               PROVE  /\ Asks(up'[d]) <=> Asks(up[d])
                      /\ Mentioned(up'[d])
                            \subseteq Mentioned(up[d]) \cup (IF d = c THEN {u} ELSE {})
                      /\ Carried(up[d]) \subseteq Carried(up'[d])
                      /\ d = c /\ c \in linked => u \in Carried(up'[d])
      OBVIOUS
  <2>1. CASE d = c /\ c \in linked
    <3>1. up[c] \in Seq(Message) /\ up'[d] = Append(up[c], m)
        BY <1>2, <2>1 DEF ReplicasInv, QueuesOK
    <3> QED BY <1>1, <2>1, <3>1, QueueAppend DEF Brings
  <2>2. CASE ~(d = c /\ c \in linked)
      BY <1>2, <2>2
  <2> QED BY <2>1, <2>2
<1>6. SilentBeforeJoin'
    BY <1>2, <1>5 DEF ReplicasInv, SilentBeforeJoin
<1>7. ClientsAreHonest'
    BY <1>2, <1>5 DEF ReplicasInv, ClientsAreHonest
<1>8. ServerIsHonest'
    BY <1>2 DEF ReplicasInv, ServerIsHonest
<1>9. NothingOwed'
    BY <1>2, <1>5 DEF ReplicasInv, ReplicasTypeOK, NothingOwed
<1>10. NothingDue'
    BY <1>2, <1>5 DEF ReplicasInv, ReplicasTypeOK, NothingDue
<1> QED BY <1>3, <1>4, <1>6, <1>7, <1>8, <1>9, <1>10 DEF ReplicasInv

(* A client that reads: the greeting becomes what the server lacks and a   *)
(* question, anything else becomes part of the replica.                    *)
LEMMA ClientReadsStep ==
    ASSUME ReplicasInv, NEW c \in Clients, ClientReads(c)
    PROVE  ReplicasInv'
<1> DEFINE m == Head(down[c])
<1>1. /\ m \in Message /\ m.items \subseteq Updates /\ Tail(down[c]) \in Seq(Message)
      /\ Carried(down[c]) = Carried(Tail(down[c])) \cup Brings(m)
      /\ Mentioned(down[c]) = Mentioned(Tail(down[c])) \cup m.items
      /\ Asks(down[c]) <=> Asks(Tail(down[c])) \/ m.type = "step1"
    BY QueueRead DEF ReplicasInv, QueuesOK, ClientReads, Message
<1>2. /\ UNCHANGED <<viewers, linked, joined, managed, server, stored, quiet>>
      /\ \A d \in Clients : down'[d] = IF d = c THEN Tail(down[c]) ELSE down[d]
      /\ synced' \subseteq synced \cup {c} /\ c \in joined
    BY DEF ClientReads, ReplicasInv, QueuesOK, SilentBeforeJoin
<1>3. m.items \subseteq server /\ c \in linked
    BY <1>1, <1>2 DEF ReplicasInv, ReplicasTypeOK, ServerIsHonest
<1>4. CASE m.type = "step1"
  <2> DEFINE lacking == Msg("step2", replica[c] \ m.items)
             asking == Msg("step1", replica[c])
  <2>1. /\ lacking \in Message /\ lacking.type = "step2" /\ lacking.items = replica[c] \ m.items
        /\ asking \in Message /\ asking.type = "step1" /\ asking.items = replica[c]
      BY DEF ReplicasInv, ReplicasTypeOK, Msg, Message
  <2>2. up' = [up EXCEPT ![c] = @ \o <<lacking, asking>>] /\ UNCHANGED replica
      BY <1>4 DEF ClientReads, Answers
  <2> HIDE DEF lacking, asking
  <2>3. up[c] \in Seq(Message) /\ up[c] \o <<lacking, asking>> \in Seq(Message)
      BY <2>1 DEF ReplicasInv, QueuesOK
  <2>4. \A d \in Clients :
           up'[d] = IF d = c THEN Append(Append(up[c], lacking), asking) ELSE up[d]
      BY <2>1, <2>2, <2>3, QueueOfTwo DEF ReplicasInv, QueuesOK
  <2>5. /\ Asks(up'[c])
        /\ Carried(up[c]) \cup (replica[c] \ m.items) \subseteq Carried(up'[c])
        /\ Mentioned(up'[c]) \subseteq Mentioned(up[c]) \cup replica[c]
    <3>1. /\ Append(up[c], lacking) \in Seq(Message)
          /\ Carried(Append(up[c], lacking)) = Carried(up[c]) \cup (replica[c] \ m.items)
          /\ Mentioned(Append(up[c], lacking)) = Mentioned(up[c]) \cup (replica[c] \ m.items)
        BY <2>1, <2>3, QueueAppend DEF Brings
    <3> DEFINE r == Append(up[c], lacking)
    <3>2. up'[c] = Append(r, asking)
        BY <2>4
    <3>3. r \in Seq(Message)
        BY <3>1
    <3> HIDE DEF m, r
    <3>4. /\ Carried(Append(r, asking))
               = Carried(r) \cup Brings(asking)
          /\ Mentioned(Append(r, asking)) = Mentioned(r) \cup asking.items
          /\ Asks(Append(r, asking)) <=> Asks(r) \/ asking.type = "step1"
        BY <2>1, <3>3, QueueAppend
    <3>5. /\ Asks(up'[c])
          /\ Carried(r) \subseteq Carried(up'[c])
          /\ Mentioned(up'[c]) = Mentioned(r) \cup replica[c]
        BY <2>1, <3>2, <3>4 DEF Brings
    <3> QED BY <3>1, <3>5 DEF r
  <2>6. QueuesOK'
      BY <1>1, <2>2, <2>3 DEF ClientReads, ReplicasInv, QueuesOK
  <2>7. ReplicasTypeOK'
    <3>1. (\A d \in Clients : \A q \in {up[d], down[d]} : \A i \in DOMAIN q : q[i] \in Message)'
        BY <2>6, QueuesAreTyped DEF QueuesOK
    <3> QED BY <1>2, <2>2, <3>1 DEF ReplicasInv, ReplicasTypeOK
  <2> HIDE DEF m
  <2>8. SilentBeforeJoin' /\ ClientsAreHonest'
      BY <1>2, <2>2, <2>4, <2>5 DEF ReplicasInv, SilentBeforeJoin, ClientsAreHonest
  <2>9. ServerIsHonest'
      BY <1>1, <1>2 DEF ReplicasInv, ReplicasTypeOK, ServerIsHonest
  <2>10. NothingOwed'
      BY <1>2, <1>3, <2>2, <2>4, <2>5 DEF ReplicasInv, ReplicasTypeOK, NothingOwed
  <2>11. NothingDue'
      BY <1>2, <2>2, <2>4, <2>5 DEF ReplicasInv, ReplicasTypeOK, NothingDue
  <2> QED BY <2>6, <2>7, <2>8, <2>9, <2>10, <2>11 DEF ReplicasInv
<1>5. CASE m.type # "step1"
  <2>1. UNCHANGED up /\ replica' = [replica EXCEPT ![c] = @ \cup m.items]
      BY <1>5 DEF ClientReads
  <2>2. QueuesOK'
      BY <1>1, <2>1 DEF ClientReads, ReplicasInv, QueuesOK
  <2> HIDE DEF m
  <2>3. /\ replica' \in [Clients -> SUBSET Updates]
        /\ \A d \in Clients : replica'[d] = IF d = c THEN replica[c] \cup m.items ELSE replica[d]
      BY <1>1, <2>1 DEF ReplicasInv, ReplicasTypeOK
  <2>4. ReplicasTypeOK'
    <3>1. (\A d \in Clients : \A q \in {up[d], down[d]} : \A i \in DOMAIN q : q[i] \in Message)'
        BY <2>2, QueuesAreTyped DEF QueuesOK
    <3> QED BY <1>2, <2>3, <3>1 DEF ReplicasInv, ReplicasTypeOK
  <2>5. SilentBeforeJoin' /\ ClientsAreHonest'
      BY <1>2, <2>1, <2>3 DEF ReplicasInv, SilentBeforeJoin, ClientsAreHonest
  <2>6. ServerIsHonest'
      BY <1>1, <1>2 DEF ReplicasInv, ReplicasTypeOK, ServerIsHonest
  <2>7. NothingOwed'
      BY <1>1, <1>2, <1>3, <1>5, <2>1, <2>3 DEF ReplicasInv, ReplicasTypeOK, NothingOwed
  <2>8. NothingDue'
      BY <1>1, <1>2, <1>5, <2>1, <2>3 DEF Brings, ReplicasInv, ReplicasTypeOK, NothingDue
  <2> QED BY <2>2, <2>4, <2>5, <2>6, <2>7, <2>8 DEF ReplicasInv
<1> QED BY <1>4, <1>5

(* The server sends a message to each client of S.                         *)
SendAdds(S, m) ==
    /\ Send(S, m) \in [Clients -> Seq(Message)]
    /\ \A d \in Clients :
          /\ d \notin S => Send(S, m)[d] = down[d]
          /\ d \in S =>
               /\ Asks(Send(S, m)[d]) <=> Asks(down[d]) \/ m.type = "step1"
               /\ Mentioned(Send(S, m)[d]) = Mentioned(down[d]) \cup m.items
               /\ Carried(Send(S, m)[d]) = Carried(down[d]) \cup Brings(m)

LEMMA Sent ==
    ASSUME QueuesOK, NEW S \in SUBSET Clients, NEW m \in Message
    PROVE  SendAdds(S, m)
<1>1. \A d \in Clients : down[d] \in Seq(Message) /\ Append(down[d], m) \in Seq(Message)
    BY DEF QueuesOK
<1>2. Send(S, m) \in [Clients -> Seq(Message)]
    BY <1>1 DEF Send
<1>3. \A d \in Clients : Send(S, m)[d] = IF d \in S THEN Append(down[d], m) ELSE down[d]
    BY DEF Send
<1>4. ASSUME NEW d \in Clients
      PROVE  /\ Asks(Append(down[d], m)) <=> Asks(down[d]) \/ m.type = "step1"
             /\ Mentioned(Append(down[d], m)) = Mentioned(down[d]) \cup m.items
             /\ Carried(Append(down[d], m))
                  = Carried(down[d]) \cup Brings(m)
    BY <1>1, QueueAppend
<1> QED BY <1>2, <1>3, <1>4 DEF SendAdds

(* The server that reads: a question is answered with what its sender      *)
(* lacks, anything else is merged, and relayed or remembered as quiet.     *)
LEMMA ServerReadsStep ==
    ASSUME ReplicasInv, NEW c \in Clients, ServerReads(c)
    PROVE  ReplicasInv'
<1> DEFINE m == Head(up[c])
<1>1. /\ m \in Message /\ m.items \subseteq Updates /\ Tail(up[c]) \in Seq(Message)
      /\ Carried(up[c]) = Carried(Tail(up[c])) \cup Brings(m)
      /\ Mentioned(up[c]) = Mentioned(Tail(up[c])) \cup m.items
      /\ Asks(up[c]) <=> Asks(Tail(up[c])) \/ m.type = "step1"
    BY QueueRead DEF ReplicasInv, QueuesOK, ServerReads, Message
<1>2. /\ UNCHANGED <<viewers, linked, joined, synced, replica, managed, stored>>
      /\ \A d \in Clients : up'[d] = IF d = c THEN Tail(up[c]) ELSE up[d]
    BY DEF ServerReads, ReplicasInv, QueuesOK
<1>3. up' \in [Clients -> Seq(Message)]
    BY <1>1 DEF ServerReads, ReplicasInv, QueuesOK
<1>4. m.items \subseteq replica[c]
    BY <1>1 DEF ReplicasInv, ClientsAreHonest
<1>5. ClientsAreHonest'
    BY <1>1, <1>2 DEF ReplicasInv, ClientsAreHonest
<1>6. CASE ~managed /\ UNCHANGED <<server, down, quiet>>
  <2>1. joined = {}
      BY <1>6 DEF ReplicasInv, ReplicasTypeOK
  <2>2. QueuesOK'
      BY <1>3, <1>6 DEF ReplicasInv, QueuesOK
  <2> HIDE DEF m
  <2>3. ReplicasTypeOK'
    <3>1. (\A d \in Clients : \A q \in {up[d], down[d]} : \A i \in DOMAIN q : q[i] \in Message)'
        BY <2>2, QueuesAreTyped DEF QueuesOK
    <3> QED BY <1>2, <1>6, <3>1 DEF ReplicasInv, ReplicasTypeOK
  <2>4. SilentBeforeJoin'
      BY <1>1, <1>2, <1>6 DEF ReplicasInv, SilentBeforeJoin
  <2>5. ServerIsHonest' /\ NothingOwed' /\ NothingDue'
      BY <1>2, <2>1 DEF ServerIsHonest, NothingOwed, NothingDue
  <2> QED BY <1>5, <2>2, <2>3, <2>4, <2>5 DEF ReplicasInv
<1>7. CASE managed /\ m.type = "step1" /\ ServerAnswers(c, m)
  <2> DEFINE n == Msg("step2", server \ m.items)
  <2>1. n \in Message /\ n.type = "step2" /\ n.items = server \ m.items
      BY DEF ReplicasInv, ReplicasTypeOK, Msg, Message
  <2>2. down' = Send({c}, n) /\ UNCHANGED <<server, quiet>>
      BY <1>7 DEF ServerAnswers
  <2> HIDE DEF m, n
  <2>3. /\ down' \in [Clients -> Seq(Message)]
        /\ \A d \in Clients : d # c => down'[d] = down[d]
        /\ Asks(down'[c]) <=> Asks(down[c])
        /\ Mentioned(down'[c]) = Mentioned(down[c]) \cup n.items
        /\ Carried(down'[c]) = Carried(down[c]) \cup n.items
    <3>1. QueuesOK /\ {c} \in SUBSET Clients
        BY DEF ReplicasInv
    <3>2. SendAdds({c}, n)
        BY <2>1, <3>1, Sent
    <3> QED BY <2>1, <2>2, <3>2 DEF SendAdds, Brings
  <2>4. c \in joined
      BY <1>1, <1>7 DEF ReplicasInv, SilentBeforeJoin
  <2>5. QueuesOK'
      BY <1>3, <2>3 DEF QueuesOK
  <2>6. ReplicasTypeOK'
    <3>1. (\A d \in Clients : \A q \in {up[d], down[d]} : \A i \in DOMAIN q : q[i] \in Message)'
        BY <2>5, QueuesAreTyped DEF QueuesOK
    <3> QED BY <1>2, <2>2, <3>1 DEF ReplicasInv, ReplicasTypeOK
  <2>7. SilentBeforeJoin'
      BY <1>2, <2>3, <2>4 DEF ReplicasInv, SilentBeforeJoin
  <2>8. ServerIsHonest'
      BY <1>2, <2>1, <2>2, <2>3 DEF ReplicasInv, ReplicasTypeOK, ServerIsHonest
  <2>9. NothingOwed'
      BY <1>1, <1>2, <1>7, <2>2, <2>3 DEF Brings, ReplicasInv, ReplicasTypeOK, NothingOwed
  <2>10. NothingDue'
      BY <1>2, <1>4, <2>1, <2>2, <2>3 DEF ReplicasInv, ReplicasTypeOK, NothingDue
  <2> QED BY <1>5, <2>5, <2>6, <2>7, <2>8, <2>9, <2>10 DEF ReplicasInv
<1>8. CASE managed /\ m.type # "step1" /\ ServerMerges(c, m)
  <2> DEFINE S == IF m.type = "update" /\ ~ReadOnly(c) THEN Room(c) ELSE {}
  <2>1. S \subseteq joined \ {c} /\ S \in SUBSET Clients
      BY DEF Room, ReplicasInv, ReplicasTypeOK
  <2>2. server' = server \cup m.items /\ quiet \subseteq quiet' /\ quiet' \subseteq Updates
      BY <1>1, <1>8 DEF ServerMerges, ReplicasInv, ReplicasTypeOK
  <2>3. S = joined \ {c} \/ m.items \ server \subseteq quiet'
      BY <1>8 DEF ServerMerges, Room
  <2>4. down' = Send(S, m)
    <3>1. CASE m.type = "update" /\ ~ReadOnly(c)
        BY <1>8, <3>1 DEF ServerMerges
    <3>2. CASE ~(m.type = "update" /\ ~ReadOnly(c))
      <4>1. Send({}, m) = down
          BY DEF Send, ReplicasInv, QueuesOK
      <4> QED BY <1>8, <3>2, <4>1 DEF ServerMerges
    <3> QED BY <3>1, <3>2
  <2> HIDE DEF m, S
  <2>5. /\ down' \in [Clients -> Seq(Message)]
        /\ \A d \in Clients :
              /\ d \notin S => down'[d] = down[d]
              /\ Asks(down'[d]) <=> Asks(down[d])
              /\ Mentioned(down'[d]) \subseteq Mentioned(down[d]) \cup m.items
              /\ Carried(down[d]) \subseteq Carried(down'[d])
              /\ d \in S => m.items \subseteq Carried(down'[d])
    <3>1. QueuesOK
        BY DEF ReplicasInv
    <3>2. SendAdds(S, m)
        BY <1>1, <2>1, <3>1, Sent
    <3>3. m.type # "step1"
        BY <1>8
    <3> QED BY <2>4, <3>2, <3>3 DEF SendAdds, Brings
  <2>6. QueuesOK'
      BY <1>3, <2>5 DEF QueuesOK
  <2>7. ReplicasTypeOK'
    <3>1. (\A d \in Clients : \A q \in {up[d], down[d]} : \A i \in DOMAIN q : q[i] \in Message)'
        BY <2>6, QueuesAreTyped DEF QueuesOK
    <3> QED BY <1>1, <1>2, <2>2, <3>1 DEF ReplicasInv, ReplicasTypeOK
  <2>8. SilentBeforeJoin'
      BY <1>1, <1>2, <2>1, <2>5 DEF ReplicasInv, SilentBeforeJoin
  <2>9. ServerIsHonest'
      BY <1>2, <2>2, <2>5 DEF ReplicasInv, ReplicasTypeOK, ServerIsHonest
  <2>10. NothingOwed'
      BY <1>1, <1>2, <2>2, <2>5 DEF Brings, ReplicasInv, ReplicasTypeOK, NothingOwed
  <2>11. NothingDue'
    <3> SUFFICES ASSUME NEW d \in joined, ~Asks(down'[d]), ~Asks(up'[d])
                 PROVE  server' \ replica[d] \subseteq quiet' \cup Carried(down'[d])
        BY <1>2 DEF NothingDue
    <3>1. d \in Clients /\ ~Asks(down[d]) /\ ~Asks(up[d])
        BY <1>1, <1>2, <1>8, <2>5 DEF ReplicasInv, ReplicasTypeOK
    <3>2. server \ replica[d] \subseteq quiet \cup Carried(down[d])
        BY <3>1 DEF ReplicasInv, NothingDue
    <3>3. m.items \ server \subseteq replica[d] \cup quiet' \cup Carried(down'[d])
        BY <1>4, <2>3, <2>5, <3>1
    <3> QED BY <2>2, <2>5, <3>1, <3>2, <3>3
  <2> QED BY <1>5, <2>6, <2>7, <2>8, <2>9, <2>10, <2>11 DEF ReplicasInv
<1> QED BY <1>6, <1>7, <1>8 DEF ServerReads

LEMMA ReplicasStep == ReplicasInv /\ [ReplicasNext]_vars => ReplicasInv'
<1> SUFFICES ASSUME ReplicasInv, [ReplicasNext]_vars PROVE ReplicasInv'
    OBVIOUS
<1>1. CASE (\E c \in Clients : Connect(c)) \/ Save \/ UNCHANGED vars
    BY <1>1, QuietSteps
<1>2. CASE \E c \in Clients : Joined(c)
    BY <1>2, JoinedStep
<1>3. CASE (\E c \in Clients : Disconnect(c)) \/ Crash \/ Evict
    BY <1>3, LossSteps
<1>4. CASE \E c \in Clients, u \in Updates : Edit(c, u)
    BY <1>4, EditStep
<1>5. CASE \E c \in Clients : ClientReads(c)
    BY <1>5, ClientReadsStep
<1>6. CASE \E c \in Clients : ServerReads(c)
    BY <1>6, ServerReadsStep
<1> QED BY <1>1, <1>2, <1>3, <1>4, <1>5, <1>6 DEF ReplicasNext

LEMMA ReplicasInvariant == ReplicasSpec => []ReplicasInv
<1> QED BY ReplicasInitOK, ReplicasStep, PTL DEF ReplicasSpec

-----------------------------------------------------------------------------
(* The state of clients, connections and server is well typed; whoever is  *)
(* in the room is connected, and its document is in memory.                *)
THEOREM ReplicasTypeCorrect == ReplicasSpec => []ReplicasTypeOK
<1>1. ReplicasInv => ReplicasTypeOK
    BY DEF ReplicasInv
<1> QED BY <1>1, ReplicasInvariant, PTL

(* Whatever a client that is in step shows, typed before, during or after  *)
(* the handshake or offline, before a crash of the server or after it, the *)
(* server has too: what SocketYjsProvider and handleYjsSync say to each    *)
(* other strands nothing.                                                  *)
THEOREM NoEditIsStranded == ReplicasSpec => []NothingStranded
<1>1. ReplicasInv => NothingStranded
  <2> SUFFICES ASSUME ReplicasInv, NEW c \in Clients, Settled(c)
               PROVE  replica[c] \subseteq server
      BY DEF NothingStranded
  <2>1. c \in joined /\ ~Asks(down[c]) /\ Carried(up[c]) = {}
      BY QueueEmpty DEF Settled, ReplicasInv, ReplicasTypeOK
  <2> QED BY <2>1 DEF ReplicasInv, NothingOwed
<1> QED BY <1>1, ReplicasInvariant, PTL

(* A client that is in step lacks only what handleYjsSync has merged       *)
(* without relaying it: no broadcast is lost between the join and the end  *)
(* of the handshake, however the two are interleaved with other editors.   *)
THEOREM OnlyQuietIsLacking == ReplicasSpec => []LacksOnlyQuiet
<1>1. ReplicasInv => LacksOnlyQuiet
  <2> SUFFICES ASSUME ReplicasInv, NEW c \in Clients, Settled(c)
               PROVE  server \ replica[c] \subseteq quiet
      BY DEF LacksOnlyQuiet
  <2>1. c \in joined /\ ~Asks(down[c]) /\ ~Asks(up[c]) /\ Carried(down[c]) = {}
      BY QueueEmpty DEF Settled, ReplicasInv, ReplicasTypeOK
  <2> QED BY <2>1 DEF ReplicasInv, NothingDue
<1> QED BY <1>1, ReplicasInvariant, PTL

=============================================================================
