--------------------------- MODULE WsClientProofs ---------------------------
(***************************************************************************)
(* WsClient: whatever connects, breaks or is rejected, the client keeps    *)
(* every durable message at exactly one place, for any number of messages  *)
(* and any schedule of delays.                                             *)
(***************************************************************************)
EXTENDS WsClient, FiniteSetTheorems, TLAPS

-----------------------------------------------------------------------------
(* How often a message is in a queue. *)

\* A count is a natural number, and 0 exactly if the message is not there.
LEMMA CountType ==
  ASSUME NEW S, NEW q \in Seq(S), NEW m
  PROVE  /\ IsFiniteSet({i \in 1..Len(q) : q[i] = m})
         /\ Count(m, q) \in Nat /\ (Count(m, q) = 0 <=> m \notin ToSet(q))
  <1> DEFINE P == {i \in 1..Len(q) : q[i] = m}
  <1>1. IsFiniteSet(1..Len(q))
    BY FS_Interval
  <1>2. IsFiniteSet(P)
    BY <1>1, FS_Subset
  <1>3. Cardinality(P) \in Nat /\ (Cardinality(P) = 0 <=> P = {})
    BY <1>2, FS_CardinalityType, FS_EmptySet
  <1>4. P = {} <=> m \notin ToSet(q)
    BY DEF ToSet
  <1> QED BY <1>2, <1>3, <1>4 DEF Count

\* Nothing is in an empty queue.
LEMMA CountNone ==
  ASSUME NEW m
  PROVE  Count(m, <<>>) = 0
  <1>1. {i \in 1..Len(<<>>) : <<>>[i] = m} = {}
    OBVIOUS
  <1> QED BY <1>1, FS_EmptySet DEF Count

\* The last one counts.
LEMMA CountAppend ==
  ASSUME NEW S, NEW q \in Seq(S), NEW r \in S, NEW m
  PROVE  Count(m, Append(q, r)) = IF r = m THEN Count(m, q) + 1 ELSE Count(m, q)
  <1> DEFINE P == {i \in 1..Len(q) : q[i] = m}
             A == {i \in 1..Len(Append(q, r)) : Append(q, r)[i] = m}
  <1>1. /\ Len(q) \in Nat /\ Len(Append(q, r)) = Len(q) + 1 /\ Append(q, r)[Len(q) + 1] = r
        /\ \A i \in 1..Len(q) : Append(q, r)[i] = q[i]
    OBVIOUS
  <1>2. Len(q) + 1 \notin P
    BY <1>1
  <1>3. CASE r = m
    <2>1. A = P \cup {Len(q) + 1}
      BY <1>1, <1>3
    <2>2. IsFiniteSet(P)
      BY CountType
    <2>3. Count(m, Append(q, r)) = Cardinality(A) /\ Count(m, q) = Cardinality(P)
      BY DEF Count
    <2> HIDE DEF A, P
    <2>4. Cardinality(P \cup {Len(q) + 1}) = Cardinality(P) + 1
      BY <1>2, <2>2, FS_AddElement
    <2> QED BY <1>3, <2>1, <2>3, <2>4
  <1>4. CASE r # m
    <2>1. A = P
      BY <1>1, <1>4
    <2> QED BY <1>4, <2>1 DEF Count
  <1> QED BY <1>3, <1>4

\* So does the first.
LEMMA CountTail ==
  ASSUME NEW S, NEW q \in Seq(S), q # <<>>, NEW m
  PROVE  Count(m, q) = IF Head(q) = m THEN Count(m, Tail(q)) + 1 ELSE Count(m, Tail(q))
  <1> DEFINE P == {i \in 1..Len(q) : q[i] = m}
             T == {i \in 1..Len(Tail(q)) : Tail(q)[i] = m}
             f == [i \in T |-> i + 1]
  <1>1. /\ Len(q) \in Nat \ {0} /\ Len(Tail(q)) = Len(q) - 1 /\ Head(q) = q[1]
        /\ Tail(q) \in Seq(S) /\ \A i \in 1..(Len(q) - 1) : Tail(q)[i] = q[i + 1]
    OBVIOUS
  <1>2. \A j \in P \ {1} : j - 1 \in T /\ (j - 1) + 1 = j
    BY <1>1
  <1>3. \A i \in T : i + 1 \in P \ {1}
    BY <1>1
  <1>4. \A i, j \in T : i + 1 = j + 1 => i = j
    BY <1>1
  <1>5. f \in Bijection(T, P \ {1})
    <2> HIDE DEF T, P
    <2>1. f \in [T -> P \ {1}] /\ \A i \in T : f[i] = i + 1
      BY <1>3
    <2>2. \A i, j \in T : f[i] = f[j] => i = j
      BY <1>4, <2>1
    <2>3. \A j \in P \ {1} : \E i \in T : f[i] = j
      BY <1>2, <2>1
    <2> QED BY <2>1, <2>2, <2>3 DEF Bijection, Injection, Surjection, IsInjective
  <1>6. IsFiniteSet(T) /\ IsFiniteSet(P)
    BY <1>1, CountType
  <1>7. Cardinality(P \ {1}) = Cardinality(T)
    BY <1>5, <1>6, FS_Bijection DEF ExistsBijection
  <1>8. /\ Cardinality(P \ {1}) = IF 1 \in P THEN Cardinality(P) - 1 ELSE Cardinality(P)
        /\ Cardinality(P) \in Nat
    BY <1>6, FS_RemoveElement, FS_CardinalityType
  <1>9. 1 \in P <=> Head(q) = m
    BY <1>1
  <1>10. Count(m, Tail(q)) = Cardinality(T) /\ Count(m, q) = Cardinality(P)
    BY DEF Count
  <1> HIDE DEF T, P
  <1> QED BY <1>7, <1>8, <1>9, <1>10

-----------------------------------------------------------------------------
(* Type correctness, and the queue that a flush takes over. *)

\* Nothing is connected, queued or sent at the start.
LEMMA InitWsInv == WsInit => WsInv
  <1> SUFFICES ASSUME WsInit PROVE WsInv
    OBVIOUS
  <1>1. WsTypeOK
    <2>1. 0 \in 0..ScheduleLen /\ 0 \in 0..(ScheduleLen - 1)
      BY WsAssumption
    <2>2. <<>> \in Seq(Msgs) /\ {} \in SUBSET Msgs
      OBVIOUS
    <2> QED BY <2>1, <2>2 DEF WsInit, WsTypeOK, LoopPoints
  <1>2. FlushTakesAll
    BY DEF WsInit, FlushTakesAll
  <1>3. \A m : Places(m) = 0
    <2>1. \A m : Count(m, <<>>) = 0
      BY CountNone
    <2> QED BY <2>1 DEF WsInit, Places
  <1>4. ToSet(sent) = {}
    BY DEF WsInit, ToSet
  <1> QED BY <1>1, <1>2, <1>3, <1>4 DEF WsInv, NothingDroppedByClient, NothingInvented

\* Giving a connection up leaves the index and the delay within the schedule.
LEMMA GiveUpTypes ==
  ASSUME WsTypeOK, GiveUp
  PROVE  /\ loop' \in {"ended", "backoff"} /\ open' = FALSE
         /\ backoff' \in 0..ScheduleLen /\ delay' \in 0..(ScheduleLen - 1)
  BY WsAssumption DEF WsTypeOK, GiveUp, DelayIndex

\* Transmitting a message keeps the types and the queue of an open socket.
LEMMA TransmitTypes ==
  ASSUME WsTypeOK, NEW m \in Msgs, Transmit(m)
  PROVE  /\ queue' \in Seq(Msgs) /\ wire' \in Seq(Msgs)
         /\ HasSocket /\ open => queue' = queue
  <1>1. queue \in Seq(Msgs) /\ wire \in Seq(Msgs)
    BY DEF WsTypeOK
  <1>2. Append(queue, m) \in Seq(Msgs) /\ Append(wire, m) \in Seq(Msgs)
    BY <1>1
  <1>3. CASE HasSocket /\ open
    BY <1>1, <1>2, <1>3 DEF Transmit
  <1>4. CASE ~(HasSocket /\ open)
    BY <1>1, <1>2, <1>4 DEF Transmit
  <1> QED BY <1>3, <1>4

\* Every step keeps the types and FlushTakesAll.
LEMMA StepShape ==
  ASSUME WsInv, [WsNext]_wsVars
  PROVE  WsTypeOK' /\ FlushTakesAll'
  <1> USE DEF WsInv
  <1>1. ASSUME NEW m \in Msgs \ ToSet(sent), Send(m)
        PROVE  WsTypeOK' /\ FlushTakesAll'
    <2>1. WsTypeOK'
      BY <1>1, TransmitTypes DEF Send, WsTypeOK
    <2>2. FlushTakesAll'
      BY <1>1, TransmitTypes DEF Send, FlushTakesAll, HasSocket
    <2> QED BY <2>1, <2>2
  <1>2. CASE Deliver
    <2>1. hub' \in Seq(Msgs) /\ wire' \in Seq(Msgs)
      BY <1>2 DEF Deliver, WsTypeOK
    <2> QED BY <1>2, <2>1 DEF Deliver, WsTypeOK, FlushTakesAll, HasSocket
  <1>3. CASE Connect \/ ConnectRaises
    <2>1. /\ loop = "connect" /\ loop' \in {"authenticate", "crashed"}
          /\ open' = TRUE \/ (open' = open /\ loop' = "crashed")
          /\ open' => loop' = "authenticate"
          /\ UNCHANGED <<net, traffic, backoff, delay, stop>>
      BY <1>3 DEF Connect, ConnectRaises, FlushTakesAll, HasSocket, WsTypeOK
    <2>2. open' \in BOOLEAN
      BY <2>1 DEF WsTypeOK
    <2>3. WsTypeOK'
      BY <2>1, <2>2 DEF WsTypeOK, LoopPoints, traffic
    <2>4. FlushTakesAll'
      BY <2>1 DEF FlushTakesAll, HasSocket, traffic
    <2> QED BY <2>3, <2>4
  <1>4. CASE ConnectFails \/ NoticeClosed
    <2>1. /\ GiveUp /\ UNCHANGED <<net, traffic, stop>>
          /\ loop \in {"connect", "authenticate", "receive"}
      BY <1>4 DEF ConnectFails, NoticeClosed
    <2> QED BY <2>1, GiveUpTypes DEF traffic, WsTypeOK, LoopPoints, FlushTakesAll, HasSocket
  <1>5. CASE Authenticated
    <2>1. 0 \in 0..ScheduleLen
      BY WsAssumption
    <2> QED BY <1>5, <2>1 DEF Authenticated, WsTypeOK, LoopPoints, FlushTakesAll, HasSocket
  <1>6. CASE NotAuthenticated
    <2>1. wire' \in Seq(Msgs) /\ lost' \in SUBSET Msgs
      BY <1>6 DEF NotAuthenticated, LoseWire, WsTypeOK, ToSet
    <2> QED BY <1>6, <2>1, GiveUpTypes
        DEF NotAuthenticated, WsTypeOK, LoopPoints, FlushTakesAll, HasSocket
  <1>7. CASE FlushOne
    <2>1. Head(pending) \in Msgs /\ Tail(pending) \in Seq(Msgs)
      BY <1>7 DEF FlushOne, WsTypeOK
    <2> QED BY <1>7, <2>1, TransmitTypes DEF FlushOne, WsTypeOK, FlushTakesAll, HasSocket
  <1>8. CASE FlushDone \/ Synced \/ BackoffOver
    BY <1>8
    DEF FlushDone, Synced, BackoffOver, AfterBackoff, WsTypeOK, LoopPoints, FlushTakesAll,
        HasSocket, traffic
  <1>9. CASE Stop \/ NetChanges
    <2>1. /\ UNCHANGED <<loop, open, traffic, backoff, delay>>
          /\ net' \in BOOLEAN /\ stop' \in BOOLEAN
      <3>1. CASE Stop
        BY <3>1 DEF Stop, WsTypeOK
      <3>2. CASE NetChanges
        BY <3>2 DEF NetChanges, WsTypeOK
      <3> QED BY <1>9, <3>1, <3>2
    <2> QED BY <2>1 DEF WsTypeOK, FlushTakesAll, HasSocket, traffic
  <1>10. CASE Drop
    <2>1. wire' \in Seq(Msgs) /\ lost' \in SUBSET Msgs
      BY <1>10 DEF Drop, LoseWire, WsTypeOK, ToSet
    <2> QED BY <1>10, <2>1 DEF Drop, WsTypeOK, FlushTakesAll
  <1>11. CASE UNCHANGED wsVars
    BY <1>11 DEF wsVars, WsTypeOK, FlushTakesAll, HasSocket
  <1> QED BY <1>1, <1>2, <1>3, <1>4, <1>5, <1>6, <1>7, <1>8, <1>9, <1>10, <1>11
      DEF WsNext, RunForever

-----------------------------------------------------------------------------
(* Every message stays at its one place. *)

\* Arithmetic on its own: one message more in the queue or on the wire.
LEMMA Rearranged ==
  ASSUME NEW q \in Nat, NEW p \in Nat, NEW w \in Nat, NEW h \in Nat,
         NEW q1 \in Nat, NEW w1 \in Nat, NEW l \in {0, 1}, NEW d \in {0, 1},
         q1 + w1 = q + w + d
  PROVE  q1 + p + w1 + h + l = q + p + w + h + l + d
  OBVIOUS

\* The same for a message that the flush takes from `pending`.
LEMMA Moved ==
  ASSUME NEW q \in Nat, NEW p \in Nat, NEW w \in Nat, NEW h \in Nat,
         NEW q1 \in Nat, NEW p1 \in Nat, NEW w1 \in Nat, NEW l \in {0, 1}, NEW d \in {0, 1},
         q1 + w1 = q + w + d, p = p1 + d
  PROVE  q1 + p1 + w1 + h + l = q + p + w + h + l
  OBVIOUS

\* The five counts of a message.
LEMMA PlaceTypes ==
  ASSUME WsTypeOK, NEW m
  PROVE  /\ Count(m, queue) \in Nat /\ Count(m, pending) \in Nat /\ Count(m, wire) \in Nat
         /\ Count(m, hub) \in Nat
  BY CountType DEF WsTypeOK

\* A message that is handed over goes to one of queue and socket.
LEMMA TransmitCounts ==
  ASSUME WsTypeOK, NEW r \in Msgs, Transmit(r), NEW m
  PROVE  Count(m, queue') + Count(m, wire')
         = Count(m, queue) + Count(m, wire) + (IF r = m THEN 1 ELSE 0)
  <1>1. Count(m, queue) \in Nat /\ Count(m, wire) \in Nat
    BY PlaceTypes
  <1>2. CASE HasSocket /\ open
    <2>1. queue' = queue /\ wire' = Append(wire, r)
      BY <1>2 DEF Transmit
    <2>2. Count(m, wire') = IF r = m THEN Count(m, wire) + 1 ELSE Count(m, wire)
      BY <2>1, CountAppend DEF WsTypeOK
    <2> QED BY <1>1, <2>1, <2>2
  <1>3. CASE ~(HasSocket /\ open)
    <2>1. wire' = wire /\ queue' = Append(queue, r)
      BY <1>3 DEF Transmit
    <2>2. Count(m, queue') = IF r = m THEN Count(m, queue) + 1 ELSE Count(m, queue)
      BY <2>1, CountAppend DEF WsTypeOK
    <2> QED BY <1>1, <2>1, <2>2
  <1> QED BY <1>2, <1>3

\* What goes down with a connection counts once, if it was there once.
LEMMA LoseCounts ==
  ASSUME WsTypeOK, LoseWire, UNCHANGED <<queue, pending, hub>>, NEW m, Places(m) \in {0, 1}
  PROVE  Places(m)' = Places(m)
  <1> DEFINE q == Count(m, queue)
             p == Count(m, pending)
             w == Count(m, wire)
             h == Count(m, hub)
             l == IF m \in lost THEN 1 ELSE 0
             l1 == IF m \in lost \cup ToSet(wire) THEN 1 ELSE 0
  <1>1. q \in Nat /\ p \in Nat /\ w \in Nat /\ h \in Nat
    BY PlaceTypes
  <1>2. Places(m) = q + p + w + h + l
    BY DEF Places
  <1>3. Count(m, wire') = 0
    BY CountNone DEF LoseWire
  <1>4. w = 0 <=> m \notin ToSet(wire)
    BY CountType DEF WsTypeOK
  <1>5. Places(m)' = q + p + 0 + h + l1
    BY <1>3 DEF Places, LoseWire
  <1>6. l \in {0, 1} /\ l1 = IF l = 1 \/ w # 0 THEN 1 ELSE 0
    BY <1>4
  <1> HIDE DEF q, p, w, h, l, l1
  <1>7. q + p + w + h + l \in {0, 1}
    BY <1>2
  <1>8. q + p + 0 + h + l1 = q + p + w + h + l
    BY <1>1, <1>6, <1>7
  <1> QED BY <1>2, <1>5, <1>8

\* Where a message is changes only by steps that move it; only send() adds one.
LEMMA StepPlaces ==
  ASSUME WsInv, [WsNext]_wsVars, NEW m \in Msgs,
         ~ \E r \in Msgs \ ToSet(sent) : Send(r)
  PROVE  Places(m)' = Places(m) /\ UNCHANGED sent
  <1>0. WsTypeOK /\ Places(m) \in {0, 1}
    BY DEF WsInv, NothingDroppedByClient, NothingInvented
  <1>1. CASE UNCHANGED traffic
    BY <1>1 DEF traffic, Places
  <1>2. CASE Deliver
    <2>1. /\ wire # <<>> /\ hub' = Append(hub, Head(wire)) /\ wire' = Tail(wire)
          /\ UNCHANGED <<queue, pending, lost, sent>> /\ Head(wire) \in Msgs
      BY <1>0, <1>2 DEF Deliver, WsTypeOK
    <2>2. Count(m, wire) = IF Head(wire) = m THEN Count(m, wire') + 1 ELSE Count(m, wire')
      BY <1>0, <2>1, CountTail DEF WsTypeOK
    <2>3. Count(m, hub') = IF Head(wire) = m THEN Count(m, hub) + 1 ELSE Count(m, hub)
      BY <1>0, <2>1, CountAppend DEF WsTypeOK
    <2>4. /\ Count(m, queue) \in Nat /\ Count(m, pending) \in Nat /\ Count(m, wire) \in Nat
          /\ Count(m, hub) \in Nat
      BY <1>0, PlaceTypes
    <2>5. Count(m, wire') \in Nat
      BY StepShape, CountType DEF WsTypeOK
    <2> QED BY <2>1, <2>2, <2>3, <2>4, <2>5 DEF Places
  <1>3. CASE Authenticated
    <2>1. /\ pending' = queue /\ queue' = <<>> /\ UNCHANGED <<wire, hub, lost, sent>>
          /\ pending = <<>>
      BY <1>3 DEF Authenticated, WsInv, FlushTakesAll
    <2>2. Count(m, pending) = 0 /\ Count(m, queue') = 0 /\ Count(m, pending') = Count(m, queue)
      BY <2>1, CountNone
    <2>3. /\ Count(m, queue) \in Nat /\ Count(m, wire) \in Nat /\ Count(m, hub) \in Nat
      BY <1>0, PlaceTypes
    <2> QED BY <2>1, <2>2, <2>3 DEF Places
  <1>4. CASE NotAuthenticated
    BY <1>0, <1>4, LoseCounts DEF NotAuthenticated
  <1>5. CASE Drop
    BY <1>0, <1>5, LoseCounts DEF Drop
  <1>6. CASE FlushOne
    <2>1. /\ pending # <<>> /\ Transmit(Head(pending)) /\ pending' = Tail(pending)
          /\ UNCHANGED <<hub, lost, sent>> /\ Head(pending) \in Msgs
      BY <1>0, <1>6 DEF FlushOne, WsTypeOK
    <2>2. Count(m, pending) = IF Head(pending) = m THEN Count(m, pending') + 1
                              ELSE Count(m, pending')
      BY <1>0, <2>1, CountTail DEF WsTypeOK
    <2>3. Count(m, queue') + Count(m, wire')
          = Count(m, queue) + Count(m, wire) + (IF Head(pending) = m THEN 1 ELSE 0)
      BY <1>0, <2>1, TransmitCounts
    <2>4. /\ Count(m, queue) \in Nat /\ Count(m, pending) \in Nat /\ Count(m, wire) \in Nat
          /\ Count(m, hub) \in Nat
      BY <1>0, PlaceTypes
    <2>5. Count(m, pending') \in Nat /\ Count(m, queue') \in Nat /\ Count(m, wire') \in Nat
      BY StepShape, CountType DEF WsTypeOK
    <2>6. /\ Places(m) = Count(m, queue) + Count(m, pending) + Count(m, wire) + Count(m, hub)
                        + (IF m \in lost THEN 1 ELSE 0)
          /\ Places(m)' = Count(m, queue') + Count(m, pending') + Count(m, wire') + Count(m, hub)
                         + (IF m \in lost THEN 1 ELSE 0)
      BY <2>1 DEF Places
    <2>7. Count(m, pending) = Count(m, pending') + (IF Head(pending) = m THEN 1 ELSE 0)
      BY <2>2, <2>5
    <2>8. Places(m)' = Places(m)
      BY <2>3, <2>4, <2>5, <2>6, <2>7, Moved
    <2> QED BY <2>1, <2>8
  <1>7. CASE Connect \/ ConnectFails \/ ConnectRaises \/ FlushDone \/ Synced \/ NoticeClosed
             \/ BackoffOver \/ Stop \/ NetChanges
    BY <1>1, <1>7
    DEF Connect, ConnectFails, ConnectRaises, FlushDone, Synced, NoticeClosed, BackoffOver,
        Stop, NetChanges
  <1>8. CASE UNCHANGED wsVars
    BY <1>1, <1>8 DEF wsVars, traffic
  <1>9. \/ Deliver \/ Authenticated \/ NotAuthenticated \/ Drop \/ FlushOne
        \/ Connect \/ ConnectFails \/ ConnectRaises \/ FlushDone \/ Synced \/ NoticeClosed
        \/ BackoffOver \/ Stop \/ NetChanges
        \/ UNCHANGED wsVars
    BY DEF WsNext, RunForever
  <1>10. Places(m)' = Places(m)
    BY <1>2, <1>3, <1>4, <1>5, <1>6, <1>7, <1>8, <1>9
  <1>11. UNCHANGED sent
    BY <1>9
    DEF Deliver, Authenticated, NotAuthenticated, Drop, FlushOne, Connect, ConnectFails,
        ConnectRaises, FlushDone, Synced, NoticeClosed, BackoffOver, Stop, NetChanges, traffic,
        wsVars
  <1> QED BY <1>10, <1>11

\* send() puts the new message, and no other, somewhere.
LEMMA SendPlaces ==
  ASSUME WsInv, NEW r \in Msgs \ ToSet(sent), Send(r), NEW m \in Msgs
  PROVE  /\ Places(m)' = Places(m) + (IF r = m THEN 1 ELSE 0)
         /\ ToSet(sent') = ToSet(sent) \cup {r}
  <1>1. /\ Transmit(r) /\ sent' = Append(sent, r) /\ UNCHANGED <<pending, hub, lost>>
        /\ WsTypeOK
    BY DEF Send, WsInv
  <1>2. Count(m, queue') + Count(m, wire')
        = Count(m, queue) + Count(m, wire) + (IF r = m THEN 1 ELSE 0)
    BY <1>1, TransmitCounts
  <1>3. /\ Count(m, queue) \in Nat /\ Count(m, pending) \in Nat /\ Count(m, wire) \in Nat
        /\ Count(m, hub) \in Nat
    BY <1>1, PlaceTypes
  <1>4. Count(m, queue') \in Nat /\ Count(m, wire') \in Nat
    BY <1>1, TransmitTypes, CountType
  <1>5. Places(m)' = Places(m) + (IF r = m THEN 1 ELSE 0)
    <2>1. /\ Places(m) = Count(m, queue) + Count(m, pending) + Count(m, wire) + Count(m, hub)
                        + (IF m \in lost THEN 1 ELSE 0)
          /\ Places(m)' = Count(m, queue') + Count(m, pending) + Count(m, wire') + Count(m, hub)
                         + (IF m \in lost THEN 1 ELSE 0)
      BY <1>1 DEF Places
    <2> QED BY <1>2, <1>3, <1>4, <2>1, Rearranged
  <1>6. ToSet(sent') = ToSet(sent) \cup {r}
    <2>1. sent \in Seq(Msgs) /\ sent' = Append(sent, r)
      BY <1>1 DEF WsTypeOK
    <2> QED BY <2>1 DEF ToSet
  <1> QED BY <1>5, <1>6

\* Every step keeps every message at its one place.
LEMMA WsInvKept ==
  ASSUME WsInv, [WsNext]_wsVars
  PROVE  WsInv'
  <1>1. WsTypeOK' /\ FlushTakesAll'
    BY StepShape
  <1>2. \A m \in Msgs : Places(m) = IF m \in ToSet(sent) THEN 1 ELSE 0
    BY DEF WsInv, NothingDroppedByClient, NothingInvented
  <1>3. \A m \in Msgs : Places(m)' = IF m \in ToSet(sent') THEN 1 ELSE 0
    <2>1. CASE \E r \in Msgs \ ToSet(sent) : Send(r)
      <3>1. PICK r \in Msgs \ ToSet(sent) : Send(r)
        BY <2>1
      <3> QED BY <1>2, <3>1, SendPlaces
    <2>2. CASE ~ \E r \in Msgs \ ToSet(sent) : Send(r)
      BY <1>2, <2>2, StepPlaces
    <2> QED BY <2>1, <2>2
  <1>4. ToSet(sent') \subseteq Msgs
    BY <1>1 DEF WsTypeOK, ToSet
  <1> QED BY <1>1, <1>3, <1>4 DEF WsInv, NothingDroppedByClient, NothingInvented

\* The invariant that the other results rest on, for every set of messages and
\* every length of the schedule of delays.
THEOREM WsInvariance == WsSpec => []WsInv
  <1>1. WsInit => WsInv
    BY InitWsInv
  <1>2. WsInv /\ [WsNext]_wsVars => WsInv'
    BY WsInvKept
  <1> QED BY <1>1, <1>2, PTL DEF WsSpec

\* backoff_index and the delay it selects never leave the schedule.
THEOREM WsTypeCorrect == WsSpec => []WsTypeOK
  <1>1. WsInv => WsTypeOK
    BY DEF WsInv
  <1> QED BY <1>1, WsInvariance, PTL

\* The durable queue and its flush, which runs while coroutines go on calling
\* send(), neither drop nor duplicate a message.
THEOREM NothingDropped == WsSpec => []NothingDroppedByClient
  <1>1. WsInv => NothingDroppedByClient
    BY DEF WsInv
  <1> QED BY <1>1, WsInvariance, PTL

\* After the flush an open connection has nothing left behind in the queue.
THEOREM QueueIsEmptied == WsSpec => []NothingStranded
  <1>1. WsInv => NothingStranded
    BY DEF WsInv, FlushTakesAll, NothingStranded
  <1> QED BY <1>1, WsInvariance, PTL
=============================================================================
