------------------------------ MODULE WsClient ------------------------------
(***************************************************************************)
(* net/ws_client.py: the connection loop run_forever and the durable       *)
(* messages (print.job.* events) that job coroutines hand to send().       *)
(*                                                                         *)
(* send() only learns that the socket took a message.  What the hub got is *)
(* kept apart: a message in `wire` was taken by the socket and reaches the *)
(* hub or is lost with the connection.  Heartbeats and printer lists are   *)
(* not durable and are left out: they are dropped when not connected.      *)
(***************************************************************************)
EXTENDS Naturals, Sequences, FiniteSets, SequencesExt

CONSTANTS
  Msgs,             \* durable messages
  ScheduleLen,      \* Len(RECONNECT_BACKOFF_SCHEDULE)
  HandshakeErrors   \* may websockets.connect raise InvalidHandshake?

ASSUME WsAssumption == ScheduleLen \in Nat \ {0} /\ HandshakeErrors \in BOOLEAN

VARIABLES
  loop,      \* where run_forever stands
  open,      \* is the websocket open, as its own protocol object sees it?
  net,       \* can the hub be reached, and does it accept the credentials?
  queue,     \* _durable_queue
  pending,   \* what _flush_durable_queue still has to send
  wire,      \* taken by the socket, not yet at the hub
  hub,       \* what the hub received, in order
  lost,      \* what went down with a connection
  sent,      \* messages handed to send(), in order
  backoff,   \* backoff_index, which stops mattering at ScheduleLen
  delay,     \* index into the schedule of the delay being waited
  stop       \* _stop_event

wsVars == <<loop, open, net, queue, pending, wire, hub, lost, sent, backoff, delay, stop>>
traffic == <<queue, pending, wire, hub, lost, sent>>

\* "sync" is _on_authenticated: the printer list is sent before the first
\* inbound message is read.
LoopPoints ==
  {"connect", "authenticate", "flush", "sync", "receive", "backoff", "ended",
   "crashed"}

\* self._socket is not None.
HasSocket == loop \in {"authenticate", "flush", "sync", "receive"}

WsTypeOK ==
  /\ loop \in LoopPoints
  /\ open \in BOOLEAN /\ net \in BOOLEAN /\ stop \in BOOLEAN
  /\ queue \in Seq(Msgs) /\ pending \in Seq(Msgs) /\ wire \in Seq(Msgs)
  /\ hub \in Seq(Msgs) /\ sent \in Seq(Msgs)
  /\ lost \in SUBSET Msgs
  /\ backoff \in 0..ScheduleLen
  /\ delay \in 0..(ScheduleLen - 1)

WsInit ==
  /\ loop = "connect"
  /\ open = FALSE /\ net = TRUE /\ stop = FALSE
  /\ queue = <<>> /\ pending = <<>> /\ wire = <<>> /\ hub = <<>> /\ sent = <<>>
  /\ lost = {}
  /\ backoff = 0 /\ delay = 0

-----------------------------------------------------------------------------
(* Sending. *)

\* Variant: a message the socket refuses is dropped.
Transmit_Drop(m) ==
  /\ wire' = IF HasSocket /\ open THEN Append(wire, m) ELSE wire
  /\ UNCHANGED queue

\* send(m, durable=True): the socket takes it, or it is queued.
Transmit(m) ==
  IF HasSocket /\ open
  THEN wire' = Append(wire, m) /\ UNCHANGED queue
  ELSE queue' = Append(queue, m) /\ UNCHANGED wire

\* A job coroutine reports an event.
Send(m) ==
  /\ Transmit(m)
  /\ sent' = Append(sent, m)
  /\ UNCHANGED <<loop, open, net, pending, hub, lost, backoff, delay, stop>>

\* The hub reads from an authenticated connection.
Deliver ==
  /\ loop \in {"flush", "sync", "receive"} /\ open /\ wire # <<>>
  /\ hub' = Append(hub, Head(wire))
  /\ wire' = Tail(wire)
  /\ UNCHANGED <<loop, open, net, queue, pending, lost, sent, backoff, delay, stop>>

-----------------------------------------------------------------------------
(* run_forever. *)

\* min(backoff_index, len(SCHEDULE) - 1) (variant: the index itself).
DelayIndex_NoMin == backoff
DelayIndex == IF backoff < ScheduleLen THEN backoff ELSE ScheduleLen - 1

\* The connection is given up: the `finally`, then the end of the loop or the
\* wait before the next attempt.
GiveUp ==
  /\ open' = FALSE
  /\ loop' = IF stop THEN "ended" ELSE "backoff"
  /\ IF stop
     THEN UNCHANGED <<backoff, delay>>
     ELSE /\ delay' = DelayIndex
          /\ backoff' = IF backoff < ScheduleLen THEN backoff + 1 ELSE backoff

\* Whatever the socket had taken and the hub had not read is gone.
LoseWire ==
  /\ lost' = lost \cup ToSet(wire)
  /\ wire' = <<>>

\* websockets.connect succeeds and the authenticate message goes out.
Connect ==
  /\ loop = "connect" /\ net
  /\ loop' = "authenticate" /\ open' = TRUE
  /\ UNCHANGED <<net, traffic, backoff, delay, stop>>

ConnectFails ==
  /\ loop = "connect" /\ ~net
  /\ GiveUp
  /\ UNCHANGED <<net, traffic, stop>>

\* The opening handshake gets an HTTP error (a proxy's 502) or is cut short:
\* websockets raises an InvalidHandshake, which is no ConnectionClosed, OSError
\* or TimeoutError, so run_forever and with it Agent.run end.
ConnectRaises ==
  /\ loop = "connect" /\ ~net /\ HandshakeErrors
  /\ loop' = "crashed"
  /\ UNCHANGED <<open, net, traffic, backoff, delay, stop>>

\* Variant: the queue is left alone.
Authenticated_NoFlush ==
  /\ loop = "authenticate" /\ open /\ net
  /\ loop' = "flush"
  /\ backoff' = 0
  /\ UNCHANGED <<open, net, traffic, delay, stop>>

\* Accepted: reset the backoff and take the queue over for flushing.
Authenticated ==
  /\ loop = "authenticate" /\ open /\ net
  /\ loop' = "flush"
  /\ backoff' = 0
  /\ pending' = queue /\ queue' = <<>>
  /\ UNCHANGED <<open, net, wire, hub, lost, sent, delay, stop>>

\* Rejected, or no answer within the time-out.
NotAuthenticated ==
  /\ loop = "authenticate" /\ open /\ ~net
  /\ GiveUp
  /\ LoseWire
  /\ UNCHANGED <<net, queue, pending, hub, sent, stop>>

\* _flush_durable_queue goes on after a failure: send() queues the rest again.
FlushOne ==
  /\ loop = "flush" /\ pending # <<>>
  /\ Transmit(Head(pending))
  /\ pending' = Tail(pending)
  /\ UNCHANGED <<loop, open, net, hub, lost, sent, backoff, delay, stop>>

FlushDone ==
  /\ loop = "flush" /\ pending = <<>>
  /\ loop' = "sync"
  /\ UNCHANGED <<open, net, traffic, backoff, delay, stop>>

Synced ==
  /\ loop = "sync"
  /\ loop' = "receive"
  /\ UNCHANGED <<open, net, traffic, backoff, delay, stop>>

\* A closed socket ends recv() and `async for`; the flush does not look.
NoticeClosed ==
  /\ loop \in {"authenticate", "receive"} /\ ~open
  /\ GiveUp
  /\ UNCHANGED <<net, traffic, stop>>

\* while not self._stop_event.is_set() (variant: the event is not looked at).
AfterBackoff_IgnoresStop == "connect"
AfterBackoff == IF stop THEN "ended" ELSE "connect"

\* The delay elapsed or the stop event cut it short.
BackoffOver ==
  /\ loop = "backoff"
  /\ loop' = AfterBackoff
  /\ UNCHANGED <<open, net, traffic, backoff, delay, stop>>

RunForever ==
  \/ Connect \/ ConnectFails \/ ConnectRaises \/ Authenticated \/ NotAuthenticated
  \/ FlushOne \/ FlushDone \/ Synced \/ NoticeClosed \/ BackoffOver

Stop ==
  /\ ~stop
  /\ stop' = TRUE
  /\ UNCHANGED <<loop, open, net, traffic, backoff, delay>>

-----------------------------------------------------------------------------
(* The network. *)

NetChanges ==
  /\ net' = ~net
  /\ UNCHANGED <<loop, open, traffic, backoff, delay, stop>>

\* The connection breaks: the socket closes and its traffic is lost.
Drop ==
  /\ HasSocket /\ open /\ ~net
  /\ open' = FALSE
  /\ LoseWire
  /\ UNCHANGED <<loop, net, queue, pending, hub, sent, backoff, delay, stop>>

-----------------------------------------------------------------------------
WsNext ==
  \/ \E m \in Msgs \ ToSet(sent) : Send(m)
  \/ Deliver
  \/ RunForever
  \/ Stop
  \/ NetChanges
  \/ Drop

\* The event loop keeps running run_forever, and a reachable hub reads what it
\* is sent.  Nobody promises that the network comes back or stays.
WsSpec == WsInit /\ [][WsNext]_wsVars /\ WF_wsVars(RunForever) /\ WF_wsVars(Deliver)

-----------------------------------------------------------------------------
(* Properties. *)

\* How often a message is in a queue, and in all places together.
Count(m, q) == Cardinality({i \in 1..Len(q) : q[i] = m})
Places(m) ==
  Count(m, queue) + Count(m, pending) + Count(m, wire) + Count(m, hub)
  + (IF m \in lost THEN 1 ELSE 0)

\* The client itself neither drops nor duplicates a durable message: each one
\* handed to send() is at exactly one place, whatever connects, breaks or is
\* rejected while the queue is being flushed.
NothingDroppedByClient == \A m \in ToSet(sent) : Places(m) = 1

\* No event waits in the queue while the connection works: after the flush, an
\* open socket means an empty queue, so nothing needs a second reconnect.
NothingStranded ==
  loop \in {"sync", "receive"} /\ open => queue = <<>> /\ pending = <<>>

\* What makes it so: a message that nobody sent is nowhere.
NothingInvented == \A m \in Msgs \ ToSet(sent) : Places(m) = 0

\* Only an open socket is written to, and what the queue held when the connection
\* was authenticated is all in the flush.
FlushTakesAll ==
  /\ open => HasSocket
  /\ loop # "flush" => pending = <<>>
  /\ loop \in {"flush", "sync", "receive"} /\ open => queue = <<>>

\* The inductive invariant: backoff_index stays in the schedule, every message handed
\* to send() is at one place and no other message anywhere, and the queue of an open
\* connection was taken over by the flush.
WsInv == WsTypeOK /\ NothingDroppedByClient /\ NothingInvented /\ FlushTakesAll

\* Once the hub stays reachable, nobody stops the agent and the loop has not died
\* of a handshake error, every event not lost with a connection reaches the hub.
QueuedIsDelivered ==
  <>[](net /\ ~stop /\ loop # "crashed") =>
    \A m \in Msgs : m \in ToSet(sent) ~> m \in ToSet(hub) \cup lost

\* A stop during an outage ends the loop: it neither waits out the delay nor
\* connects again.
StopEndsOutage ==
  (stop /\ loop = "backoff") ~> loop = "ended"
=============================================================================
