----------------------------- MODULE AgentTasks -----------------------------
(***************************************************************************)
(* The three tasks of Agent.run (core/agent.py) and what they share: the   *)
(* connection, the printer list at the hub and status.json, the file that  *)
(* `eres-print-agent status` shows.  The connection loop sends the list    *)
(* when it authenticated (sync_now), run_periodic_sync sends it again when *)
(* it changed or as a keep-alive, and _heartbeat_loop rewrites status.json *)
(* (core/printer_sync.py, status_store.py).                                *)
(*                                                                         *)
(* Discovery runs in a pool thread, so a list can be old when it is sent.  *)
(* The list is not durable: without a socket it is dropped.  The inner     *)
(* life of a connection is in WsClient; here it is one variable.           *)
(***************************************************************************)
CONSTANTS
  Lists,    \* what discover() can return
  NoList    \* None: nothing discovered, sent or received yet

ASSUME ListsAssumption == NoList \notin Lists

VARIABLES
  printers,    \* the printers of this machine
  link,        \* the socket: "none", "alive", "dead" (takes data, delivers none), "closed"
  conn,        \* where run_forever stands
  greeting,    \* the list sync_now discovered
  connected,   \* ws_client.connected
  beat,        \* where _heartbeat_loop stands
  check,       \* where run_periodic_sync stands
  found,       \* the list it discovered
  lastSent,    \* last_sent
  due,         \* has interval_seconds passed since last_sent_at?
  hubList,     \* the list the hub has
  snapshot,    \* "connection" in status.json
  stop         \* stop_event

connVars == <<link, conn, greeting, connected>>
syncVars == <<check, found, lastSent, due>>
tasksVars == <<printers, connVars, beat, syncVars, hubList, snapshot, stop>>

\* The shape of the state; `connected` is set exactly while there is an
\* authenticated connection.
TasksTypeOK ==
  /\ printers \in Lists
  /\ link \in {"none", "alive", "dead", "closed"}
  /\ conn \in {"down", "connecting", "flush", "discover", "sync_send", "receive"}
  /\ beat \in {"wait", "send", "ended"}
  /\ check \in {"wait", "discover", "send", "ended"}
  /\ greeting \in Lists \cup {NoList} /\ found \in Lists \cup {NoList}
  /\ lastSent \in Lists \cup {NoList} /\ hubList \in Lists \cup {NoList}
  /\ connected \in BOOLEAN /\ due \in BOOLEAN /\ stop \in BOOLEAN
  /\ snapshot \in {"connected", "disconnected"}
  /\ connected <=> conn \notin {"down", "connecting"}

\* run() writes the first snapshot.  last_sent_at = 0.0 may or may not be long
\* ago on the loop's clock.
TasksInit ==
  /\ printers \in Lists /\ due \in BOOLEAN
  /\ link = "none" /\ conn = "down" /\ connected = FALSE
  /\ beat = "wait" /\ check = "wait"
  /\ greeting = NoList /\ found = NoList /\ lastSent = NoList /\ hubList = NoList
  /\ snapshot = "disconnected" /\ stop = FALSE

\* send(list), not durable: the hub gets it, or it is gone.
SendList(list) == hubList' = IF link = "alive" THEN list ELSE hubList

-----------------------------------------------------------------------------
(* run_forever with _on_authenticated and _on_disconnected. *)

Connects ==
  /\ conn = "down" /\ ~stop
  /\ conn' = "connecting"
  /\ UNCHANGED <<printers, link, greeting, connected, beat, syncVars, hubList, snapshot, stop>>

\* Variant: _on_disconnected only after a connection that was up.
ConnectingFails_NoSnapshot ==
  /\ conn = "connecting"
  /\ conn' = "down"
  /\ UNCHANGED <<printers, link, greeting, connected, beat, syncVars, hubList, snapshot, stop>>

\* Not reached, no answer or rejected: each attempt ends in _on_disconnected.
ConnectingFails ==
  /\ conn = "connecting"
  /\ conn' = "down" /\ snapshot' = "disconnected"
  /\ UNCHANGED <<printers, link, greeting, connected, beat, syncVars, hubList, stop>>

Authenticates ==
  /\ conn = "connecting"
  /\ conn' = "flush" /\ link' = "alive" /\ connected' = TRUE
  /\ UNCHANGED <<printers, greeting, beat, syncVars, hubList, snapshot, stop>>

\* Variant: status.json is left to the next heartbeat.
Greet_NoSnapshot ==
  /\ conn = "flush"
  /\ conn' = "discover"
  /\ UNCHANGED <<printers, link, greeting, connected, beat, syncVars, hubList, snapshot, stop>>

\* _on_authenticated up to the discovery of sync_now.
Greet ==
  /\ conn = "flush"
  /\ conn' = "discover" /\ snapshot' = "connected"
  /\ UNCHANGED <<printers, link, greeting, connected, beat, syncVars, hubList, stop>>

GreetingDiscovers ==
  /\ conn = "discover"
  /\ conn' = "sync_send" /\ greeting' = printers
  /\ UNCHANGED <<printers, link, connected, beat, syncVars, hubList, snapshot, stop>>

\* sync_now swallows a failed discovery and sends nothing.
GreetingFails ==
  /\ conn = "discover"
  /\ conn' = "receive"
  /\ UNCHANGED <<printers, link, greeting, connected, beat, syncVars, hubList, snapshot, stop>>

GreetingSends ==
  /\ conn = "sync_send"
  /\ SendList(greeting)
  /\ conn' = "receive" /\ greeting' = NoList
  /\ UNCHANGED <<printers, link, connected, beat, syncVars, snapshot, stop>>

\* Variant: without connected.clear().
Disconnects_StaysConnected ==
  /\ conn = "receive" /\ link = "closed"
  /\ conn' = "down" /\ link' = "none"
  /\ snapshot' = "disconnected"
  /\ UNCHANGED <<printers, greeting, connected, beat, syncVars, hubList, stop>>

\* `async for` ends with the socket: the `finally` and _on_disconnected.
Disconnects ==
  /\ conn = "receive" /\ link = "closed"
  /\ conn' = "down" /\ link' = "none" /\ connected' = FALSE
  /\ snapshot' = "disconnected"
  /\ UNCHANGED <<printers, greeting, beat, syncVars, hubList, stop>>

ConnectionStep ==
  \/ Connects \/ ConnectingFails
  \/ Greet \/ GreetingDiscovers \/ GreetingFails \/ GreetingSends \/ Disconnects

-----------------------------------------------------------------------------
(* _heartbeat_loop. *)

\* The wait is over.  When connected, the usage sample (a pool thread) and the
\* send are awaited before the snapshot is written.
HeartbeatDue ==
  /\ beat = "wait" /\ (connected \/ stop)
  /\ beat' = IF stop THEN "ended" ELSE "send"
  /\ UNCHANGED <<printers, connVars, syncVars, hubList, snapshot, stop>>

HeartbeatSent ==
  /\ beat = "send"
  /\ beat' = "wait" /\ snapshot' = "connected"
  /\ UNCHANGED <<printers, connVars, syncVars, hubList, stop>>

-----------------------------------------------------------------------------
(* run_periodic_sync. *)

CheckDue ==
  /\ check = "wait"
  /\ \/ stop /\ check' = "ended" /\ UNCHANGED lastSent
     \/ ~stop /\ connected /\ check' = "discover" /\ UNCHANGED lastSent
     \/ ~stop /\ ~connected /\ lastSent' = NoList /\ UNCHANGED check
  /\ UNCHANGED <<printers, connVars, beat, found, due, hubList, snapshot, stop>>

CheckDiscovers ==
  /\ check = "discover"
  /\ check' = "send" /\ found' = printers
  /\ UNCHANGED <<printers, connVars, beat, lastSent, due, hubList, snapshot, stop>>

CheckFails ==
  /\ check = "discover"
  /\ check' = "wait"
  /\ UNCHANGED <<printers, connVars, beat, found, lastSent, due, hubList, snapshot, stop>>

\* The list changed or the keep-alive is due (variant: no keep-alive).
NeedsSync_NoKeepAlive == found # lastSent
NeedsSync == found # lastSent \/ due

\* last_sent is set whether or not the socket took the message.
CheckSends ==
  /\ check = "send"
  /\ check' = "wait" /\ found' = NoList
  /\ IF NeedsSync
     THEN SendList(found) /\ lastSent' = found /\ due' = FALSE
     ELSE UNCHANGED <<hubList, lastSent, due>>
  /\ UNCHANGED <<printers, connVars, beat, snapshot, stop>>

IntervalElapses ==
  /\ ~due
  /\ due' = TRUE
  /\ UNCHANGED <<printers, connVars, beat, check, found, lastSent, hubList, snapshot, stop>>

-----------------------------------------------------------------------------
(* The environment, and Agent.stop. *)

PrintersChange ==
  /\ printers' \in Lists \ {printers}
  /\ UNCHANGED <<connVars, beat, syncVars, hubList, snapshot, stop>>

\* A connection dies before its socket notices.
LinkFails ==
  /\ \/ link = "alive" /\ link' = "dead"
     \/ link \in {"alive", "dead"} /\ link' = "closed"
  /\ UNCHANGED <<printers, conn, greeting, connected, beat, syncVars, hubList, snapshot, stop>>

StopAgent ==
  /\ ~stop
  /\ stop' = TRUE
  /\ UNCHANGED <<printers, connVars, beat, syncVars, hubList, snapshot>>

-----------------------------------------------------------------------------
TasksNext ==
  \/ Authenticates \/ ConnectionStep
  \/ HeartbeatDue \/ HeartbeatSent
  \/ CheckDue \/ CheckDiscovers \/ CheckFails \/ CheckSends \/ IntervalElapses
  \/ PrintersChange \/ LinkFails \/ StopAgent

\* The event loop runs every ready task and time passes; nobody promises that
\* the hub answers.  A discovery tried again and again succeeds in the end.
TasksSpec ==
  /\ TasksInit /\ [][TasksNext]_tasksVars
  /\ WF_tasksVars(ConnectionStep) /\ WF_tasksVars(HeartbeatSent)
  /\ WF_tasksVars(CheckDue) /\ SF_tasksVars(CheckDiscovers) /\ WF_tasksVars(CheckSends)
  /\ WF_tasksVars(IntervalElapses)

-----------------------------------------------------------------------------
(* Properties. *)

\* ERES ends up with the real list: once the printers, the connection and the
\* agent stay as they are, the hub has the current list for good, although
\* sync_now and run_periodic_sync race with discoveries of different age, lists
\* are lost with connections and a discovery at connect may fail.
HubSeesPrinters ==
  \A list \in Lists :
    <>[](printers = list /\ link = "alive" /\ ~stop) => <>[](hubList = list)

\* `status` never calls a working connection disconnected: from _on_authenticated
\* until the connection is given up the file says connected.
OnlineIsShown ==
  conn \in {"discover", "sync_send", "receive"} => snapshot = "connected"

\* `status` does not call the agent online for ever when it is not: a heartbeat that
\* checked `connected` before the loss writes "connected" after _on_disconnected wrote
\* "disconnected", and only the next failed attempt puts that right.
OfflineShownInTheEnd == <>[](~connected /\ ~stop) => <>[](snapshot = "disconnected")
=============================================================================
