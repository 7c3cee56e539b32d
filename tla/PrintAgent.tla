----------------------------- MODULE PrintAgent -----------------------------
(***************************************************************************)
(* core/agent.py puts JobWorker and WsClient together: job coroutines and  *)
(* the inbound handler hand their events to the one connection, and the    *)
(* connection loop runs the handler and waits for it.  At the other end is *)
(* the hub with web/'s record of every job, modelled from state_machine.py *)
(* ("web/ is the authoritative record and will reject anything illegal")   *)
(* and README.md (jobs still QUEUED are dispatched again at authenticate). *)
(***************************************************************************)
EXTENDS JobWorkerProps, Sequences, SequencesExt

CONSTANTS
  ScheduleLen, HandshakeErrors,
  MaxCrashes,     \* bound: crashes of the agent
  MaxOutages      \* bound: times the network goes away

ASSUME AgentAssumption ==
  /\ ScheduleLen \in Nat \ {0} /\ HandshakeErrors \in BOOLEAN
  /\ MaxCrashes \in Nat /\ MaxOutages \in Nat

VARIABLES
  loop, open, net, queue, pending, wire, hub, lost, sent, backoff, delay, stop,
  hubStatus,      \* web/'s status of each job
  offered,        \* jobs the hub dispatches on the current connection
  rejected,       \* events web/ refused as illegal transitions
  crashes, outages

W == INSTANCE WsClient WITH Msgs <- Jobs \X Events

linkVars ==
  <<loop, open, net, queue, pending, wire, hub, lost, sent, backoff, delay, stop>>
hubVars == <<hubStatus, offered, rejected>>
bounds == <<crashes, outages>>
agentVars == <<vars, linkVars, hubVars, bounds>>

EventStatus ==
  [ received |-> "RECEIVED", started |-> "PRINTING", completed |-> "COMPLETED",
    failed |-> "FAILED", cancelled |-> "CANCELLED" ]

AgentTypeOK ==
  /\ TypeOK /\ W!WsTypeOK
  /\ hubStatus \in [Jobs -> Status]
  /\ offered \subseteq Jobs
  /\ rejected \subseteq Jobs \X Events
  /\ crashes \in 0..MaxCrashes /\ outages \in 0..MaxOutages

AgentInit ==
  /\ Init /\ W!WsInit
  /\ hubStatus = [j \in Jobs |-> "QUEUED"]
  /\ offered = {} /\ rejected = {}
  /\ crashes = 0 /\ outages = 0

-----------------------------------------------------------------------------
(* Steps of the pipeline that report an event, and the others. *)

Verdict(j) == IF pc[j] = "update_COMPLETED" THEN "completed" ELSE "failed"

\* handle_dispatch acknowledges a new job (variant: it does not).
AcknowledgeJob_Silent == Acknowledge /\ UNCHANGED linkVars
AcknowledgeJob == Acknowledge /\ W!Send(<<target, "received">>)

Report ==
  /\ \/ \E j \in Jobs : PrintingStored(j) /\ W!Send(<<j, "started">>)
     \/ \E j \in Jobs : VerdictStored(j) /\ W!Send(<<j, Verdict(j)>>)
     \/ \E j \in Jobs : ReportStuck(j) /\ W!Send(<<j, "failed">>)
     \/ AcknowledgeJob
     \/ resend_terminal_event /\ W!Send(<<target, VerdictEvent[seen]>>)
     \/ SendCancelled /\ W!Send(<<target, "cancelled">>)
  /\ UNCHANGED <<hubVars, bounds>>

Work ==
  /\ \/ \E j \in Jobs :
          \/ ReadRecord(j) \/ DownloadOpens(j) \/ DownloadEnds(j) \/ DownloadFails(j)
          \/ PathStored(j) \/ PrinterAnswers(j) \/ WaitingStored(j) \/ Slept(j)
          \/ StartedSent(j) \/ PrintReturns(j) \/ VerdictSent(j)
          \/ ThreadStep(j)
     \/ HandlerReads \/ DispatchDecides \/ insert_received \/ CancelDecides \/ CancelStored
     \/ mark_stuck_printing_as_failed \/ ResumeJobs
  /\ UNCHANGED <<linkVars, hubVars, bounds>>

-----------------------------------------------------------------------------
(* The connection.  run_forever starts after recovery, and does not look at *)
(* the socket while an inbound message is being handled.                    *)

Connection ==
  /\ phase = "run"
  /\ handler = "idle"
  /\ W!RunForever
  /\ offered' = IF loop = "authenticate" /\ loop' = "flush"
                THEN {j \in Jobs : hubStatus[j] = "QUEUED"}
                ELSE IF loop' \in {"flush", "sync", "receive"} THEN offered ELSE {}
  /\ UNCHANGED <<vars, hubStatus, rejected, bounds>>

\* `async for raw in socket`: the next message of an open connection.
Dispatch(j) ==
  /\ loop = "receive" /\ open /\ j \in offered
  /\ ReceiveDispatch(j)
  /\ offered' = offered \ {j}
  /\ UNCHANGED <<linkVars, hubStatus, rejected, bounds>>

Cancel(j) ==
  /\ loop = "receive" /\ open
  /\ hubStatus[j] \in {"QUEUED", "RECEIVED"}
  /\ ReceiveCancel(j)
  /\ UNCHANGED <<linkVars, hubVars, bounds>>

\* web/ applies an event or rejects it.
HubReceives ==
  /\ W!Deliver
  /\ LET j == Head(wire)[1]
         s == EventStatus[Head(wire)[2]]
     IN  IF is_legal_transition(hubStatus[j], s)
         THEN hubStatus' = [hubStatus EXCEPT ![j] = s] /\ UNCHANGED rejected
         ELSE rejected' = rejected \cup {Head(wire)} /\ UNCHANGED hubStatus
  /\ UNCHANGED <<vars, offered, bounds>>

Network ==
  /\ W!NetChanges \/ W!Drop
  /\ net /\ ~net' => outages < MaxOutages
  /\ outages' = IF net /\ ~net' THEN outages + 1 ELSE outages
  /\ UNCHANGED <<vars, hubVars, crashes>>

\* The durable queue lives in memory: it dies with the process.
AgentCrash ==
  /\ crashes < MaxCrashes
  /\ Crash
  /\ crashes' = crashes + 1
  /\ loop' = "connect" /\ open' = FALSE
  /\ queue' = <<>> /\ pending' = <<>> /\ wire' = <<>>
  /\ lost' = lost \cup ToSet(queue) \cup ToSet(pending) \cup ToSet(wire)
  /\ backoff' = 0 /\ delay' = 0
  /\ offered' = {}
  /\ UNCHANGED <<net, hub, sent, stop, hubStatus, rejected, outages>>

AgentNext ==
  \/ Report \/ Work \/ Connection \/ HubReceives \/ Network \/ AgentCrash
  \/ \E j \in Jobs : Dispatch(j)
  \/ \E j \in Cancellable : Cancel(j)

\* The event loop and the pool run what is ready, a reachable hub reads what
\* it is sent and sends what it offers.
AgentSpec ==
  /\ AgentInit /\ [][AgentNext]_agentVars
  /\ WF_agentVars(Report) /\ WF_agentVars(Work) /\ WF_agentVars(Connection)
  /\ WF_agentVars(HubReceives)
  /\ \A j \in Jobs : WF_agentVars(Dispatch(j))

-----------------------------------------------------------------------------
(* Properties. *)

\* web/ never believes more than is true: a job it shows as finished has that
\* verdict in the agent's queue (unless a cancel wrote over it), and one it shows
\* as completed was printed, whatever is lost, overtaken, rejected or resent.
HubTellsTheTruth ==
  \A j \in Jobs :
    /\ hubStatus[j] \in TERMINAL_STATUSES =>
         \/ status[j] = hubStatus[j]
         \/ status[j] = "CANCELLED" \/ "cancelled" \in emitted[j]
    /\ hubStatus[j] = "COMPLETED" => printed[j] = 1

\* What makes it so.  Nothing is on its way to web/ that was not emitted, and web/
\* shows nothing that was not.
Told == {m \in Jobs \X Events : m[2] \in emitted[m[1]]}
OnlyEmittedIsSent == queue \in Seq(Told) /\ pending \in Seq(Told) /\ wire \in Seq(Told)
HubFollowsEvents ==
  \A j \in Jobs : hubStatus[j] = "QUEUED" \/ \E e \in emitted[j] : hubStatus[j] = EventStatus[e]

\* Nothing that was emitted is dropped silently: it is on its way to web/, there, or was
\* lost with a connection or with the process.
Somewhere == ToSet(queue) \cup ToSet(pending) \cup ToSet(wire) \cup ToSet(hub) \cup lost
NothingForgotten == Told \subseteq Somewhere

\* A verdict that was told stays in the queue, or CANCELLED is written over it: the
\* coroutine has nothing left to write, and nobody starts another one.
VerdictKept(j) ==
  /\ "completed" \in emitted[j] => status[j] \in {"COMPLETED", "CANCELLED"}
  /\ "failed" \in emitted[j] => status[j] \in {"FAILED", "CANCELLED"}
  /\ emitted[j] \cap {"completed", "failed"} # {} =>
       /\ thread[j] \notin UpdateOps
       /\ pc[j] \in {"none", "send_verdict", "update_COMPLETED", "update_FAILED"}

\* The verdict that a repeated dispatch found is still the one in the queue.
ResendIsCurrent ==
  handler \in {"dispatch_seen", "resend"} /\ seen \in {"COMPLETED", "FAILED"} =>
    status[target] = seen

\* The inductive invariant: that of the pipeline, and what was told, kept and applied
\* on top of it.
AgentInv ==
  /\ IInv /\ AgentTypeOK
  /\ OnlyEmittedIsSent /\ HubFollowsEvents /\ NothingForgotten /\ W!FlushTakesAll
  /\ (\A j \in Jobs : VerdictKept(j)) /\ ResendIsCurrent

\* Between two messages of a working connection, web/ has every event of every job, or
\* the socket has: none waits in the agent for the next connection, except what a
\* connection or a process took with it.
OnlineTellsAll ==
  loop \in {"sync", "receive"} /\ open =>
    Told \subseteq ToSet(wire) \cup ToSet(hub) \cup lost

\* Without crash, outage and cancel the verdict of every job reaches web/.
HubLearnsVerdict ==
  [](crashes = 0 /\ outages = 0 /\ cancelReq = {}) =>
    \A j \in Jobs : <>(hubStatus[j] \in {"COMPLETED", "FAILED"})

\* Violated.  web/ accepts what the agent reports.
HubAcceptsAll == rejected = {}
=============================================================================
