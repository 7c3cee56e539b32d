-------------------------- MODULE PrintAgentProofs --------------------------
(***************************************************************************)
(* PrintAgent: the pipeline, the connection and web/'s record together.    *)
(* Every step of the agent is a step of JobWorker or leaves it alone, so   *)
(* IInv holds here as well; on top of it, what is on its way to web/ and   *)
(* what web/ made of it were emitted, and a verdict that was emitted is    *)
(* never taken back by a later write.                                      *)
(***************************************************************************)
EXTENDS PrintAgent, JobWorkerProofs, TLAPS

-----------------------------------------------------------------------------
(* The pipeline inside the agent. *)

\* Every step of the agent is one of the pipeline, or none of its business.
LEMMA AgentStepIsNext ==
  ASSUME [AgentNext]_agentVars
  PROVE  [Next]_vars
  <1>1. CASE Report
    BY <1>1 DEF Report, AcknowledgeJob, Next, TaskStep, HandlerStep, Recovery
  <1>2. CASE Work
    BY <1>2 DEF Work, Next, TaskStep, HandlerStep, Recovery
  <1>3. CASE Connection \/ HubReceives \/ Network
    BY <1>3 DEF Connection, HubReceives, Network
  <1>4. CASE AgentCrash
    BY <1>4 DEF AgentCrash, Next
  <1>5. ASSUME NEW j \in Jobs, Dispatch(j) PROVE Next
    BY <1>5 DEF Dispatch, Next
  <1>6. ASSUME NEW j \in Cancellable, Cancel(j) PROVE Next
    BY <1>6 DEF Cancel, Next
  <1>7. CASE UNCHANGED agentVars
    BY <1>7 DEF agentVars
  <1> QED BY <1>1, <1>2, <1>3, <1>4, <1>5, <1>6, <1>7 DEF AgentNext

\* Events are never taken back.
LEMMA EmittedGrows ==
  ASSUME IInv, [Next]_vars, NEW j \in Jobs
  PROVE  emitted[j] \subseteq emitted'[j]
  <1>0. emitted \in [Jobs -> SUBSET Events]
    BY DEF IInv, TypeOK
  <1>1. ASSUME NEW k \in Jobs, TaskStep(k) PROVE emitted[j] \subseteq emitted'[j]
    BY <1>0, <1>1 DEF TaskStep, ReadRecord, DownloadOpens, DownloadEnds, DownloadFails, PathStored,
            PrinterAnswers, WaitingStored, Slept, PrintingStored, StartedSent, PrintReturns,
            VerdictStored, VerdictSent, emit
  <1>2. ASSUME NEW k \in Jobs, ThreadStep(k) \/ TaskRaises(k) PROVE UNCHANGED emitted
    BY <1>2 DEF ThreadStep, RunUpdate, RunSetPath, RunPrint, TaskRaises
  <1>3. CASE HandlerStep
    BY <1>0, <1>3 DEF HandlerStep, HandlerReads, DispatchDecides, insert_received, Acknowledge,
            resend_terminal_event, CancelDecides, CancelStored, SendCancelled, emit
  <1>4. CASE Recovery \/ Crash
    BY <1>0, <1>4 DEF Recovery, mark_stuck_printing_as_failed, ReportStuck, ResumeJobs, Crash, emit
  <1>5. ASSUME NEW k \in Jobs, DownloadsCleaned(k) \/ ReceiveDispatch(k) PROVE UNCHANGED emitted
    BY <1>5 DEF DownloadsCleaned, ReceiveDispatch
  <1>6. ASSUME NEW k \in Cancellable, ReceiveCancel(k) PROVE UNCHANGED emitted
    BY <1>6 DEF ReceiveCancel
  <1>7. CASE UNCHANGED vars
    BY <1>7 DEF vars
  <1> QED BY <1>1, <1>2, <1>3, <1>4, <1>5, <1>6, <1>7 DEF Next

-----------------------------------------------------------------------------
(* Verdicts. *)

\* A step that leaves row, coroutine and thread of a job alone and emits nothing.
LEMMA VerdictFrame ==
  ASSUME NEW j \in Jobs, VerdictKept(j), status'[j] = status[j], emitted'[j] = emitted[j],
         pc'[j] = pc[j], thread'[j] = thread[j]
  PROVE  VerdictKept(j)'
  BY DEF VerdictKept

\* A coroutine that has told its verdict only ends; one that tells it has stored it.
LEMMA TaskKeepsVerdict ==
  ASSUME IInv, NEW k \in Jobs, TaskStep(k) \/ TaskRaises(k), NEW j \in Jobs, VerdictKept(j)
  PROVE  VerdictKept(j)'
  <1> USE DEF IInv, TypeOK, JobInv, ThreadInv, StatusInv, Possible, VerdictKept, rows,
          Await, Finish, UnlessCancelled, WaitLoop, Returned, Bookkeeping, Unwind,
          UpdateOps, PoolOps
  <1>1. CASE ReadRecord(k) \/ DownloadOpens(k) \/ DownloadEnds(k) \/ DownloadFails(k)
    BY <1>1 DEF ReadRecord, DownloadOpens, DownloadEnds, DownloadFails
  <1>2. CASE PathStored(k) \/ PrinterAnswers(k) \/ WaitingStored(k) \/ Slept(k)
    BY <1>2 DEF PathStored, PrinterAnswers, WaitingStored, Slept
  <1>3. CASE PrintingStored(k) \/ StartedSent(k) \/ PrintReturns(k)
    BY <1>3 DEF PrintingStored, StartedSent, PrintReturns, emit
  <1>4. CASE VerdictStored(k)
    BY <1>4 DEF VerdictStored, emit
  <1>5. CASE VerdictSent(k)
    BY <1>5 DEF VerdictSent
  <1>6. CASE TaskRaises(k)
    BY <1>6 DEF TaskRaises
  <1> QED BY <1>1, <1>2, <1>3, <1>4, <1>5, <1>6 DEF TaskStep

\* No pool thread of a job writes after its verdict was told.
LEMMA ThreadKeepsVerdict ==
  ASSUME IInv, NEW k \in Jobs, ThreadStep(k), NEW j \in Jobs, VerdictKept(j)
  PROVE  VerdictKept(j)'
  <1> USE DEF IInv, TypeOK, VerdictKept, Outcome, rows, UpdateOps, PoolOps
  <1>1. CASE RunUpdate(k)
    BY <1>1 DEF RunUpdate, update_status
  <1>2. CASE RunSetPath(k)
    BY <1>2 DEF RunSetPath
  <1>3. CASE RunPrint(k)
    BY <1>3 DEF RunPrint
  <1> QED BY <1>1, <1>2, <1>3 DEF ThreadStep

\* The handler starts no coroutine for a job whose verdict was told, and tells
\* again only what is still stored.
LEMMA HandlerKeepsVerdict ==
  ASSUME IInv, ResendIsCurrent, HandlerStep, NEW j \in Jobs, VerdictKept(j)
  PROVE  VerdictKept(j)'
  <1> USE DEF IInv, TypeOK, HandlerInv, rows, taskVars, Bookkeeping
  <1>1. CASE HandlerReads \/ DispatchDecides
    BY <1>1, VerdictFrame DEF HandlerReads, DispatchDecides
  <1>2. CASE insert_received
    BY <1>2 DEF insert_received, VerdictKept, JobInv, PrintInv, NoRow
  <1>3. CASE Acknowledge
    BY <1>3 DEF Acknowledge, VerdictKept, Await, emit
  <1>4. CASE resend_terminal_event
    BY <1>4 DEF resend_terminal_event, VerdictKept, emit, VerdictEvent, ResendIsCurrent,
                is_terminal, TERMINAL_STATUSES, JobInv, StatusInv, ThreadInv, Possible, RESUMABLE,
                UpdateOps, PoolOps, BeforePrinting, TaskPoints
  <1>5. CASE CancelDecides
    BY <1>5 DEF CancelDecides, VerdictKept, Unwind, UpdateOps
  <1>6. CASE CancelStored
    BY <1>6 DEF CancelStored, VerdictKept, update_status
  <1>7. CASE SendCancelled
    BY <1>7 DEF SendCancelled, VerdictKept, emit
  <1> QED BY <1>1, <1>2, <1>3, <1>4, <1>5, <1>6, <1>7 DEF HandlerStep

\* Neither does recovery.
LEMMA RecoveryKeepsVerdict ==
  ASSUME IInv, Recovery \/ Crash, NEW j \in Jobs, VerdictKept(j)
  PROVE  VerdictKept(j)'
  <1> USE DEF IInv, TypeOK, PhaseInv, VerdictKept, rows, taskVars, Bookkeeping, UpdateOps
  <1>1. CASE mark_stuck_printing_as_failed
    BY <1>1 DEF mark_stuck_printing_as_failed, Recovered
  <1>2. ASSUME NEW k \in Jobs, ReportStuck(k) PROVE VerdictKept(j)'
    BY <1>2 DEF ReportStuck, emit
  <1>3. CASE ResumeJobs
    BY <1>3 DEF ResumeJobs, ToResume, RESUMABLE
  <1>4. CASE Crash
    BY <1>4 DEF Crash
  <1> QED BY <1>1, <1>2, <1>3, <1>4 DEF Recovery

\* Together.
LEMMA StepKeepsVerdict ==
  ASSUME IInv, ResendIsCurrent, [Next]_vars, NEW j \in Jobs, VerdictKept(j)
  PROVE  VerdictKept(j)'
  <1>1. ASSUME NEW k \in Jobs, DownloadsCleaned(k) \/ ReceiveDispatch(k)
        PROVE  VerdictKept(j)'
    BY <1>1, VerdictFrame DEF DownloadsCleaned, ReceiveDispatch, rows, taskVars
  <1>2. ASSUME NEW k \in Cancellable, ReceiveCancel(k) PROVE VerdictKept(j)'
    BY <1>2, VerdictFrame DEF ReceiveCancel, rows
  <1>3. CASE UNCHANGED vars
    BY <1>3, VerdictFrame DEF vars, rows, taskVars
  <1> QED
    BY <1>1, <1>2, <1>3, TaskKeepsVerdict, ThreadKeepsVerdict, HandlerKeepsVerdict,
       RecoveryKeepsVerdict DEF Next

\* While the handler decides, the verdict it read stays in the row.
LEMMA StepKeepsResend ==
  ASSUME IInv, ResendIsCurrent, [Next]_vars
  PROVE  ResendIsCurrent'
  <1>1. ASSUME NEW k \in Jobs, RunUpdate(k) PROVE ResendIsCurrent'
    BY <1>1 DEF RunUpdate, update_status, inbound, ResendIsCurrent, IInv, TypeOK, HandlerInv,
            JobInv, StatusInv, Possible, UpdateOps, RESUMABLE
  <1>2. CASE insert_received \/ CancelStored
    BY <1>2 DEF insert_received, CancelStored, ResendIsCurrent
  <1>3. CASE mark_stuck_printing_as_failed
    BY <1>3 DEF mark_stuck_printing_as_failed, inbound, ResendIsCurrent, IInv, PhaseInv
  <1>4. CASE HandlerReads \/ DispatchDecides
    BY <1>4 DEF HandlerReads, DispatchDecides, HandlerIdle, rows, ResendIsCurrent
  <1>5. CASE Acknowledge \/ resend_terminal_event \/ SendCancelled \/ CancelDecides
    BY <1>5 DEF Acknowledge, resend_terminal_event, SendCancelled, CancelDecides, HandlerIdle,
            ResendIsCurrent
  <1>6. ASSUME NEW k \in Jobs, TaskStep(k) PROVE UNCHANGED <<status, inbound>>
    BY <1>6 DEF TaskStep, ReadRecord, DownloadOpens, DownloadEnds, DownloadFails, PathStored,
            PrinterAnswers, WaitingStored, Slept, PrintingStored, StartedSent, PrintReturns,
            VerdictStored, VerdictSent, rows
  <1>7. ASSUME NEW k \in Jobs,
               RunSetPath(k) \/ RunPrint(k) \/ TaskRaises(k) \/ ReportStuck(k) \/ DownloadsCleaned(k)
        PROVE  UNCHANGED <<status, inbound>>
    BY <1>7 DEF RunSetPath, RunPrint, TaskRaises, ReportStuck, DownloadsCleaned, rows
  <1>8. CASE ResumeJobs \/ UNCHANGED vars
    BY <1>8 DEF ResumeJobs, vars, rows, inbound, ResendIsCurrent
  <1>9. ASSUME NEW k, ReceiveDispatch(k) \/ ReceiveCancel(k) PROVE ResendIsCurrent'
    BY <1>9 DEF ReceiveDispatch, ReceiveCancel, ResendIsCurrent
  <1>10. CASE Crash
    BY <1>10 DEF Crash, HandlerIdle, ResendIsCurrent
  <1>11. ASSUME UNCHANGED <<status, inbound>> PROVE ResendIsCurrent'
    BY <1>11 DEF inbound, ResendIsCurrent
  <1> QED BY <1>1, <1>2, <1>3, <1>4, <1>5, <1>6, <1>7, <1>8, <1>9, <1>10, <1>11
      DEF Next, ThreadStep, HandlerStep, Recovery

-----------------------------------------------------------------------------
(* What is on its way to web/. *)

\* A sequence over a set is one over a larger set.
LEMMA SeqGrows ==
  ASSUME NEW S, NEW T, S \subseteq T, NEW q \in Seq(S)
  PROVE  q \in Seq(T)
  <1>1. Len(q) \in Nat /\ q \in [1..Len(q) -> S]
    OBVIOUS
  <1>2. q \in [1..Len(q) -> T]
    BY <1>1
  <1> QED BY <1>1, <1>2

\* Its elements are in the set.
LEMMA ToSetType ==
  ASSUME NEW S, NEW q \in Seq(S)
  PROVE  ToSet(q) \subseteq S /\ W!ToSet(q) \subseteq S
  BY DEF ToSet, W!ToSet

\* What was emitted stays emitted, and is a message.
LEMMA ToldGrows ==
  ASSUME IInv, [Next]_vars
  PROVE  Told \subseteq Told' /\ Told' \subseteq Jobs \X Events
  <1>1. \A j \in Jobs : emitted[j] \subseteq emitted'[j]
    BY EmittedGrows
  <1>2. \A m \in Jobs \X Events : m[1] \in Jobs
    OBVIOUS
  <1> QED BY <1>1, <1>2 DEF Told

\* Queue, flush and socket hold what was emitted when they hold what was emitted
\* before the step.
LEMMA StillEmitted ==
  ASSUME IInv, [Next]_vars,
         queue' \in Seq(Told) /\ pending' \in Seq(Told) /\ wire' \in Seq(Told)
  PROVE  OnlyEmittedIsSent'
  <1> DEFINE S == Told
             T == Told'
  <1>1. S \subseteq T
    BY ToldGrows
  <1>2. queue' \in Seq(S) /\ pending' \in Seq(S) /\ wire' \in Seq(S)
    OBVIOUS
  <1> HIDE DEF S, T
  <1>3. queue' \in Seq(T) /\ pending' \in Seq(T) /\ wire' \in Seq(T)
    BY <1>1, <1>2, SeqGrows
  <1> QED BY <1>3 DEF OnlyEmittedIsSent, T

\* A step that reports hands over an event that it emits.
LEMMA ReportSends ==
  ASSUME IInv, Report
  PROVE  \E m \in Told' : W!Send(m)
  <1> USE DEF IInv, TypeOK, Told, emit, Events
  <1>1. ASSUME NEW j \in Jobs, PrintingStored(j) /\ W!Send(<<j, "started">>)
        PROVE  \E m \in Told' : W!Send(m)
    <2>1. <<j, "started">> \in Told'
      BY <1>1 DEF PrintingStored
    <2> QED BY <1>1, <2>1
  <1>2. ASSUME NEW j \in Jobs, VerdictStored(j) /\ W!Send(<<j, Verdict(j)>>)
        PROVE  \E m \in Told' : W!Send(m)
    <2>1. <<j, Verdict(j)>> \in Told'
      BY <1>2 DEF VerdictStored, Verdict, Returned
    <2> QED BY <1>2, <2>1
  <1>3. ASSUME NEW j \in Jobs, ReportStuck(j) /\ W!Send(<<j, "failed">>)
        PROVE  \E m \in Told' : W!Send(m)
    <2>1. <<j, "failed">> \in Told'
      BY <1>3 DEF ReportStuck
    <2> QED BY <1>3, <2>1
  <1>4. CASE AcknowledgeJob
    <2>1. <<target, "received">> \in Told'
      BY <1>4 DEF AcknowledgeJob, Acknowledge, HandlerInv
    <2> QED BY <1>4, <2>1 DEF AcknowledgeJob
  <1>5. CASE resend_terminal_event /\ W!Send(<<target, VerdictEvent[seen]>>)
    <2>1. <<target, VerdictEvent[seen]>> \in Told'
      BY <1>5 DEF resend_terminal_event, HandlerInv, VerdictEvent, is_terminal, TERMINAL_STATUSES
    <2> QED BY <1>5, <2>1
  <1>6. CASE SendCancelled /\ W!Send(<<target, "cancelled">>)
    <2>1. <<target, "cancelled">> \in Told'
      BY <1>6 DEF SendCancelled, HandlerInv
    <2> QED BY <1>6, <2>1
  <1> QED BY <1>1, <1>2, <1>3, <1>4, <1>5, <1>6 DEF Report

\* A message handed to send() goes to the queue or to the socket.
LEMMA TransmitKeeps ==
  ASSUME NEW S, NEW m \in S, queue \in Seq(S), wire \in Seq(S), W!Transmit(m)
  PROVE  queue' \in Seq(S) /\ wire' \in Seq(S)
  <1>1. Append(queue, m) \in Seq(S) /\ Append(wire, m) \in Seq(S)
    OBVIOUS
  <1> QED BY <1>1 DEF W!Transmit

\* The connection loop moves messages between queue, flush and socket, or loses
\* them; the index of its delay stays in the schedule.
LEMMA LoopKeeps ==
  ASSUME AgentInv, W!RunForever
  PROVE  /\ W!WsTypeOK'
         /\ queue' \in Seq(Told) /\ pending' \in Seq(Told) /\ wire' \in Seq(Told)
  <1>0. /\ W!WsTypeOK /\ queue \in Seq(Told) /\ pending \in Seq(Told) /\ wire \in Seq(Told)
        /\ ScheduleLen \in Nat \ {0}
    BY AgentAssumption DEF AgentInv, AgentTypeOK, OnlyEmittedIsSent
  <1>1. ASSUME W!GiveUp
        PROVE  /\ loop' \in {"ended", "backoff"} /\ open' = FALSE
               /\ backoff' \in 0..ScheduleLen /\ delay' \in 0..(ScheduleLen - 1)
    BY <1>0, <1>1 DEF W!WsTypeOK, W!GiveUp, W!DelayIndex
  <1>2. ASSUME W!LoseWire PROVE wire' = <<>> /\ lost' \in SUBSET (Jobs \X Events)
    BY <1>0, <1>2, ToSetType DEF W!LoseWire, W!WsTypeOK
  <1>3. CASE W!Connect \/ W!ConnectRaises \/ W!FlushDone \/ W!Synced \/ W!BackoffOver
    <2>1. open' \in BOOLEAN /\ loop' \in W!LoopPoints
      BY <1>0, <1>3 DEF W!Connect, W!ConnectRaises, W!FlushDone, W!Synced, W!BackoffOver,
         W!AfterBackoff, W!LoopPoints, W!WsTypeOK
    <2>2. UNCHANGED <<net, W!traffic, backoff, delay, stop>>
      BY <1>3 DEF W!Connect, W!ConnectRaises, W!FlushDone, W!Synced, W!BackoffOver
    <2> QED BY <1>0, <2>1, <2>2 DEF W!WsTypeOK, W!traffic
  <1>4. CASE W!ConnectFails \/ W!NoticeClosed
    <2>1. W!GiveUp /\ UNCHANGED <<net, W!traffic, stop>>
      BY <1>4 DEF W!ConnectFails, W!NoticeClosed
    <2> QED BY <1>0, <1>1, <2>1 DEF W!WsTypeOK, W!LoopPoints, W!traffic
  <1>5. CASE W!Authenticated
    <2>1. 0 \in 0..ScheduleLen /\ <<>> \in Seq(Told) /\ <<>> \in Seq(Jobs \X Events)
      BY <1>0
    <2> QED BY <1>0, <1>5, <2>1 DEF W!Authenticated, W!WsTypeOK, W!LoopPoints
  <1>6. CASE W!NotAuthenticated
    <2>1. <<>> \in Seq(Told) /\ <<>> \in Seq(Jobs \X Events)
      OBVIOUS
    <2> QED BY <1>0, <1>1, <1>2, <1>6, <2>1 DEF W!NotAuthenticated, W!WsTypeOK, W!LoopPoints
  <1>7. CASE W!FlushOne
    <2>1. /\ Head(pending) \in Told /\ Tail(pending) \in Seq(Told)
          /\ Head(pending) \in Jobs \X Events /\ Tail(pending) \in Seq(Jobs \X Events)
      BY <1>0, <1>7 DEF W!FlushOne, W!WsTypeOK
    <2>2. queue' \in Seq(Told) /\ wire' \in Seq(Told)
      <3>1. Append(queue, Head(pending)) \in Seq(Told) /\ Append(wire, Head(pending)) \in Seq(Told)
        <4> DEFINE S == Told
                   m == Head(pending)
        <4>1. queue \in Seq(S) /\ wire \in Seq(S) /\ m \in S
          BY <1>0, <2>1
        <4> HIDE DEF S, m
        <4>2. Append(queue, m) \in Seq(S) /\ Append(wire, m) \in Seq(S)
          BY <4>1
        <4> QED BY <4>2 DEF S, m
      <3> QED BY <1>0, <1>7, <3>1 DEF W!FlushOne, W!Transmit
    <2>3. queue' \in Seq(Jobs \X Events) /\ wire' \in Seq(Jobs \X Events)
      BY <1>0, <1>7, <2>1, TransmitKeeps DEF W!FlushOne, W!WsTypeOK
    <2> QED BY <1>0, <1>7, <2>1, <2>2, <2>3 DEF W!FlushOne, W!WsTypeOK
  <1> QED BY <1>3, <1>4, <1>5, <1>6, <1>7 DEF W!RunForever

\* Every step keeps the connection's types, and sends only what was emitted.
LEMMA LinkKeeps ==
  ASSUME AgentInv, [AgentNext]_agentVars
  PROVE  W!WsTypeOK' /\ OnlyEmittedIsSent'
  <1>0. /\ IInv /\ W!WsTypeOK /\ [Next]_vars
        /\ queue \in Seq(Told) /\ pending \in Seq(Told) /\ wire \in Seq(Told)
    BY AgentStepIsNext DEF AgentInv, AgentTypeOK, OnlyEmittedIsSent
  <1>1. CASE UNCHANGED linkVars
    <2>1. W!WsTypeOK'
      BY <1>0, <1>1 DEF linkVars, W!WsTypeOK
    <2>2. queue' \in Seq(Told) /\ pending' \in Seq(Told) /\ wire' \in Seq(Told)
      BY <1>0, <1>1 DEF linkVars
    <2> QED BY <1>0, <2>1, <2>2, StillEmitted
  <1>2. CASE Report
    <2>1. PICK m \in Told' : W!Send(m)
      BY <1>0, <1>2, ReportSends
    <2>2. m \in Jobs \X Events
      BY <1>0, ToldGrows
    <2>3. W!WsTypeOK'
      <3>1. queue' \in Seq(Jobs \X Events) /\ wire' \in Seq(Jobs \X Events)
        BY <1>0, <2>1, <2>2, TransmitKeeps DEF W!Send, W!WsTypeOK
      <3>2. sent' \in Seq(Jobs \X Events)
        BY <1>0, <2>1, <2>2 DEF W!Send, W!WsTypeOK
      <3> QED BY <1>0, <2>1, <3>1, <3>2 DEF W!Send, W!WsTypeOK
    <2>4. OnlyEmittedIsSent'
      <3> DEFINE S == Told
                 T == Told'
      <3>1. S \subseteq T /\ m \in T
        BY <1>0, <2>1, ToldGrows
      <3>2. queue \in Seq(S) /\ pending \in Seq(S) /\ wire \in Seq(S)
        BY <1>0
      <3> HIDE DEF S, T
      <3>3. queue \in Seq(T) /\ pending \in Seq(T) /\ wire \in Seq(T)
        BY <3>1, <3>2, SeqGrows
      <3>4. Append(queue, m) \in Seq(T) /\ Append(wire, m) \in Seq(T)
        BY <3>1, <3>3
      <3>5. queue' \in Seq(T) /\ pending' \in Seq(T) /\ wire' \in Seq(T)
        BY <2>1, <3>3, <3>4 DEF W!Send, W!Transmit
      <3> QED BY <3>5 DEF OnlyEmittedIsSent, T
    <2> QED BY <2>3, <2>4
  <1>3. CASE Connection
    BY <1>0, <1>3, LoopKeeps, StillEmitted DEF Connection
  <1>4. CASE HubReceives
    <2>1. /\ Tail(wire) \in Seq(Told) /\ Tail(wire) \in Seq(Jobs \X Events)
          /\ Append(hub, Head(wire)) \in Seq(Jobs \X Events)
      BY <1>0, <1>4 DEF HubReceives, W!Deliver, W!WsTypeOK
    <2>2. W!WsTypeOK'
      BY <1>0, <1>4, <2>1 DEF HubReceives, W!Deliver, W!WsTypeOK
    <2>3. queue' \in Seq(Told) /\ pending' \in Seq(Told) /\ wire' \in Seq(Told)
      BY <1>0, <1>4, <2>1 DEF HubReceives, W!Deliver
    <2> QED BY <1>0, <2>2, <2>3, StillEmitted
  <1>5. CASE Network
    <2>0. <<>> \in Seq(Told) /\ <<>> \in Seq(Jobs \X Events)
      OBVIOUS
    <2>1. CASE W!NetChanges
      <3>1. net' \in BOOLEAN /\ UNCHANGED <<loop, open, W!traffic, backoff, delay, stop>>
        BY <1>0, <2>1 DEF W!NetChanges, W!WsTypeOK
      <3>2. W!WsTypeOK'
        BY <1>0, <3>1 DEF W!WsTypeOK, W!traffic
      <3>3. queue' \in Seq(Told) /\ pending' \in Seq(Told) /\ wire' \in Seq(Told)
        BY <1>0, <3>1 DEF W!traffic
      <3> QED BY <1>0, <3>2, <3>3, StillEmitted
    <2>2. CASE W!Drop
      <3>1. lost' \in SUBSET (Jobs \X Events)
        BY <1>0, <2>2, ToSetType DEF W!Drop, W!LoseWire, W!WsTypeOK
      <3>2. W!WsTypeOK'
        BY <1>0, <2>0, <2>2, <3>1 DEF W!Drop, W!LoseWire, W!WsTypeOK
      <3>3. queue' \in Seq(Told) /\ pending' \in Seq(Told) /\ wire' \in Seq(Told)
        BY <1>0, <2>0, <2>2 DEF W!Drop, W!LoseWire
      <3> QED BY <1>0, <3>2, <3>3, StillEmitted
    <2> QED BY <1>5, <2>1, <2>2 DEF Network
  <1>6. CASE AgentCrash
    <2>0. /\ <<>> \in Seq(Told) /\ <<>> \in Seq(Jobs \X Events)
          /\ 0 \in 0..ScheduleLen /\ 0 \in 0..(ScheduleLen - 1)
      BY AgentAssumption
    <2>1. lost' \in SUBSET (Jobs \X Events)
      <3>1. /\ ToSet(queue) \subseteq Jobs \X Events /\ ToSet(pending) \subseteq Jobs \X Events
            /\ ToSet(wire) \subseteq Jobs \X Events
        BY <1>0, ToSetType DEF W!WsTypeOK
      <3> QED BY <1>0, <1>6, <3>1 DEF AgentCrash, W!WsTypeOK
    <2>2. W!WsTypeOK'
      BY <1>0, <1>6, <2>0, <2>1 DEF AgentCrash, W!WsTypeOK, W!LoopPoints
    <2>3. queue' \in Seq(Told) /\ pending' \in Seq(Told) /\ wire' \in Seq(Told)
      BY <1>6, <2>0 DEF AgentCrash
    <2> QED BY <1>0, <2>2, <2>3, StillEmitted
  <1>7. CASE Work
    BY <1>1, <1>7 DEF Work
  <1>8. ASSUME NEW j, Dispatch(j) \/ Cancel(j) PROVE UNCHANGED linkVars
    BY <1>8 DEF Dispatch, Cancel
  <1>9. CASE UNCHANGED agentVars
    BY <1>1, <1>9 DEF agentVars
  <1> QED BY <1>1, <1>2, <1>3, <1>4, <1>5, <1>6, <1>7, <1>8, <1>9 DEF AgentNext

-----------------------------------------------------------------------------
(* No event is forgotten. *)

\* The elements of a sequence that grows at its end and shrinks at its head.
LEMMA ElementsMove ==
  ASSUME NEW S, NEW q \in Seq(S), NEW m \in S
  PROVE  /\ ToSet(Append(q, m)) = ToSet(q) \cup {m}
         /\ q # <<>> => ToSet(q) = {Head(q)} \cup ToSet(Tail(q)) /\ Head(q) \in S
         /\ W!ToSet(q) = ToSet(q)
  <1>1. Len(q) \in Nat /\ q \in [1..Len(q) -> S]
    OBVIOUS
  <1>2. ToSet(Append(q, m)) = ToSet(q) \cup {m}
    <2> DEFINE r == Append(q, m)
    <2>1. /\ DOMAIN r = 1..(Len(q) + 1) /\ DOMAIN q = 1..Len(q)
          /\ \A i \in 1..Len(q) : r[i] = q[i]
          /\ r[Len(q) + 1] = m
      BY <1>1
    <2> HIDE DEF r
    <2>2. \A i \in DOMAIN r : r[i] \in ToSet(q) \cup {m}
      BY <1>1, <2>1 DEF ToSet
    <2>3. \A i \in DOMAIN q : q[i] \in ToSet(r)
      BY <1>1, <2>1 DEF ToSet
    <2>4. m \in ToSet(r)
      BY <1>1, <2>1 DEF ToSet
    <2>5. ToSet(r) = ToSet(q) \cup {m}
      BY <2>2, <2>3, <2>4 DEF ToSet
    <2> QED BY <2>5 DEF r
  <1>3. ASSUME q # <<>> PROVE ToSet(q) = {Head(q)} \cup ToSet(Tail(q)) /\ Head(q) \in S
    <2> DEFINE r == Tail(q)
    <2>1. /\ DOMAIN r = 1..(Len(q) - 1) /\ DOMAIN q = 1..Len(q) /\ Len(q) >= 1
          /\ \A i \in 1..(Len(q) - 1) : r[i] = q[i + 1]
          /\ Head(q) = q[1] /\ q[1] \in S
      BY <1>1, <1>3
    <2> HIDE DEF r
    <2>2. ASSUME NEW i \in DOMAIN q PROVE q[i] \in {q[1]} \cup ToSet(r)
      <3>1. CASE i = 1
        BY <3>1
      <3>2. CASE i # 1
        <4>1. i - 1 \in DOMAIN r /\ r[i - 1] = q[i]
          BY <1>1, <2>1, <3>2
        <4> QED BY <4>1 DEF ToSet
      <3> QED BY <3>1, <3>2
    <2>3. \A i \in DOMAIN r : r[i] \in ToSet(q)
      BY <1>1, <2>1 DEF ToSet
    <2>4. q[1] \in ToSet(q)
      BY <1>1, <2>1 DEF ToSet
    <2>5. ToSet(q) = {q[1]} \cup ToSet(r)
      BY <2>2, <2>3, <2>4 DEF ToSet
    <2> QED BY <2>1, <2>5 DEF r
  <1>4. W!ToSet(q) = ToSet(q)
    BY DEF ToSet, W!ToSet
  <1> QED BY <1>2, <1>3, <1>4

\* An event handed to send() and what it adds to the events told.
LEMMA EmitAdds ==
  ASSUME emitted \in [Jobs -> SUBSET Events], NEW j \in Jobs, NEW e \in Events, emit(j, e)
  PROVE  Told' \subseteq Told \cup {<<j, e>>}
  <1> SUFFICES ASSUME NEW m \in Jobs \X Events, m[2] \in emitted'[m[1]]
               PROVE  m[2] \in emitted[m[1]] \/ m = <<j, e>>
    BY DEF Told
  <1>1. m = <<m[1], m[2]>> /\ m[1] \in Jobs
    OBVIOUS
  <1>2. emitted'[m[1]] = IF m[1] = j THEN emitted[j] \cup {e} ELSE emitted[m[1]]
    BY <1>1 DEF emit
  <1> QED BY <1>1, <1>2

\* A step that reports tells nothing but the event it sends.
LEMMA ReportTells ==
  ASSUME IInv, Report
  PROVE  \E m \in Jobs \X Events : W!Send(m) /\ Told' \subseteq Told \cup {m}
  <1>0. emitted \in [Jobs -> SUBSET Events] /\ HandlerInv
    BY DEF IInv, TypeOK
  <1>1. ASSUME NEW j \in Jobs, NEW e \in Events, emit(j, e), W!Send(<<j, e>>)
        PROVE  \E m \in Jobs \X Events : W!Send(m) /\ Told' \subseteq Told \cup {m}
    <2>1. <<j, e>> \in Jobs \X Events
      OBVIOUS
    <2> QED BY <1>0, <1>1, <2>1, EmitAdds
  <1>2. ASSUME NEW j \in Jobs, PrintingStored(j) /\ W!Send(<<j, "started">>)
        PROVE  emit(j, "started") /\ "started" \in Events
    BY <1>2 DEF PrintingStored, Events
  <1>3. ASSUME NEW j \in Jobs, VerdictStored(j)
        PROVE  emit(j, Verdict(j)) /\ Verdict(j) \in Events
    BY <1>3 DEF VerdictStored, Verdict, Returned, Events
  <1>4. ASSUME NEW j \in Jobs, ReportStuck(j)
        PROVE  emit(j, "failed") /\ "failed" \in Events
    BY <1>4 DEF ReportStuck, Events
  <1>5. ASSUME Acknowledge
        PROVE  emit(target, "received") /\ "received" \in Events /\ target \in Jobs
    BY <1>0, <1>5 DEF Acknowledge, Events, HandlerInv
  <1>6. ASSUME resend_terminal_event
        PROVE  /\ emit(target, VerdictEvent[seen]) /\ VerdictEvent[seen] \in Events
               /\ target \in Jobs
    BY <1>0, <1>6 DEF resend_terminal_event, HandlerInv, VerdictEvent, is_terminal,
       TERMINAL_STATUSES, Events
  <1>7. ASSUME SendCancelled
        PROVE  emit(target, "cancelled") /\ "cancelled" \in Events /\ target \in Jobs
    BY <1>0, <1>7 DEF SendCancelled, Events, HandlerInv
  <1> QED BY <1>1, <1>2, <1>3, <1>4, <1>5, <1>6, <1>7 DEF Report, AcknowledgeJob

\* The other steps tell nothing.
LEMMA OthersAreSilent ==
  ASSUME Work \/ Connection \/ HubReceives \/ Network \/ AgentCrash \/ UNCHANGED agentVars
           \/ \E j : Dispatch(j) \/ Cancel(j)
  PROVE  Told' = Told
  <1> SUFFICES UNCHANGED emitted
    BY DEF Told
  <1>1. ASSUME NEW k,
               \/ ReadRecord(k) \/ DownloadOpens(k) \/ DownloadEnds(k) \/ DownloadFails(k)
               \/ PathStored(k) \/ PrinterAnswers(k) \/ WaitingStored(k) \/ Slept(k)
               \/ StartedSent(k) \/ PrintReturns(k) \/ VerdictSent(k) \/ ThreadStep(k)
        PROVE  UNCHANGED emitted
    BY <1>1 DEF ReadRecord, DownloadOpens, DownloadEnds, DownloadFails, PathStored, PrinterAnswers,
       WaitingStored, Slept, StartedSent, PrintReturns, VerdictSent, ThreadStep, RunUpdate,
       RunSetPath, RunPrint
  <1>2. CASE HandlerReads \/ DispatchDecides \/ insert_received \/ CancelDecides \/ CancelStored
    BY <1>2 DEF HandlerReads, DispatchDecides, insert_received, CancelDecides, CancelStored
  <1>3. CASE mark_stuck_printing_as_failed \/ ResumeJobs \/ Crash
    BY <1>3 DEF mark_stuck_printing_as_failed, ResumeJobs, Crash
  <1>4. CASE Work
    BY <1>1, <1>2, <1>3, <1>4 DEF Work
  <1>5. CASE Connection \/ HubReceives \/ Network \/ UNCHANGED agentVars
    BY <1>5 DEF Connection, HubReceives, Network, agentVars, vars
  <1>6. CASE AgentCrash
    BY <1>3, <1>6 DEF AgentCrash
  <1>7. ASSUME NEW j, Dispatch(j) \/ Cancel(j) PROVE UNCHANGED emitted
    BY <1>7 DEF Dispatch, Cancel, ReceiveDispatch, ReceiveCancel
  <1> QED BY <1>4, <1>5, <1>6, <1>7

\* A message handed to send() is in the queue or on the socket.
LEMMA TransmitFinds ==
  ASSUME NEW S, NEW m \in S, queue \in Seq(S), wire \in Seq(S), W!Transmit(m)
  PROVE  ToSet(queue) \cup ToSet(wire) \cup {m} \subseteq ToSet(queue') \cup ToSet(wire')
  <1>1. ToSet(Append(queue, m)) = ToSet(queue) \cup {m}
        /\ ToSet(Append(wire, m)) = ToSet(wire) \cup {m}
    BY ElementsMove
  <1>2. \/ wire' = Append(wire, m) /\ queue' = queue
        \/ queue' = Append(queue, m) /\ wire' = wire
    BY DEF W!Transmit
  <1> QED BY <1>1, <1>2

\* No step of the connection, the hub or the network makes a message disappear without
\* counting it as lost.
LEMMA LinkForgetsNothing ==
  ASSUME AgentInv, W!RunForever \/ W!Deliver \/ W!NetChanges \/ W!Drop
  PROVE  Somewhere \subseteq Somewhere'
  <1> DEFINE M == Jobs \X Events
  <1>0. queue \in Seq(M) /\ pending \in Seq(M) /\ wire \in Seq(M) /\ hub \in Seq(M)
    BY DEF AgentInv, AgentTypeOK, W!WsTypeOK
  <1> HIDE DEF M
  <1>1. ASSUME UNCHANGED W!traffic PROVE Somewhere \subseteq Somewhere'
    BY <1>1 DEF Somewhere, W!traffic
  <1>2. ASSUME W!LoseWire, UNCHANGED <<queue, pending, hub>> PROVE Somewhere \subseteq Somewhere'
    <2>1. W!ToSet(wire) = ToSet(wire)
      BY DEF ToSet, W!ToSet
    <2> QED BY <1>2, <2>1 DEF Somewhere, W!LoseWire
  <1>3. CASE W!Connect \/ W!ConnectRaises \/ W!FlushDone \/ W!Synced \/ W!BackoffOver
             \/ W!ConnectFails \/ W!NoticeClosed \/ W!NetChanges
    BY <1>1, <1>3 DEF W!Connect, W!ConnectRaises, W!FlushDone, W!Synced, W!BackoffOver,
       W!ConnectFails, W!NoticeClosed, W!NetChanges
  <1>4. CASE W!NotAuthenticated \/ W!Drop
    BY <1>2, <1>4 DEF W!NotAuthenticated, W!Drop
  <1>5. CASE W!Authenticated
    <2>1. pending = <<>>
      BY <1>5 DEF AgentInv, W!FlushTakesAll, W!Authenticated
    <2>2. ToSet(<<>>) = {}
      BY DEF ToSet
    <2> QED BY <1>5, <2>1, <2>2 DEF Somewhere, W!Authenticated
  <1>6. CASE W!FlushOne
    <2>1. pending # <<>> /\ W!Transmit(Head(pending)) /\ pending' = Tail(pending)
          /\ hub' = hub /\ lost' = lost
      BY <1>6 DEF W!FlushOne
    <2>2. ToSet(pending) = {Head(pending)} \cup ToSet(pending') /\ Head(pending) \in M
      <3>1. Head(pending) \in M
        BY <1>0, <2>1
      <3> QED BY <1>0, <2>1, <3>1, ElementsMove
    <2>3. ToSet(queue) \cup ToSet(wire) \cup {Head(pending)}
          \subseteq ToSet(queue') \cup ToSet(wire')
      BY <1>0, <2>1, <2>2, TransmitFinds
    <2> QED BY <2>1, <2>2, <2>3 DEF Somewhere
  <1>7. CASE W!Deliver
    <2>1. wire # <<>> /\ hub' = Append(hub, Head(wire)) /\ wire' = Tail(wire)
          /\ UNCHANGED <<queue, pending, lost>>
      BY <1>7 DEF W!Deliver
    <2>2. Head(wire) \in M
      BY <1>0, <2>1
    <2>3. ToSet(wire) = {Head(wire)} \cup ToSet(wire')
      BY <1>0, <2>1, <2>2, ElementsMove
    <2>4. ToSet(hub') = ToSet(hub) \cup {Head(wire)}
      BY <1>0, <2>1, <2>2, ElementsMove
    <2> QED BY <2>1, <2>3, <2>4 DEF Somewhere
  <1> QED BY <1>3, <1>4, <1>5, <1>6, <1>7 DEF W!RunForever

\* Every event that was emitted stays on its way, is with web/ or counts as lost.
LEMMA ForgetsNothing ==
  ASSUME AgentInv, [AgentNext]_agentVars
  PROVE  NothingForgotten'
  <1> SUFFICES Told' \subseteq Somewhere'
    BY DEF NothingForgotten
  <1>0. IInv /\ Told \subseteq Somewhere
    BY DEF AgentInv, NothingForgotten
  <1>1. CASE Report
    <2> DEFINE M == Jobs \X Events
    <2>1. PICK m \in M : W!Send(m) /\ Told' \subseteq Told \cup {m}
      BY <1>0, <1>1, ReportTells
    <2>2. queue \in Seq(M) /\ wire \in Seq(M)
      BY DEF AgentInv, AgentTypeOK, W!WsTypeOK
    <2> HIDE DEF M
    <2>3. W!Transmit(m) /\ UNCHANGED <<pending, hub, lost>>
      BY <2>1 DEF W!Send
    <2>4. ToSet(queue) \cup ToSet(wire) \cup {m} \subseteq ToSet(queue') \cup ToSet(wire')
      BY <2>2, <2>3, TransmitFinds
    <2>5. Somewhere \cup {m} \subseteq Somewhere'
      BY <2>3, <2>4 DEF Somewhere
    <2> QED BY <1>0, <2>1, <2>5
  <1>2. CASE Connection \/ HubReceives \/ Network
    <2>1. Told' = Told
      BY <1>2, OthersAreSilent
    <2>2. Somewhere \subseteq Somewhere'
      BY <1>2, LinkForgetsNothing DEF Connection, HubReceives, Network
    <2> QED BY <1>0, <2>1, <2>2
  <1>3. CASE AgentCrash
    <2>1. Told' = Told
      BY <1>3, OthersAreSilent
    <2>2. Somewhere \subseteq Somewhere'
      BY <1>3 DEF AgentCrash, Somewhere
    <2> QED BY <1>0, <2>1, <2>2
  <1>4. CASE Work \/ (\E j : Dispatch(j) \/ Cancel(j)) \/ UNCHANGED agentVars
    <2>1. Told' = Told
      BY <1>4, OthersAreSilent
    <2>2. UNCHANGED linkVars
      BY <1>4 DEF Work, Dispatch, Cancel, agentVars
    <2>3. Somewhere' = Somewhere
      BY <2>2 DEF linkVars, Somewhere
    <2> QED BY <1>0, <2>1, <2>3
  <1> QED BY <1>1, <1>2, <1>3, <1>4 DEF AgentNext

\* The flush of an authenticated connection takes the whole queue over, also when the
\* events come from the pipeline and the process may die at any point.
LEMMA FlushKeeps ==
  ASSUME AgentInv, [AgentNext]_agentVars
  PROVE  W!FlushTakesAll'
  <1>0. W!FlushTakesAll /\ W!WsTypeOK
    BY DEF AgentInv, AgentTypeOK
  <1> USE DEF W!FlushTakesAll, W!HasSocket
  <1>1. CASE UNCHANGED linkVars
    BY <1>0, <1>1 DEF linkVars
  <1>2. CASE Report
    <2>1. PICK m \in Jobs \X Events : W!Send(m)
      BY <1>2, ReportTells DEF AgentInv
    <2> QED BY <1>0, <2>1 DEF W!Send, W!Transmit
  <1>3. ASSUME W!RunForever PROVE W!FlushTakesAll'
    <2>1. ASSUME W!GiveUp, pending' = pending PROVE W!FlushTakesAll' \/ loop = "flush"
      BY <1>0, <2>1 DEF W!GiveUp
    <2>2. CASE W!ConnectFails \/ W!NoticeClosed \/ W!NotAuthenticated
      BY <2>1, <2>2 DEF W!ConnectFails, W!NoticeClosed, W!NotAuthenticated, W!traffic
    <2>3. CASE W!Connect \/ W!ConnectRaises \/ W!BackoffOver
      BY <1>0, <2>3 DEF W!Connect, W!ConnectRaises, W!BackoffOver, W!AfterBackoff, W!traffic
    <2>4. CASE W!Authenticated
      BY <1>0, <2>4 DEF W!Authenticated
    <2>5. CASE W!FlushOne
      BY <1>0, <2>5 DEF W!FlushOne, W!Transmit
    <2>6. CASE W!FlushDone \/ W!Synced
      BY <1>0, <2>6 DEF W!FlushDone, W!Synced, W!traffic
    <2> QED BY <1>3, <2>2, <2>3, <2>4, <2>5, <2>6 DEF W!RunForever
  <1>4. CASE Connection
    BY <1>3, <1>4 DEF Connection
  <1>5. CASE HubReceives \/ Network
    BY <1>0, <1>5 DEF HubReceives, Network, W!Deliver, W!NetChanges, W!Drop, W!traffic
  <1>6. CASE AgentCrash
    BY <1>6 DEF AgentCrash
  <1>7. CASE Work \/ (\E j : Dispatch(j) \/ Cancel(j)) \/ UNCHANGED agentVars
    BY <1>1, <1>7 DEF Work, Dispatch, Cancel, agentVars
  <1> QED BY <1>2, <1>4, <1>5, <1>6, <1>7 DEF AgentNext

-----------------------------------------------------------------------------
(* web/'s record. *)

\* web/ shows only what was emitted: an event is applied, refused or not there.
LEMMA HubKeeps ==
  ASSUME AgentInv, [AgentNext]_agentVars
  PROVE  /\ hubStatus' \in [Jobs -> Status] /\ offered' \subseteq Jobs
         /\ rejected' \subseteq Jobs \X Events /\ HubFollowsEvents'
  <1>0. /\ IInv /\ [Next]_vars /\ hubStatus \in [Jobs -> Status] /\ offered \subseteq Jobs
        /\ rejected \subseteq Jobs \X Events /\ HubFollowsEvents
        /\ wire \in Seq(Told) /\ wire \in Seq(Jobs \X Events)
    BY AgentStepIsNext
    DEF AgentInv, AgentTypeOK, OnlyEmittedIsSent, W!WsTypeOK
  <1>1. \A j \in Jobs : emitted[j] \subseteq emitted'[j]
    BY <1>0, EmittedGrows
  <1>2. ASSUME UNCHANGED hubStatus PROVE hubStatus' \in [Jobs -> Status] /\ HubFollowsEvents'
    BY <1>0, <1>1, <1>2 DEF HubFollowsEvents
  <1>3. CASE HubReceives
    <2> DEFINE m == Head(wire)
               j == m[1]
               s == EventStatus[m[2]]
    <2>1. m \in Told /\ m \in Jobs \X Events
      BY <1>0, <1>3 DEF HubReceives, W!Deliver
    <2>2. j \in Jobs /\ m[2] \in Events /\ m[2] \in emitted[j]
      BY <2>1 DEF Told
    <2>3. s \in Status
      BY <2>2 DEF EventStatus, Events, Status
    <2>4. CASE is_legal_transition(hubStatus[j], s)
      <3>1. hubStatus' = [hubStatus EXCEPT ![j] = s] /\ UNCHANGED <<rejected, offered, vars>>
        BY <1>3, <2>4 DEF HubReceives
      <3>2. emitted' = emitted
        BY <3>1 DEF vars
      <3> HIDE DEF s
      <3>3. hubStatus' \in [Jobs -> Status]
        BY <1>0, <2>2, <2>3, <3>1
      <3>4. HubFollowsEvents'
        <4> SUFFICES ASSUME NEW i \in Jobs
                     PROVE  \/ hubStatus'[i] = "QUEUED"
                            \/ \E e \in emitted'[i] : hubStatus'[i] = EventStatus[e]
          BY DEF HubFollowsEvents
        <4>1. CASE i = j
          BY <1>0, <2>2, <3>1, <3>2, <4>1 DEF s
        <4>2. CASE i # j
          BY <1>0, <3>1, <3>2, <4>2 DEF HubFollowsEvents
        <4> QED BY <4>1, <4>2
      <3> QED BY <1>0, <3>1, <3>3, <3>4
    <2>5. CASE ~is_legal_transition(hubStatus[j], s)
      <3>1. rejected' = rejected \cup {m} /\ UNCHANGED <<hubStatus, offered>>
        BY <1>3, <2>5 DEF HubReceives
      <3> QED BY <1>0, <1>2, <2>1, <3>1
    <2> QED BY <2>4, <2>5
  <1>4. CASE Report \/ Work \/ Network \/ UNCHANGED agentVars
    <2>1. UNCHANGED hubVars
      BY <1>4 DEF Report, Work, Network, agentVars
    <2> QED BY <1>0, <1>2, <2>1 DEF hubVars
  <1>5. CASE Connection \/ AgentCrash
    <2>1. UNCHANGED <<hubStatus, rejected>> /\ offered' \subseteq Jobs
      BY <1>0, <1>5 DEF Connection, AgentCrash
    <2> QED BY <1>0, <1>2, <2>1
  <1>6. ASSUME NEW j, Dispatch(j) \/ Cancel(j)
        PROVE  UNCHANGED <<hubStatus, rejected>> /\ offered' \subseteq Jobs
    BY <1>0, <1>6 DEF Dispatch, Cancel, hubVars
  <1>7. ASSUME NEW j, Dispatch(j) \/ Cancel(j)
        PROVE  /\ hubStatus' \in [Jobs -> Status] /\ offered' \subseteq Jobs
               /\ rejected' \subseteq Jobs \X Events /\ HubFollowsEvents'
    BY <1>0, <1>2, <1>6, <1>7
  <1> QED BY <1>3, <1>4, <1>5, <1>7 DEF AgentNext

\* The bounds of the model.
LEMMA BoundsKeep ==
  ASSUME AgentInv, [AgentNext]_agentVars
  PROVE  crashes' \in 0..MaxCrashes /\ outages' \in 0..MaxOutages
  <1>0. crashes \in 0..MaxCrashes /\ outages \in 0..MaxOutages
    BY DEF AgentInv, AgentTypeOK
  <1>1. CASE AgentCrash
    BY <1>0, <1>1, AgentAssumption DEF AgentCrash
  <1>2. CASE Network
    BY <1>0, <1>2, AgentAssumption DEF Network
  <1>3. CASE Report \/ Work \/ Connection \/ HubReceives \/ UNCHANGED agentVars
    BY <1>0, <1>3 DEF Report, Work, Connection, HubReceives, agentVars, bounds
  <1>4. ASSUME NEW j, Dispatch(j) \/ Cancel(j) PROVE UNCHANGED bounds
    BY <1>4 DEF Dispatch, Cancel
  <1> QED BY <1>0, <1>1, <1>2, <1>3, <1>4 DEF AgentNext, bounds

-----------------------------------------------------------------------------
(* The specification. *)

\* The agent before its first start, and web/ with every job still queued.
LEMMA InitAgentInv == AgentInit => AgentInv
  <1> SUFFICES ASSUME AgentInit PROVE AgentInv
    OBVIOUS
  <1>1. IInv
    BY InitIInv DEF AgentInit
  <1>2. /\ 0 \in 0..ScheduleLen /\ 0 \in 0..(ScheduleLen - 1)
        /\ 0 \in 0..MaxCrashes /\ 0 \in 0..MaxOutages
    BY AgentAssumption
  <1>3. W!WsTypeOK
    <2>1. <<>> \in Seq(Jobs \X Events) /\ {} \in SUBSET (Jobs \X Events)
      OBVIOUS
    <2> QED BY <1>2, <2>1 DEF AgentInit, W!WsInit, W!WsTypeOK, W!LoopPoints
  <1>4. AgentTypeOK
    BY <1>1, <1>2, <1>3 DEF AgentInit, AgentTypeOK, IInv, Status
  <1>5. OnlyEmittedIsSent
    <2>1. <<>> \in Seq(Told)
      OBVIOUS
    <2> QED BY <2>1 DEF AgentInit, W!WsInit, OnlyEmittedIsSent
  <1>6. HubFollowsEvents /\ ResendIsCurrent /\ \A j \in Jobs : VerdictKept(j)
    BY DEF AgentInit, Init, HubFollowsEvents, ResendIsCurrent, VerdictKept
  <1>7. NothingForgotten /\ W!FlushTakesAll
    BY DEF AgentInit, Init, W!WsInit, NothingForgotten, Told, W!FlushTakesAll, W!HasSocket
  <1> QED BY <1>1, <1>4, <1>5, <1>6, <1>7 DEF AgentInv

\* Every step of the whole keeps it.
LEMMA AgentInvKept ==
  ASSUME AgentInv, [AgentNext]_agentVars
  PROVE  AgentInv'
  <1>0. IInv /\ ResendIsCurrent /\ (\A j \in Jobs : VerdictKept(j)) /\ [Next]_vars
    BY AgentStepIsNext DEF AgentInv
  <1>1. IInv'
    BY <1>0, NextIInv
  <1>2. ResendIsCurrent'
    BY <1>0, StepKeepsResend
  <1>3. \A j \in Jobs : VerdictKept(j)'
    BY <1>0, StepKeepsVerdict
  <1>4. W!WsTypeOK' /\ OnlyEmittedIsSent'
    BY LinkKeeps
  <1>5. /\ hubStatus' \in [Jobs -> Status] /\ offered' \subseteq Jobs
        /\ rejected' \subseteq Jobs \X Events /\ HubFollowsEvents'
    BY HubKeeps
  <1>6. AgentTypeOK'
    BY <1>1, <1>4, <1>5, BoundsKeep DEF AgentTypeOK, IInv
  <1>7. NothingForgotten' /\ W!FlushTakesAll'
    BY ForgetsNothing, FlushKeeps
  <1> QED BY <1>1, <1>2, <1>3, <1>4, <1>5, <1>6, <1>7 DEF AgentInv

\* Everything proved of the pipeline alone holds of it inside the agent too, with
\* the connection, the hub and their failures around it, and what web/ shows was
\* emitted.
THEOREM AgentInvariance == AgentSpec => []AgentInv
  <1>1. AgentInit => AgentInv
    BY InitAgentInv
  <1>2. AgentInv /\ [AgentNext]_agentVars => AgentInv'
    BY AgentInvKept
  <1> QED BY <1>1, <1>2, PTL DEF AgentSpec

\* web/ never shows a verdict that the agent's queue does not have, unless a cancel
\* wrote over it, nor a job as completed that was not printed exactly once, however
\* many events are lost, delayed, resent or refused.
THEOREM HubIsTruthful == AgentSpec => []HubTellsTheTruth
  <1>1. AgentInv => HubTellsTheTruth
    <2> SUFFICES ASSUME AgentInv, NEW j \in Jobs
                 PROVE  /\ hubStatus[j] \in TERMINAL_STATUSES =>
                             \/ status[j] = hubStatus[j]
                             \/ status[j] = "CANCELLED" \/ "cancelled" \in emitted[j]
                        /\ hubStatus[j] = "COMPLETED" => printed[j] = 1
      BY DEF HubTellsTheTruth
    <2>1. /\ emitted[j] \subseteq Events /\ VerdictKept(j) /\ printed[j] \in Nat
          /\ "completed" \in emitted[j] => printed[j] > 0 /\ printed[j] <= 1
      BY DEF AgentInv, IInv, TypeOK, JobInv, PrintInv
    <2>2. hubStatus[j] = "QUEUED" \/ \E e \in emitted[j] : hubStatus[j] = EventStatus[e]
      BY DEF AgentInv, HubFollowsEvents
    <2>3. \A e \in Events : EventStatus[e] =
            CASE e = "received" -> "RECEIVED" [] e = "started" -> "PRINTING"
              [] e = "completed" -> "COMPLETED" [] e = "failed" -> "FAILED"
              [] e = "cancelled" -> "CANCELLED"
      BY DEF Events, EventStatus
    <2>4. /\ hubStatus[j] = "COMPLETED" => "completed" \in emitted[j]
          /\ hubStatus[j] = "FAILED" => "failed" \in emitted[j]
          /\ hubStatus[j] = "CANCELLED" => "cancelled" \in emitted[j]
      BY <2>1, <2>2, <2>3 DEF Events
    <2>5. hubStatus[j] = "COMPLETED" => printed[j] = 1
      BY <2>1, <2>4
    <2> QED BY <2>1, <2>4, <2>5 DEF VerdictKept, TERMINAL_STATUSES
  <1> QED BY <1>1, AgentInvariance, PTL

\* While the connection works, no event of any job waits in the agent: web/ has it, the
\* socket has it, or a broken connection or a dead process took it, however often the
\* agent crashed, reconnected, resumed and resent before.
THEOREM EventsAreAccountedFor == AgentSpec => []OnlineTellsAll
  <1>1. AgentInv => OnlineTellsAll
    <2> SUFFICES ASSUME AgentInv, loop \in {"sync", "receive"}, open
                 PROVE  Told \subseteq ToSet(wire) \cup ToSet(hub) \cup lost
      BY DEF OnlineTellsAll
    <2>1. queue = <<>> /\ pending = <<>> /\ Told \subseteq Somewhere
      BY DEF AgentInv, NothingForgotten, W!FlushTakesAll
    <2>2. ToSet(<<>>) = {}
      BY DEF ToSet
    <2> QED BY <2>1, <2>2 DEF Somewhere
  <1> QED BY <1>1, AgentInvariance, PTL

\* No document is printed twice and no truncated one at all, also where events,
\* connection and hub fail around the pipeline.
THEOREM AgentPrintsOnce == AgentSpec => [](AtMostOncePrint /\ PrintsWholeDocument)
  <1>1. AgentInv => AtMostOncePrint /\ PrintsWholeDocument
    BY DEF AgentInv, IInv, JobInv, PrintInv, DocumentInv, AtMostOncePrint, PrintsWholeDocument
  <1> QED BY <1>1, AgentInvariance, PTL

\* Also with the hub's own dispatches and cancels, an outage and a crash around them,
\* rows change along the table of state_machine.py, or a cancel is involved.
THEOREM AgentFollowsTable == AgentSpec => FollowsTable
  <1>1. AgentInv /\ [AgentNext]_agentVars => [\A j \in Jobs : LegalChange(j)]_vars
    BY AgentStepIsNext, StepFollowsTable DEF AgentInv
  <1> QED BY <1>1, AgentInvariance, PTL DEF AgentSpec, FollowsTable

\* The composed agent implements the lifecycle the documentation promises, as long as
\* the hub cancels nothing.
THEOREM AgentImplementsLifecycle ==
  ASSUME Cancellable = {}
  PROVE  AgentSpec => ImplementsLifecycle
  <1>1. AgentInit => Lifecycle!LInit
    BY DEF AgentInit, Init, NoRow, Lifecycle!LInit, Lifecycle!Unknown
  <1>2. AgentInv /\ [AgentNext]_agentVars => [Lifecycle!LNext]_(Lifecycle!lifecycleVars)
    BY AgentStepIsNext, StepImplements DEF AgentInv
  <1> QED BY <1>1, <1>2, AgentInvariance, PTL DEF AgentSpec, ImplementsLifecycle, Lifecycle!LSpec
=============================================================================
