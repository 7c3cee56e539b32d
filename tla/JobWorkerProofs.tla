--------------------------- MODULE JobWorkerProofs ---------------------------
(***************************************************************************)
(* Proofs that the print pipeline of JobWorker keeps its safety properties *)
(* for every set of jobs: IInv (JobWorkerProps) holds initially, every     *)
(* step of every actor preserves it, and it implies the properties.        *)
(***************************************************************************)
EXTENDS JobWorkerProps, TLAPS

\* The finite vocabularies, expanded everywhere.
USE DEF NoRow, RESUMABLE, UpdateOps, PoolOps, TaskPoints, HandlerPoints, Events, Status,
        TERMINAL_STATUSES, is_terminal, BeforePrinting

\* The agent before its first start.
LEMMA InitIInv == Init => IInv
  <1> SUFFICES ASSUME Init PROVE IInv
    OBVIOUS
  <1>1. TypeOK
    BY JobsAssumption DEF Init, TypeOK
  <1>2. PhaseInv /\ HandlerInv
    BY JobsAssumption DEF Init, PhaseInv, HandlerInv
  <1>3. ASSUME NEW j \in Jobs PROVE JobInv(j)
    BY JobsAssumption DEF Init, JobInv, ThreadInv, WaitInv, StatusInv, PrintInv, EventInv,
           DocumentInv, TaskInv, InFlight, Possible
  <1> QED BY <1>1, <1>2, <1>3 DEF IInv

\* A step that leaves everything about a job alone preserves its invariant.
LEMMA Frame ==
  ASSUME NEW j \in Jobs, JobInv(j),
         status'[j] = status[j], path'[j] = path[j], file'[j] = file[j],
         pc'[j] = pc[j], thread'[j] = thread[j], waited'[j] = waited[j],
         printed'[j] = printed[j], emitted'[j] = emitted[j],
         j \in tasks' <=> j \in tasks, j \in cancelReq' <=> j \in cancelReq,
         phase' = phase,
         handler = "ack" /\ target = j => handler' = "ack" /\ target' = j
  PROVE  JobInv(j)'
  BY DEF JobInv, ThreadInv, WaitInv, StatusInv, PrintInv, EventInv, DocumentInv, TaskInv,
         InFlight, Possible

-----------------------------------------------------------------------------
(* The coroutine of a job, and the pool thread it uses. *)

\* get() returned: the coroutine goes on to the download or the printer.
LEMMA ReadRecordStep ==
  ASSUME IInv, NEW k \in Jobs, ReadRecord(k)
  PROVE  IInv'
  <1> USE DEF ReadRecord, UnlessCancelled, Await, Finish, Bookkeeping, OnDisk, rows,
              inbound
  <1>1. TypeOK'
    BY JobsAssumption DEF IInv, TypeOK
  <1>2. PhaseInv'
    BY DEF IInv, TypeOK, PhaseInv
  <1>3. HandlerInv'
    BY JobsAssumption DEF IInv, TypeOK, HandlerInv
  <1>4. JobInv(k)'
    BY JobsAssumption DEF IInv, TypeOK, PhaseInv, HandlerInv, JobInv, ThreadInv,
           WaitInv, StatusInv, PrintInv, EventInv, DocumentInv, TaskInv, InFlight,
           Possible
  <1>5. ASSUME NEW j \in Jobs, j # k PROVE JobInv(j)'
    <2>1. JobInv(j)
      BY DEF IInv
    <2> QED BY <2>1, <1>5, Frame DEF IInv, TypeOK
  <1> QED BY <1>1, <1>2, <1>3, <1>4, <1>5 DEF IInv

\* The download rewrites the file; no path points to it yet.
LEMMA DownloadOpensStep ==
  ASSUME IInv, NEW k \in Jobs, DownloadOpens(k)
  PROVE  IInv'
  <1> USE DEF DownloadOpens, Await, Bookkeeping, rows, inbound
  <1>1. TypeOK'
    BY JobsAssumption DEF IInv, TypeOK
  <1>2. PhaseInv'
    BY DEF IInv, TypeOK, PhaseInv
  <1>3. HandlerInv'
    BY JobsAssumption DEF IInv, TypeOK, HandlerInv
  <1>4. JobInv(k)'
    BY JobsAssumption DEF IInv, TypeOK, PhaseInv, HandlerInv, JobInv, ThreadInv,
           WaitInv, StatusInv, PrintInv, EventInv, DocumentInv, TaskInv, InFlight,
           Possible
  <1>5. ASSUME NEW j \in Jobs, j # k PROVE JobInv(j)'
    <2>1. JobInv(j)
      BY DEF IInv
    <2> QED BY <2>1, <1>5, Frame DEF IInv, TypeOK
  <1> QED BY <1>1, <1>2, <1>3, <1>4, <1>5 DEF IInv

\* The file is complete before its path is written.
LEMMA DownloadEndsStep ==
  ASSUME IInv, NEW k \in Jobs, DownloadEnds(k)
  PROVE  IInv'
  <1> USE DEF DownloadEnds, Await, Bookkeeping, rows, inbound
  <1>1. TypeOK'
    BY JobsAssumption DEF IInv, TypeOK
  <1>2. PhaseInv'
    BY DEF IInv, TypeOK, PhaseInv
  <1>3. HandlerInv'
    BY JobsAssumption DEF IInv, TypeOK, HandlerInv
  <1>4. JobInv(k)'
    BY JobsAssumption DEF IInv, TypeOK, PhaseInv, HandlerInv, JobInv, ThreadInv,
           WaitInv, StatusInv, PrintInv, EventInv, DocumentInv, TaskInv, InFlight,
           Possible
  <1>5. ASSUME NEW j \in Jobs, j # k PROVE JobInv(j)'
    <2>1. JobInv(j)
      BY DEF IInv
    <2> QED BY <2>1, <1>5, Frame DEF IInv, TypeOK
  <1> QED BY <1>1, <1>2, <1>3, <1>4, <1>5 DEF IInv

\* A failed download queues the write of FAILED.
LEMMA DownloadFailsStep ==
  ASSUME IInv, NEW k \in Jobs, DownloadFails(k)
  PROVE  IInv'
  <1> USE DEF DownloadFails, Await, Bookkeeping, rows, inbound
  <1>1. TypeOK'
    BY JobsAssumption DEF IInv, TypeOK
  <1>2. PhaseInv'
    BY DEF IInv, TypeOK, PhaseInv
  <1>3. HandlerInv'
    BY JobsAssumption DEF IInv, TypeOK, HandlerInv
  <1>4. JobInv(k)'
    BY JobsAssumption DEF IInv, TypeOK, PhaseInv, HandlerInv, JobInv, ThreadInv,
           WaitInv, StatusInv, PrintInv, EventInv, DocumentInv, TaskInv, InFlight,
           Possible
  <1>5. ASSUME NEW j \in Jobs, j # k PROVE JobInv(j)'
    <2>1. JobInv(j)
      BY DEF IInv
    <2> QED BY <2>1, <1>5, Frame DEF IInv, TypeOK
  <1> QED BY <1>1, <1>2, <1>3, <1>4, <1>5 DEF IInv

\* The path is stored; the coroutine checks for a cancel and asks the printer.
LEMMA PathStoredStep ==
  ASSUME IInv, NEW k \in Jobs, PathStored(k)
  PROVE  IInv'
  <1> USE DEF PathStored, UnlessCancelled, Await, Finish, Bookkeeping, Returned,
              rows, inbound
  <1>1. TypeOK'
    BY JobsAssumption DEF IInv, TypeOK
  <1>2. PhaseInv'
    BY DEF IInv, TypeOK, PhaseInv
  <1>3. HandlerInv'
    BY JobsAssumption DEF IInv, TypeOK, HandlerInv
  <1>4. JobInv(k)'
    BY JobsAssumption DEF IInv, TypeOK, PhaseInv, HandlerInv, JobInv, ThreadInv,
           WaitInv, StatusInv, PrintInv, EventInv, DocumentInv, TaskInv, InFlight,
           Possible
  <1>5. ASSUME NEW j \in Jobs, j # k PROVE JobInv(j)'
    <2>1. JobInv(j)
      BY DEF IInv
    <2> QED BY <2>1, <1>5, Frame DEF IInv, TypeOK
  <1> QED BY <1>1, <1>2, <1>3, <1>4, <1>5 DEF IInv

\* The printer is online, offline or still offline.
LEMMA PrinterAnswersStep ==
  ASSUME IInv, NEW k \in Jobs, PrinterAnswers(k)
  PROVE  IInv'
  <1> USE DEF PrinterAnswers, UnlessCancelled, Await, Finish, Bookkeeping, WaitLoop,
              PollsLeft, rows, inbound
  <1>1. TypeOK'
    BY JobsAssumption DEF IInv, TypeOK
  <1>2. PhaseInv'
    BY DEF IInv, TypeOK, PhaseInv
  <1>3. HandlerInv'
    BY JobsAssumption DEF IInv, TypeOK, HandlerInv
  <1>4. JobInv(k)'
    BY JobsAssumption DEF IInv, TypeOK, PhaseInv, HandlerInv, JobInv, ThreadInv,
           WaitInv, StatusInv, PrintInv, EventInv, DocumentInv, TaskInv, InFlight,
           Possible
  <1>5. ASSUME NEW j \in Jobs, j # k PROVE JobInv(j)'
    <2>1. JobInv(j)
      BY DEF IInv
    <2> QED BY <2>1, <1>5, Frame DEF IInv, TypeOK
  <1> QED BY <1>1, <1>2, <1>3, <1>4, <1>5 DEF IInv

\* The waiting loop starts.
LEMMA WaitingStoredStep ==
  ASSUME IInv, NEW k \in Jobs, WaitingStored(k)
  PROVE  IInv'
  <1> USE DEF WaitingStored, Returned, WaitLoop, Await, PollsLeft, rows, inbound
  <1>1. TypeOK'
    BY JobsAssumption DEF IInv, TypeOK
  <1>2. PhaseInv'
    BY DEF IInv, TypeOK, PhaseInv
  <1>3. HandlerInv'
    BY JobsAssumption DEF IInv, TypeOK, HandlerInv
  <1>4. JobInv(k)'
    BY JobsAssumption DEF IInv, TypeOK, PhaseInv, HandlerInv, JobInv, ThreadInv,
           WaitInv, StatusInv, PrintInv, EventInv, DocumentInv, TaskInv, InFlight,
           Possible
  <1>5. ASSUME NEW j \in Jobs, j # k PROVE JobInv(j)'
    <2>1. JobInv(j)
      BY DEF IInv
    <2> QED BY <2>1, <1>5, Frame DEF IInv, TypeOK
  <1> QED BY <1>1, <1>2, <1>3, <1>4, <1>5 DEF IInv

\* One more poll; WaitInv keeps the count within MaxPolls.
LEMMA SleptStep ==
  ASSUME IInv, NEW k \in Jobs, Slept(k)
  PROVE  IInv'
  <1> USE DEF Slept, Await, rows, inbound
  <1>1. TypeOK'
    BY JobsAssumption DEF IInv, TypeOK, JobInv, WaitInv
  <1>2. PhaseInv'
    BY DEF IInv, TypeOK, PhaseInv
  <1>3. HandlerInv'
    BY JobsAssumption DEF IInv, TypeOK, HandlerInv
  <1>4. JobInv(k)'
    BY JobsAssumption DEF IInv, TypeOK, PhaseInv, HandlerInv, JobInv, ThreadInv,
           WaitInv, StatusInv, PrintInv, EventInv, DocumentInv, TaskInv, InFlight,
           Possible
  <1>5. ASSUME NEW j \in Jobs, j # k PROVE JobInv(j)'
    <2>1. JobInv(j)
      BY DEF IInv
    <2> QED BY <2>1, <1>5, Frame DEF IInv, TypeOK
  <1> QED BY <1>1, <1>2, <1>3, <1>4, <1>5 DEF IInv

\* PRINTING is on record before the document leaves.
LEMMA PrintingStoredStep ==
  ASSUME IInv, NEW k \in Jobs, PrintingStored(k)
  PROVE  IInv'
  <1> USE DEF PrintingStored, Await, Returned, emit, Bookkeeping, rows, inbound
  <1>1. TypeOK'
    BY JobsAssumption DEF IInv, TypeOK
  <1>2. PhaseInv'
    BY DEF IInv, TypeOK, PhaseInv
  <1>3. HandlerInv'
    BY JobsAssumption DEF IInv, TypeOK, HandlerInv
  <1>4. JobInv(k)'
    BY JobsAssumption DEF IInv, TypeOK, PhaseInv, HandlerInv, JobInv, ThreadInv,
           WaitInv, StatusInv, PrintInv, EventInv, DocumentInv, TaskInv, InFlight,
           Possible
  <1>5. ASSUME NEW j \in Jobs, j # k PROVE JobInv(j)'
    <2>1. JobInv(j)
      BY DEF IInv
    <2> QED BY <2>1, <1>5, Frame DEF IInv, TypeOK
  <1> QED BY <1>1, <1>2, <1>3, <1>4, <1>5 DEF IInv

\* The document goes to the printer: not printed before, and on record.
LEMMA StartedSentStep ==
  ASSUME IInv, NEW k \in Jobs, StartedSent(k)
  PROVE  IInv'
  <1> USE DEF StartedSent, Await, Bookkeeping, rows, inbound
  <1>1. TypeOK'
    BY JobsAssumption DEF IInv, TypeOK
  <1>2. PhaseInv'
    BY DEF IInv, TypeOK, PhaseInv
  <1>3. HandlerInv'
    BY JobsAssumption DEF IInv, TypeOK, HandlerInv
  <1>4. JobInv(k)'
    BY JobsAssumption DEF IInv, TypeOK, PhaseInv, HandlerInv, JobInv, ThreadInv,
           WaitInv, StatusInv, PrintInv, EventInv, DocumentInv, TaskInv, InFlight,
           Possible
  <1>5. ASSUME NEW j \in Jobs, j # k PROVE JobInv(j)'
    <2>1. JobInv(j)
      BY DEF IInv
    <2> QED BY <2>1, <1>5, Frame DEF IInv, TypeOK
  <1> QED BY <1>1, <1>2, <1>3, <1>4, <1>5 DEF IInv

\* The verdict of print().
LEMMA PrintReturnsStep ==
  ASSUME IInv, NEW k \in Jobs, PrintReturns(k)
  PROVE  IInv'
  <1> USE DEF PrintReturns, Await, AfterPrint, Bookkeeping, rows, inbound
  <1>1. TypeOK'
    BY JobsAssumption DEF IInv, TypeOK
  <1>2. PhaseInv'
    BY DEF IInv, TypeOK, PhaseInv
  <1>3. HandlerInv'
    BY JobsAssumption DEF IInv, TypeOK, HandlerInv
  <1>4. JobInv(k)'
    BY JobsAssumption DEF IInv, TypeOK, PhaseInv, HandlerInv, JobInv, ThreadInv,
           WaitInv, StatusInv, PrintInv, EventInv, DocumentInv, TaskInv, InFlight,
           Possible
  <1>5. ASSUME NEW j \in Jobs, j # k PROVE JobInv(j)'
    <2>1. JobInv(j)
      BY DEF IInv
    <2> QED BY <2>1, <1>5, Frame DEF IInv, TypeOK
  <1> QED BY <1>1, <1>2, <1>3, <1>4, <1>5 DEF IInv

\* The verdict is told after it is stored.
LEMMA VerdictStoredStep ==
  ASSUME IInv, NEW k \in Jobs, VerdictStored(k)
  PROVE  IInv'
  <1> USE DEF VerdictStored, Await, Returned, emit, Bookkeeping, rows, inbound
  <1>1. TypeOK'
    BY JobsAssumption DEF IInv, TypeOK
  <1>2. PhaseInv'
    BY DEF IInv, TypeOK, PhaseInv
  <1>3. HandlerInv'
    BY JobsAssumption DEF IInv, TypeOK, HandlerInv
  <1>4. JobInv(k)'
    BY JobsAssumption DEF IInv, TypeOK, PhaseInv, HandlerInv, JobInv, ThreadInv,
           WaitInv, StatusInv, PrintInv, EventInv, DocumentInv, TaskInv, InFlight,
           Possible
  <1>5. ASSUME NEW j \in Jobs, j # k PROVE JobInv(j)'
    <2>1. JobInv(j)
      BY DEF IInv
    <2> QED BY <2>1, <1>5, Frame DEF IInv, TypeOK
  <1> QED BY <1>1, <1>2, <1>3, <1>4, <1>5 DEF IInv

\* The coroutine ends.
LEMMA VerdictSentStep ==
  ASSUME IInv, NEW k \in Jobs, VerdictSent(k)
  PROVE  IInv'
  <1> USE DEF VerdictSent, Finish, Await, rows, inbound
  <1>1. TypeOK'
    BY JobsAssumption DEF IInv, TypeOK
  <1>2. PhaseInv'
    BY DEF IInv, TypeOK, PhaseInv
  <1>3. HandlerInv'
    BY JobsAssumption DEF IInv, TypeOK, HandlerInv
  <1>4. JobInv(k)'
    BY JobsAssumption DEF IInv, TypeOK, PhaseInv, HandlerInv, JobInv, ThreadInv,
           WaitInv, StatusInv, PrintInv, EventInv, DocumentInv, TaskInv, InFlight,
           Possible
  <1>5. ASSUME NEW j \in Jobs, j # k PROVE JobInv(j)'
    <2>1. JobInv(j)
      BY DEF IInv
    <2> QED BY <2>1, <1>5, Frame DEF IInv, TypeOK
  <1> QED BY <1>1, <1>2, <1>3, <1>4, <1>5 DEF IInv

\* An exception _process does not catch.
LEMMA TaskRaisesStep ==
  ASSUME IInv, NEW k \in Jobs, TaskRaises(k)
  PROVE  IInv'
  <1> USE DEF TaskRaises, Unwind, rows, inbound
  <1>1. TypeOK'
    BY JobsAssumption DEF IInv, TypeOK
  <1>2. PhaseInv'
    BY DEF IInv, TypeOK, PhaseInv
  <1>3. HandlerInv'
    BY JobsAssumption DEF IInv, TypeOK, HandlerInv
  <1>4. JobInv(k)'
    BY JobsAssumption DEF IInv, TypeOK, PhaseInv, HandlerInv, JobInv, ThreadInv,
           WaitInv, StatusInv, PrintInv, EventInv, DocumentInv, TaskInv, InFlight,
           Possible
  <1>5. ASSUME NEW j \in Jobs, j # k PROVE JobInv(j)'
    <2>1. JobInv(j)
      BY DEF IInv
    <2> QED BY <2>1, <1>5, Frame DEF IInv, TypeOK
  <1> QED BY <1>1, <1>2, <1>3, <1>4, <1>5 DEF IInv

\* The unconditional UPDATE of a pool thread, orphaned or not.
LEMMA RunUpdateStep ==
  ASSUME IInv, NEW k \in Jobs, RunUpdate(k)
  PROVE  IInv'
  <1> USE DEF RunUpdate, Outcome, update_status, UpdateTo, Bookkeeping, inbound
  <1>1. TypeOK'
    BY JobsAssumption DEF IInv, TypeOK
  <1>2. PhaseInv'
    BY DEF IInv, TypeOK, PhaseInv
  <1>3. HandlerInv'
    BY JobsAssumption DEF IInv, TypeOK, HandlerInv, JobInv, TaskInv, StatusInv,
           Possible
  <1>4. JobInv(k)'
    BY JobsAssumption DEF IInv, TypeOK, PhaseInv, HandlerInv, JobInv, ThreadInv,
           WaitInv, StatusInv, PrintInv, EventInv, DocumentInv, TaskInv, InFlight,
           Possible
  <1>5. ASSUME NEW j \in Jobs, j # k PROVE JobInv(j)'
    <2>1. JobInv(j)
      BY DEF IInv
    <2> QED BY <2>1, <1>5, Frame DEF IInv, TypeOK
  <1> QED BY <1>1, <1>2, <1>3, <1>4, <1>5 DEF IInv

\* The write of local_file_path, orphaned or not.
LEMMA RunSetPathStep ==
  ASSUME IInv, NEW k \in Jobs, RunSetPath(k)
  PROVE  IInv'
  <1> USE DEF RunSetPath, Outcome, Bookkeeping, inbound
  <1>1. TypeOK'
    BY JobsAssumption DEF IInv, TypeOK
  <1>2. PhaseInv'
    BY DEF IInv, TypeOK, PhaseInv
  <1>3. HandlerInv'
    BY JobsAssumption DEF IInv, TypeOK, HandlerInv
  <1>4. JobInv(k)'
    BY JobsAssumption DEF IInv, TypeOK, PhaseInv, HandlerInv, JobInv, ThreadInv,
           WaitInv, StatusInv, PrintInv, EventInv, DocumentInv, TaskInv, InFlight,
           Possible
  <1>5. ASSUME NEW j \in Jobs, j # k PROVE JobInv(j)'
    <2>1. JobInv(j)
      BY DEF IInv
    <2> QED BY <2>1, <1>5, Frame DEF IInv, TypeOK
  <1> QED BY <1>1, <1>2, <1>3, <1>4, <1>5 DEF IInv

\* The print helper: the only step that puts paper out.
LEMMA RunPrintStep ==
  ASSUME IInv, NEW k \in Jobs, RunPrint(k)
  PROVE  IInv'
  <1> USE DEF RunPrint, Outcome, Bookkeeping, rows, inbound
  <1>1. TypeOK'
    BY JobsAssumption DEF IInv, TypeOK
  <1>2. PhaseInv'
    BY DEF IInv, TypeOK, PhaseInv
  <1>3. HandlerInv'
    BY JobsAssumption DEF IInv, TypeOK, HandlerInv
  <1>4. JobInv(k)'
    BY JobsAssumption DEF IInv, TypeOK, PhaseInv, HandlerInv, JobInv, ThreadInv,
           WaitInv, StatusInv, PrintInv, EventInv, DocumentInv, TaskInv, InFlight,
           Possible
  <1>5. ASSUME NEW j \in Jobs, j # k PROVE JobInv(j)'
    <2>1. JobInv(j)
      BY DEF IInv
    <2> QED BY <2>1, <1>5, Frame DEF IInv, TypeOK
  <1> QED BY <1>1, <1>2, <1>3, <1>4, <1>5 DEF IInv

-----------------------------------------------------------------------------
(* The inbound handler. *)

\* A dispatch arrives.
LEMMA ReceiveDispatchStep ==
  ASSUME IInv, NEW k \in Jobs, ReceiveDispatch(k)
  PROVE  IInv'
  <1> USE DEF ReceiveDispatch, rows, taskVars, Bookkeeping
  <1>1. TypeOK'
    BY JobsAssumption DEF IInv, TypeOK
  <1>2. PhaseInv'
    BY DEF IInv, TypeOK, PhaseInv
  <1>3. HandlerInv'
    BY JobsAssumption DEF IInv, TypeOK, HandlerInv
  <1>4. ASSUME NEW j \in Jobs PROVE JobInv(j)'
    BY JobsAssumption DEF IInv, TypeOK, PhaseInv, HandlerInv, JobInv, ThreadInv,
           WaitInv, StatusInv, PrintInv, EventInv, DocumentInv, TaskInv, InFlight,
           Possible
  <1> QED BY <1>1, <1>2, <1>3, <1>4 DEF IInv

\* A cancel arrives.
LEMMA ReceiveCancelStep ==
  ASSUME IInv, NEW k \in Cancellable, ReceiveCancel(k)
  PROVE  IInv'
  <1> USE DEF ReceiveCancel, rows
  <1>1. TypeOK'
    BY JobsAssumption DEF IInv, TypeOK
  <1>2. PhaseInv'
    BY DEF IInv, TypeOK, PhaseInv
  <1>3. HandlerInv'
    BY JobsAssumption DEF IInv, TypeOK, HandlerInv
  <1>4. ASSUME NEW j \in Jobs PROVE JobInv(j)'
    BY JobsAssumption DEF IInv, TypeOK, PhaseInv, HandlerInv, JobInv, ThreadInv,
           WaitInv, StatusInv, PrintInv, EventInv, DocumentInv, TaskInv, InFlight,
           Possible
  <1> QED BY <1>1, <1>2, <1>3, <1>4 DEF IInv

\* The handler reads the row.
LEMMA HandlerReadsStep ==
  ASSUME IInv, HandlerReads
  PROVE  IInv'
  <1> USE DEF HandlerReads, rows, taskVars, Bookkeeping
  <1>1. TypeOK'
    BY JobsAssumption DEF IInv, TypeOK, HandlerInv
  <1>2. PhaseInv'
    BY DEF IInv, TypeOK, PhaseInv
  <1>3. HandlerInv'
    BY JobsAssumption DEF IInv, TypeOK, HandlerInv, JobInv, TaskInv, PrintInv
  <1>4. ASSUME NEW j \in Jobs PROVE JobInv(j)'
    BY JobsAssumption DEF IInv, TypeOK, PhaseInv, HandlerInv, JobInv, ThreadInv,
           WaitInv, StatusInv, PrintInv, EventInv, DocumentInv, TaskInv, InFlight,
           Possible
  <1> QED BY <1>1, <1>2, <1>3, <1>4 DEF IInv

\* What a dispatch does depends on the row that was read.
LEMMA DispatchDecidesStep ==
  ASSUME IInv, DispatchDecides
  PROVE  IInv'
  <1> USE DEF DispatchDecides, HandlerIdle, rows, taskVars, Bookkeeping
  <1>1. TypeOK'
    BY JobsAssumption DEF IInv, TypeOK
  <1>2. PhaseInv'
    BY DEF IInv, TypeOK, PhaseInv
  <1>3. HandlerInv'
    BY JobsAssumption DEF IInv, TypeOK, HandlerInv
  <1>4. ASSUME NEW j \in Jobs PROVE JobInv(j)'
    BY JobsAssumption DEF IInv, TypeOK, PhaseInv, HandlerInv, JobInv, ThreadInv,
           WaitInv, StatusInv, PrintInv, EventInv, DocumentInv, TaskInv, InFlight,
           Possible
  <1> QED BY <1>1, <1>2, <1>3, <1>4 DEF IInv

\* The row is created: no trace of the job existed.
LEMMA insert_receivedStep ==
  ASSUME IInv, insert_received
  PROVE  IInv'
  <1> USE DEF insert_received, taskVars, Bookkeeping
  <1>1. TypeOK'
    BY JobsAssumption DEF IInv, TypeOK
  <1>2. PhaseInv'
    BY DEF IInv, TypeOK, PhaseInv
  <1>3. HandlerInv'
    BY JobsAssumption DEF IInv, TypeOK, HandlerInv, JobInv, PrintInv
  <1>4. ASSUME NEW j \in Jobs PROVE JobInv(j)'
    BY JobsAssumption DEF IInv, TypeOK, PhaseInv, HandlerInv, JobInv, ThreadInv,
           WaitInv, StatusInv, PrintInv, EventInv, DocumentInv, TaskInv, InFlight,
           Possible
  <1> QED BY <1>1, <1>2, <1>3, <1>4 DEF IInv

\* The coroutine of a new row starts.
LEMMA AcknowledgeStep ==
  ASSUME IInv, Acknowledge
  PROVE  IInv'
  <1> USE DEF Acknowledge, Await, emit, HandlerIdle, rows
  <1>1. TypeOK'
    BY JobsAssumption DEF IInv, TypeOK, HandlerInv
  <1>2. PhaseInv'
    BY DEF IInv, TypeOK, PhaseInv
  <1>3. HandlerInv'
    BY JobsAssumption DEF IInv, TypeOK, HandlerInv
  <1>4. ASSUME NEW j \in Jobs PROVE JobInv(j)'
    BY JobsAssumption DEF IInv, TypeOK, PhaseInv, HandlerInv, JobInv, ThreadInv,
           WaitInv, StatusInv, PrintInv, EventInv, DocumentInv, TaskInv, InFlight,
           Possible
  <1> QED BY <1>1, <1>2, <1>3, <1>4 DEF IInv

\* The stored verdict is told again.
LEMMA resend_terminal_eventStep ==
  ASSUME IInv, resend_terminal_event
  PROVE  IInv'
  <1> USE DEF resend_terminal_event, emit, HandlerIdle, VerdictEvent, rows,
              taskVars, Bookkeeping
  <1>1. TypeOK'
    BY JobsAssumption DEF IInv, TypeOK, HandlerInv
  <1>2. PhaseInv'
    BY DEF IInv, TypeOK, PhaseInv
  <1>3. HandlerInv'
    BY JobsAssumption DEF IInv, TypeOK, HandlerInv
  <1>4. ASSUME NEW j \in Jobs PROVE JobInv(j)'
    BY JobsAssumption DEF IInv, TypeOK, PhaseInv, HandlerInv, JobInv, ThreadInv,
           WaitInv, StatusInv, PrintInv, EventInv, DocumentInv, TaskInv, InFlight,
           Possible
  <1> QED BY <1>1, <1>2, <1>3, <1>4 DEF IInv

\* A cancel ends the coroutine, perhaps leaving an orphan.
LEMMA CancelDecidesStep ==
  ASSUME IInv, CancelDecides
  PROVE  IInv'
  <1> USE DEF CancelDecides, Unwind, HandlerIdle, rows, taskVars, Bookkeeping
  <1>1. TypeOK'
    BY JobsAssumption DEF IInv, TypeOK
  <1>2. PhaseInv'
    BY DEF IInv, TypeOK, PhaseInv
  <1>3. HandlerInv'
    BY JobsAssumption DEF IInv, TypeOK, HandlerInv, JobInv, TaskInv, PrintInv
  <1>4. ASSUME NEW j \in Jobs PROVE JobInv(j)'
    BY JobsAssumption DEF IInv, TypeOK, PhaseInv, HandlerInv, JobInv, ThreadInv,
           WaitInv, StatusInv, PrintInv, EventInv, DocumentInv, TaskInv, InFlight,
           Possible
  <1> QED BY <1>1, <1>2, <1>3, <1>4 DEF IInv

\* CANCELLED is written over whatever the row holds.
LEMMA CancelStoredStep ==
  ASSUME IInv, CancelStored
  PROVE  IInv'
  <1> USE DEF CancelStored, update_status, taskVars, Bookkeeping
  <1>1. TypeOK'
    BY JobsAssumption DEF IInv, TypeOK
  <1>2. PhaseInv'
    BY DEF IInv, TypeOK, PhaseInv
  <1>3. HandlerInv'
    BY JobsAssumption DEF IInv, TypeOK, HandlerInv, JobInv, PrintInv
  <1>4. ASSUME NEW j \in Jobs PROVE JobInv(j)'
    BY JobsAssumption DEF IInv, TypeOK, PhaseInv, HandlerInv, JobInv, ThreadInv,
           WaitInv, StatusInv, PrintInv, EventInv, DocumentInv, TaskInv, InFlight,
           Possible
  <1> QED BY <1>1, <1>2, <1>3, <1>4 DEF IInv

\* The cancel is reported.
LEMMA SendCancelledStep ==
  ASSUME IInv, SendCancelled
  PROVE  IInv'
  <1> USE DEF SendCancelled, emit, HandlerIdle, rows, taskVars, Bookkeeping
  <1>1. TypeOK'
    BY JobsAssumption DEF IInv, TypeOK
  <1>2. PhaseInv'
    BY DEF IInv, TypeOK, PhaseInv
  <1>3. HandlerInv'
    BY JobsAssumption DEF IInv, TypeOK, HandlerInv
  <1>4. ASSUME NEW j \in Jobs PROVE JobInv(j)'
    BY JobsAssumption DEF IInv, TypeOK, PhaseInv, HandlerInv, JobInv, ThreadInv,
           WaitInv, StatusInv, PrintInv, EventInv, DocumentInv, TaskInv, InFlight,
           Possible
  <1> QED BY <1>1, <1>2, <1>3, <1>4 DEF IInv

-----------------------------------------------------------------------------
(* Crash and recovery. *)

\* Only rows, files and print helpers survive.
LEMMA CrashStep ==
  ASSUME IInv, Crash
  PROVE  IInv'
  <1> USE DEF Crash, HandlerIdle, rows
  <1>1. TypeOK'
    BY JobsAssumption DEF IInv, TypeOK
  <1>2. PhaseInv'
    BY DEF IInv, TypeOK, PhaseInv
  <1>3. HandlerInv'
    BY JobsAssumption DEF IInv, TypeOK, HandlerInv, PhaseInv
  <1>4. ASSUME NEW j \in Jobs PROVE JobInv(j)'
    BY JobsAssumption DEF IInv, TypeOK, PhaseInv, HandlerInv, JobInv, ThreadInv,
           WaitInv, StatusInv, PrintInv, EventInv, DocumentInv, TaskInv, InFlight,
           Possible
  <1> QED BY <1>1, <1>2, <1>3, <1>4 DEF IInv

\* A file disappears between two runs.
LEMMA DownloadsCleanedStep ==
  ASSUME IInv, NEW k \in Jobs, DownloadsCleaned(k)
  PROVE  IInv'
  <1> USE DEF DownloadsCleaned, rows, inbound, taskVars, Bookkeeping
  <1>1. TypeOK'
    BY JobsAssumption DEF IInv, TypeOK
  <1>2. PhaseInv'
    BY DEF IInv, TypeOK, PhaseInv
  <1>3. HandlerInv'
    BY JobsAssumption DEF IInv, TypeOK, HandlerInv, PhaseInv
  <1>4. ASSUME NEW j \in Jobs PROVE JobInv(j)'
    BY JobsAssumption DEF IInv, TypeOK, PhaseInv, HandlerInv, JobInv, ThreadInv,
           WaitInv, StatusInv, PrintInv, EventInv, DocumentInv, TaskInv, InFlight,
           Possible
  <1> QED BY <1>1, <1>2, <1>3, <1>4 DEF IInv

\* Start-up gives up what was printing.
LEMMA mark_stuck_printing_as_failedStep ==
  ASSUME IInv, mark_stuck_printing_as_failed
  PROVE  IInv'
  <1> USE DEF mark_stuck_printing_as_failed, Recovered, inbound, taskVars,
              Bookkeeping
  <1>1. TypeOK'
    BY JobsAssumption DEF IInv, TypeOK
  <1>2. PhaseInv'
    BY DEF IInv, TypeOK, PhaseInv
  <1>3. HandlerInv'
    BY JobsAssumption DEF IInv, TypeOK, HandlerInv, PhaseInv
  <1>4. ASSUME NEW j \in Jobs PROVE JobInv(j)'
    BY JobsAssumption DEF IInv, TypeOK, PhaseInv, HandlerInv, JobInv, ThreadInv,
           WaitInv, StatusInv, PrintInv, EventInv, DocumentInv, TaskInv, InFlight,
           Possible
  <1> QED BY <1>1, <1>2, <1>3, <1>4 DEF IInv

\* A job given up at start-up is reported.
LEMMA ReportStuckStep ==
  ASSUME IInv, NEW k \in Jobs, ReportStuck(k)
  PROVE  IInv'
  <1> USE DEF ReportStuck, emit, rows, inbound, taskVars, Bookkeeping
  <1>1. TypeOK'
    BY JobsAssumption DEF IInv, TypeOK
  <1>2. PhaseInv'
    BY DEF IInv, TypeOK, PhaseInv
  <1>3. HandlerInv'
    BY JobsAssumption DEF IInv, TypeOK, HandlerInv, PhaseInv
  <1>4. ASSUME NEW j \in Jobs PROVE JobInv(j)'
    BY JobsAssumption DEF IInv, TypeOK, PhaseInv, HandlerInv, JobInv, ThreadInv,
           WaitInv, StatusInv, PrintInv, EventInv, DocumentInv, TaskInv, InFlight,
           Possible
  <1> QED BY <1>1, <1>2, <1>3, <1>4 DEF IInv

\* Start-up resumes what was not offered to the printer.
LEMMA ResumeJobsStep ==
  ASSUME IInv, ResumeJobs
  PROVE  IInv'
  <1> USE DEF ResumeJobs, ToResume, rows, inbound
  <1>1. TypeOK'
    BY JobsAssumption DEF IInv, TypeOK
  <1>2. PhaseInv'
    BY DEF IInv, TypeOK, PhaseInv
  <1>3. HandlerInv'
    BY JobsAssumption DEF IInv, TypeOK, HandlerInv, PhaseInv
  <1>4. ASSUME NEW j \in Jobs PROVE JobInv(j)'
    BY JobsAssumption DEF IInv, TypeOK, PhaseInv, HandlerInv, JobInv, ThreadInv,
           WaitInv, StatusInv, PrintInv, EventInv, DocumentInv, TaskInv, InFlight,
           Possible
  <1> QED BY <1>1, <1>2, <1>3, <1>4 DEF IInv

-----------------------------------------------------------------------------
(* The specification. *)

\* IInv is inductive.
LEMMA NextIInv == IInv /\ [Next]_vars => IInv'
  <1> SUFFICES ASSUME IInv, [Next]_vars PROVE IInv'
    OBVIOUS
  <1>1. ASSUME NEW k \in Jobs, TaskStep(k) PROVE IInv'
    BY <1>1, ReadRecordStep, DownloadOpensStep, DownloadEndsStep, DownloadFailsStep,
       PathStoredStep, PrinterAnswersStep, WaitingStoredStep, SleptStep, PrintingStoredStep,
       StartedSentStep, PrintReturnsStep, VerdictStoredStep, VerdictSentStep DEF TaskStep
  <1>2. ASSUME NEW k \in Jobs, ThreadStep(k) \/ TaskRaises(k) PROVE IInv'
    BY <1>2, RunUpdateStep, RunSetPathStep, RunPrintStep, TaskRaisesStep DEF ThreadStep
  <1>3. ASSUME NEW k \in Jobs, ReceiveDispatch(k) PROVE IInv'
    BY <1>3, ReceiveDispatchStep
  <1>4. ASSUME NEW k \in Cancellable, ReceiveCancel(k) PROVE IInv'
    BY <1>4, ReceiveCancelStep
  <1>5. CASE HandlerStep
    BY <1>5, HandlerReadsStep, DispatchDecidesStep, insert_receivedStep, AcknowledgeStep,
       resend_terminal_eventStep, CancelDecidesStep, CancelStoredStep, SendCancelledStep
       DEF HandlerStep
  <1>6. CASE Recovery
    BY <1>6, mark_stuck_printing_as_failedStep, ReportStuckStep, ResumeJobsStep DEF Recovery
  <1>7. CASE Crash
    BY <1>7, CrashStep
  <1>8. ASSUME NEW k \in Jobs, DownloadsCleaned(k) PROVE IInv'
    BY <1>8, DownloadsCleanedStep
  <1>9. CASE UNCHANGED vars
    BY <1>9 DEF vars, rows, taskVars, Bookkeeping, inbound, IInv, TypeOK, PhaseInv, HandlerInv,
            JobInv, ThreadInv, WaitInv, StatusInv, PrintInv, EventInv, DocumentInv, TaskInv,
            InFlight, Possible
  <1> QED BY <1>1, <1>2, <1>3, <1>4, <1>5, <1>6, <1>7, <1>8, <1>9 DEF Next

\* The inductive invariant holds in every reachable state of the pipeline: which
\* status, file and event a job can have at each await of its coroutine, through
\* orphaned pool calls, crashes and recoveries.
THEOREM Invariance == Spec => []IInv
  BY InitIInv, NextIInv, PTL DEF Spec

\* The agent's state keeps its shape; in particular _wait_for_printer never
\* polls more than MaxPolls times.
THEOREM TypeCorrect == Spec => []TypeOK
  <1>1. IInv => TypeOK
    BY DEF IInv
  <1> QED BY <1>1, Invariance, PTL

\* However jobs are re-dispatched, cancelled, crash or raise, no document is put
\* on paper by two calls of print().
THEOREM PrintedAtMostOnce == Spec => []AtMostOncePrint
  <1>1. IInv => AtMostOncePrint
    BY DEF IInv, JobInv, PrintInv, AtMostOncePrint
  <1> QED BY <1>1, Invariance, PTL

\* The record of a print precedes the print and is never taken back.
THEOREM PrintsAreOnRecord == Spec => []PrintIsOnRecord
  <1>1. IInv => PrintIsOnRecord
    BY DEF IInv, TypeOK, JobInv, PrintInv, StatusInv, Possible, PrintIsOnRecord
  <1> QED BY <1>1, Invariance, PTL

\* COMPLETED, stored or told, is the truth.
THEOREM CompletedIsPrinted == Spec => []CompletedMeansPrinted
  <1>1. IInv => CompletedMeansPrinted
    BY DEF IInv, JobInv, PrintInv, CompletedMeansPrinted
  <1> QED BY <1>1, Invariance, PTL

\* Acknowledgements and verdicts are told after they are committed.
THEOREM EventsAfterCommits == Spec => []EventsFollowCommits
  <1>1. IInv => EventsFollowCommits
    BY DEF IInv, JobInv, PrintInv, EventInv, EventsFollowCommits
  <1> QED BY <1>1, Invariance, PTL

\* No truncated document is offered to the printer.
THEOREM WholeDocuments == Spec => []PrintsWholeDocument
  <1>1. IInv => PrintsWholeDocument
    BY DEF IInv, JobInv, DocumentInv, PrintsWholeDocument
  <1> QED BY <1>1, Invariance, PTL

\* No unfinished job is without its coroutine while the agent runs.
THEOREM NoJobForgotten == Spec => []InFlightHasTask
  <1>1. IInv => InFlightHasTask
    BY DEF IInv, JobInv, TaskInv, InFlightHasTask
  <1> QED BY <1>1, Invariance, PTL

\* A cancel that is reported has ended the job's coroutine.
THEOREM CancelEndsCoroutine == Spec => []CancelStopsCoroutine
  <1>1. IInv => CancelStopsCoroutine
    BY DEF IInv, HandlerInv, CancelStopsCoroutine
  <1> QED BY <1>1, Invariance, PTL

-----------------------------------------------------------------------------
(* Steps that change a row or put paper out, and the others. *)

\* Only five actions touch a status or the paper.
LEMMA QuietSteps ==
  ASSUME [Next]_vars,
         ~ \E j \in Jobs : RunUpdate(j) \/ RunPrint(j),
         ~ insert_received, ~ CancelStored, ~ mark_stuck_printing_as_failed
  PROVE  UNCHANGED <<status, printed>>
  <1> USE DEF rows
  <1>1. ASSUME NEW k \in Jobs, TaskStep(k) PROVE UNCHANGED <<status, printed>>
    BY <1>1 DEF TaskStep, ReadRecord, DownloadOpens, DownloadEnds, DownloadFails, PathStored,
            PrinterAnswers, WaitingStored, Slept, PrintingStored, StartedSent, PrintReturns,
            VerdictStored, VerdictSent
  <1>2. ASSUME NEW k \in Jobs, ThreadStep(k) \/ TaskRaises(k) PROVE UNCHANGED <<status, printed>>
    BY <1>2 DEF ThreadStep, RunSetPath, TaskRaises
  <1>3. CASE HandlerStep
    BY <1>3 DEF HandlerStep, HandlerReads, DispatchDecides, Acknowledge, resend_terminal_event,
            CancelDecides, SendCancelled
  <1>4. CASE Recovery \/ Crash
    BY <1>4 DEF Recovery, ReportStuck, ResumeJobs, Crash
  <1>5. ASSUME NEW k \in Jobs, DownloadsCleaned(k) \/ ReceiveDispatch(k)
        PROVE  UNCHANGED <<status, printed>>
    BY <1>5 DEF DownloadsCleaned, ReceiveDispatch
  <1>6. ASSUME NEW k \in Cancellable, ReceiveCancel(k) PROVE UNCHANGED <<status, printed>>
    BY <1>6 DEF ReceiveCancel
  <1>7. CASE UNCHANGED vars
    BY <1>7 DEF vars
  <1> QED BY <1>1, <1>2, <1>3, <1>4, <1>5, <1>6, <1>7 DEF Next

\* Every step changes rows along the table of state_machine.py, or cancels.
LEMMA StepFollowsTable ==
  ASSUME IInv, [Next]_vars, NEW j \in Jobs
  PROVE  LegalChange(j)
  <1> USE DEF LegalChange, is_legal_transition, LEGAL_TRANSITIONS, IInv, TypeOK
  <1>1. ASSUME NEW k \in Jobs, RunUpdate(k) PROVE LegalChange(j)
    BY <1>1 DEF RunUpdate, update_status, UpdateTo, JobInv, StatusInv, Possible
  <1>2. ASSUME NEW k \in Jobs, RunPrint(k) PROVE LegalChange(j)
    BY <1>2 DEF RunPrint, rows
  <1>3. CASE insert_received
    BY <1>3 DEF insert_received
  <1>4. CASE CancelStored
    BY <1>4 DEF CancelStored, update_status, HandlerInv
  <1>5. CASE mark_stuck_printing_as_failed
    BY <1>5 DEF mark_stuck_printing_as_failed, Recovered
  <1> QED BY <1>1, <1>2, <1>3, <1>4, <1>5, QuietSteps

\* Without a cancel no row ever changes against the table of state_machine.py,
\* although the store's UPDATE never looks at it.
THEOREM TableFollowed == Spec => FollowsTable
  <1>1. IInv /\ [Next]_vars => [\A j \in Jobs : LegalChange(j)]_vars
    BY StepFollowsTable
  <1> QED BY <1>1, Invariance, PTL DEF Spec, FollowsTable

-----------------------------------------------------------------------------
(* Refinement. *)

\* Every step of the pipeline is a step of PrintLifecycle or a stutter.
LEMMA StepImplements ==
  ASSUME Cancellable = {}, IInv, [Next]_vars
  PROVE  [Lifecycle!LNext]_(Lifecycle!lifecycleVars)
  <1> USE DEF Lifecycle!LNext, Lifecycle!lifecycleVars, IInv, TypeOK
  <1>1. ASSUME NEW k \in Jobs, RunUpdate(k)
        PROVE  \/ \E s \in Status \ {"CANCELLED"} : Lifecycle!Advance(k, s)
               \/ UNCHANGED <<status, printed>>
    <2>1. status[k] # NoRow /\ status[k] # "CANCELLED"
      BY <1>1 DEF RunUpdate, JobInv, PrintInv, StatusInv
    <2> DEFINE s == UpdateTo[thread[k]]
    <2>2. s \in Status \ {"CANCELLED"} /\ UNCHANGED printed
      BY <1>1 DEF RunUpdate, UpdateTo
    <2>3. status' = [status EXCEPT ![k] = s]
      BY <1>1, <2>1 DEF RunUpdate, update_status
    <2>4. s \in LEGAL_TRANSITIONS[status[k]] \/ s = status[k]
      BY <1>1, <2>1 DEF RunUpdate, UpdateTo, LEGAL_TRANSITIONS, JobInv, StatusInv, Possible
    <2>5. s = "COMPLETED" => printed[k] = 1
      BY <1>1 DEF RunUpdate, UpdateTo, JobInv, PrintInv
    <2>6. CASE s \in LEGAL_TRANSITIONS[status[k]]
      BY <2>1, <2>2, <2>3, <2>5, <2>6 DEF Lifecycle!Advance, Lifecycle!Unknown,
         Lifecycle!LEGAL_TRANSITIONS, LEGAL_TRANSITIONS
    <2>7. CASE s = status[k]
      BY <2>2, <2>3, <2>7
    <2> QED BY <2>4, <2>6, <2>7
  <1>2. ASSUME NEW k \in Jobs, RunPrint(k)
        PROVE  Lifecycle!Output(k) \/ UNCHANGED <<status, printed>>
    <2>1. status[k] \in {"PRINTING", "FAILED"} /\ printed[k] = 0
      BY <1>2 DEF RunPrint, JobInv, PrintInv, StatusInv, Possible
    <2>2. PICK accepted \in BOOLEAN :
            printed' = [printed EXCEPT ![k] = IF accepted THEN @ + 1 ELSE @]
      BY <1>2 DEF RunPrint
    <2>3. UNCHANGED status
      BY <1>2 DEF RunPrint, rows
    <2>4. CASE accepted
      BY <2>1, <2>2, <2>3, <2>4 DEF Lifecycle!Output
    <2>5. CASE ~ accepted
      BY <2>2, <2>3, <2>5
    <2> QED BY <2>4, <2>5
  <1>3. ASSUME insert_received
        PROVE  Lifecycle!Accept(target) \/ UNCHANGED <<status, printed>>
    BY <1>3 DEF insert_received, Lifecycle!Accept, Lifecycle!Unknown
  <1>4. ~ CancelStored
    BY DEF CancelStored, HandlerInv
  <1>5. CASE mark_stuck_printing_as_failed
    BY <1>5 DEF mark_stuck_printing_as_failed, Recovered, Lifecycle!GiveUpPrinting
  <1>6. insert_received => target \in Jobs
    BY DEF insert_received, HandlerInv
  <1> QED BY <1>1, <1>2, <1>3, <1>4, <1>5, <1>6, QuietSteps DEF Lifecycle!Status

\* The pipeline with its coroutines, threads, crashes and recoveries implements
\* the lifecycle the documentation promises, as long as nothing is cancelled.
THEOREM PipelineImplementsLifecycle ==
  ASSUME Cancellable = {}
  PROVE  Spec => ImplementsLifecycle
  <1>1. Init => Lifecycle!LInit
    BY DEF Init, Lifecycle!LInit, Lifecycle!Unknown
  <1>2. IInv /\ [Next]_vars => [Lifecycle!LNext]_(Lifecycle!lifecycleVars)
    BY StepImplements
  <1> QED BY <1>1, <1>2, Invariance, PTL DEF Spec, ImplementsLifecycle, Lifecycle!LSpec
=============================================================================
