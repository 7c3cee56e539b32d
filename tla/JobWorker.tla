------------------------------ MODULE JobWorker ------------------------------
(***************************************************************************)
(* The print pipeline of core/job_worker.py on top of the SQLite queue of  *)
(* db/queue_store.py, with the start-up recovery of core/agent.py:         *)
(* persist -> acknowledge -> download -> wait for printer -> print.        *)
(*                                                                         *)
(* Three kinds of actor interleave at every await.                         *)
(*   - One inbound handler: ws_client awaits handle_dispatch/handle_cancel *)
(*     before it reads the next message, so the handler is serial.         *)
(*   - One coroutine _process per job; pc[j] is the await it stands at.    *)
(*   - Pool threads: asyncio.to_thread runs a call outside the event loop. *)
(*     thread[j] is the call the job's coroutine submitted.  Cancelling    *)
(*     the coroutine does not stop a call that is already running: the     *)
(*     call stays in thread[j] as an orphan and still takes effect.        *)
(* A crash wipes the process; rows, files and the operating system's print *)
(* helper (an external process) survive it.                                *)
(***************************************************************************)
EXTENDS Naturals, PrintJobStatus

CONSTANTS
  Jobs,          \* job ids
  NoJob,         \* the handler's target while it is idle
  Cancellable,   \* jobs for which the hub may send print.job.cancel
  Faulty,        \* jobs whose calls may raise what _process does not catch
  Cleanable,     \* jobs whose downloaded file may be deleted between two runs
  MaxPolls       \* WAIT_FOR_PRINTER_MAX_SECONDS / WAIT_FOR_PRINTER_POLL_SECONDS

ASSUME JobsAssumption ==
  /\ NoJob \notin Jobs
  /\ Cancellable \subseteq Jobs
  /\ Faulty \subseteq Jobs
  /\ Cleanable \subseteq Jobs
  /\ MaxPolls \in Nat \ {0}

NoRow == "NO_ROW"                        \* get() returned None

\* What recovery puts back into the pipeline, and what a cancel may still stop.
RESUMABLE == {"RECEIVED", "WAITING_FOR_PRINTER"}

\* The update_status calls of _process and _fail, and the status each writes.
UpdateTo ==
  [ update_WAITING   |-> "WAITING_FOR_PRINTER",
    update_PRINTING  |-> "PRINTING",
    update_COMPLETED |-> "COMPLETED",
    update_FAILED    |-> "FAILED" ]
UpdateOps == {"update_WAITING", "update_PRINTING", "update_COMPLETED", "update_FAILED"}

PoolOps == UpdateOps \cup {"set_local_file_path", "print"}

\* Where a handler of the inbound loop can be suspended.
HandlerPoints ==
  {"idle", "dispatch_get", "dispatch_seen", "insert", "ack", "resend",
   "cancel_get", "cancel_seen", "cancel_update", "cancel_send"}

\* Where _process can be suspended.
TaskPoints ==
  PoolOps \cup {"none", "get", "download", "downloading", "get_status", "sleep",
                "poll", "send_started", "send_verdict"}

Events == {"received", "started", "completed", "failed", "cancelled"}

VARIABLES
  phase,      \* "down", "notify" (reporting stuck jobs), "run"
  status,     \* print_jobs.status by job
  path,       \* is print_jobs.local_file_path set?
  file,       \* the document on disk: "absent", "partial", "complete"
  pc,         \* the await each job's coroutine stands at, "none" if it has none
  thread,     \* the job's pool call: its name until it has run, then its outcome
  waited,     \* polls made by _wait_for_printer
  tasks,      \* keys of JobWorker._tasks
  cancelReq,  \* JobWorker._cancel_requested
  handler, target, seen,   \* the inbound handler: where, for which job, what it read
  stuck,      \* jobs marked FAILED at start-up and not reported yet
  printed,    \* calls of print() that put the document on paper
  emitted     \* events handed to ws_client.send

rows == <<status, path>>
Bookkeeping == <<waited, tasks, cancelReq>>
taskVars == <<pc, thread, Bookkeeping>>
inbound == <<handler, target, seen>>
vars == <<phase, rows, file, taskVars, inbound, stuck, printed, emitted>>

\* The one type invariant: the shape of the agent's durable and volatile state.
TypeOK ==
  /\ phase \in {"down", "notify", "run"}
  /\ status \in [Jobs -> (Status \ {"QUEUED"}) \cup {NoRow}]
  /\ path \in [Jobs -> BOOLEAN]
  /\ file \in [Jobs -> {"absent", "partial", "complete"}]
  /\ pc \in [Jobs -> TaskPoints]
  /\ thread \in [Jobs -> PoolOps \cup {"idle", "ok", "error"}]
  /\ waited \in [Jobs -> 0..MaxPolls]
  /\ tasks \in SUBSET Jobs
  /\ cancelReq \in SUBSET Jobs
  /\ handler \in HandlerPoints
  /\ target \in Jobs \cup {NoJob}
  /\ seen \in (Status \ {"QUEUED"}) \cup {NoRow}
  /\ stuck \in SUBSET Jobs
  /\ printed \in [Jobs -> Nat]
  /\ emitted \in [Jobs -> SUBSET Events]

Init ==
  /\ phase = "down"
  /\ status = [j \in Jobs |-> NoRow]
  /\ path = [j \in Jobs |-> FALSE]
  /\ file = [j \in Jobs |-> "absent"]
  /\ pc = [j \in Jobs |-> "none"]
  /\ thread = [j \in Jobs |-> "idle"]
  /\ waited = [j \in Jobs |-> 0]
  /\ tasks = {}
  /\ cancelReq = {}
  /\ handler = "idle"
  /\ target = NoJob
  /\ seen = NoRow
  /\ stuck = {}
  /\ printed = [j \in Jobs |-> 0]
  /\ emitted = [j \in Jobs |-> {}]

-----------------------------------------------------------------------------
(* The queue store. *)

\* UPDATE ... WHERE job_id = ?: unconditional on the old status, no effect
\* when there is no row.
update_status(j, s) ==
  status' = [status EXCEPT ![j] = IF @ = NoRow THEN NoRow ELSE s]

emit(j, e) == emitted' = [emitted EXCEPT ![j] = @ \cup {e}]

-----------------------------------------------------------------------------
(* Moving a job's coroutine from one await to the next. *)

\* The coroutine suspends at the next await.  asyncio.to_thread submits its
\* call; the calls that only read (get, get_status) need no thread step.
Await(j, point) ==
  /\ pc' = [pc EXCEPT ![j] = point]
  /\ thread' = [thread EXCEPT ![j] = IF point \in PoolOps THEN point ELSE "idle"]

\* The coroutine stands at a pool call whose outcome has arrived.
Returned(j, op, outcome) == pc[j] = op /\ thread[j] = outcome

\* The `finally` of _process.
Finish(j) ==
  /\ Await(j, "none")
  /\ tasks' = tasks \ {j}
  /\ cancelReq' = cancelReq \ {j}
  /\ waited' = [waited EXCEPT ![j] = 0]

\* An exception (CancelledError included) leaves _process at its current
\* await.  The first await, get(), stands before the try: there the `finally`
\* is not entered and _tasks and _cancel_requested keep the job.
Unwind(j) ==
  /\ pc' = [pc EXCEPT ![j] = "none"]
  /\ IF pc[j] = "get"
     THEN UNCHANGED <<tasks, cancelReq>>
     ELSE tasks' = tasks \ {j} /\ cancelReq' = cancelReq \ {j}
  /\ waited' = [waited EXCEPT ![j] = 0]

\* if job_id in self._cancel_requested: return
UnlessCancelled(j, point) ==
  IF j \in cancelReq
  THEN Finish(j)
  ELSE Await(j, point) /\ UNCHANGED Bookkeeping

\* while waited < WAIT_FOR_PRINTER_MAX_SECONDS (variant: one poll too many).
PollsLeft_TooMany(n) == n <= MaxPolls
PollsLeft(n) == n < MaxPolls

\* The head of the waiting loop after n polls: sleep, or give up, whereupon
\* _process fails the job.
WaitLoop(j, n) ==
  /\ Await(j, IF PollsLeft(n) /\ j \notin cancelReq THEN "sleep" ELSE "update_FAILED")
  /\ waited' = [waited EXCEPT ![j] = n]
  /\ UNCHANGED <<tasks, cancelReq>>

-----------------------------------------------------------------------------
(* _process and _wait_for_printer, one action per await that returns. *)

\* local_file_path is set and exists (variant: any file with the job's name).
OnDisk_AnyFile(j) == file[j] # "absent"
OnDisk(j) == path[j] /\ file[j] # "absent"

\* get() returned: a document that is already on disk is not fetched again.
ReadRecord(j) ==
  /\ pc[j] = "get"
  /\ IF OnDisk(j)
     THEN UnlessCancelled(j, "get_status")
     ELSE Await(j, "download") /\ UNCHANGED Bookkeeping
  /\ UNCHANGED <<phase, rows, file, inbound, stuck, printed, emitted>>

\* The response is accepted and open(dest_path, "wb") truncates the file.
DownloadOpens(j) ==
  /\ pc[j] = "download"
  /\ Await(j, "downloading")
  /\ file' = [file EXCEPT ![j] = "partial"]
  /\ UNCHANGED <<phase, rows, Bookkeeping, inbound, stuck, printed, emitted>>

DownloadEnds(j) ==
  /\ pc[j] = "downloading"
  /\ file' = [file EXCEPT ![j] = "complete"]
  /\ Await(j, "set_local_file_path")
  /\ UNCHANGED <<phase, rows, Bookkeeping, inbound, stuck, printed, emitted>>

\* DownloadError, before or after the file was opened: what was written stays.
DownloadFails(j) ==
  /\ pc[j] \in {"download", "downloading"}
  /\ Await(j, "update_FAILED")
  /\ UNCHANGED <<phase, rows, file, Bookkeeping, inbound, stuck, printed, emitted>>

PathStored(j) ==
  /\ Returned(j, "set_local_file_path", "ok")
  /\ UnlessCancelled(j, "get_status")
  /\ UNCHANGED <<phase, rows, file, inbound, stuck, printed, emitted>>

PrinterAnswers(j) ==
  /\ \/ /\ pc[j] \in {"get_status", "poll"}                   \* online
        /\ UnlessCancelled(j, "update_PRINTING")
     \/ /\ pc[j] = "get_status"                               \* offline
        /\ Await(j, "update_WAITING")
        /\ UNCHANGED Bookkeeping
     \/ /\ pc[j] = "poll"                                     \* still offline
        /\ WaitLoop(j, waited[j])
  /\ UNCHANGED <<phase, rows, file, inbound, stuck, printed, emitted>>

WaitingStored(j) ==
  /\ Returned(j, "update_WAITING", "ok")
  /\ WaitLoop(j, 0)
  /\ UNCHANGED <<phase, rows, file, inbound, stuck, printed, emitted>>

Slept(j) ==
  /\ pc[j] = "sleep"
  /\ Await(j, "poll")
  /\ waited' = [waited EXCEPT ![j] = @ + 1]
  /\ UNCHANGED <<phase, rows, file, tasks, cancelReq, inbound, stuck, printed, emitted>>

\* PRINTING is committed: hand over print.job.started and wait for the send.
PrintingStored(j) ==
  /\ Returned(j, "update_PRINTING", "ok")
  /\ emit(j, "started")
  /\ Await(j, "send_started")
  /\ UNCHANGED <<phase, rows, file, Bookkeeping, inbound, stuck, printed>>

StartedSent(j) ==
  /\ pc[j] = "send_started"
  /\ Await(j, "print")
  /\ UNCHANGED <<phase, rows, file, Bookkeeping, inbound, stuck, printed, emitted>>

\* Whatever print() raises fails the job (variant: the error is swallowed).
AfterPrint_Swallow(outcome) == "update_COMPLETED"
AfterPrint(outcome) == IF outcome = "ok" THEN "update_COMPLETED" ELSE "update_FAILED"

PrintReturns(j) ==
  /\ pc[j] = "print" /\ thread[j] \in {"ok", "error"}
  /\ Await(j, AfterPrint(thread[j]))
  /\ UNCHANGED <<phase, rows, file, Bookkeeping, inbound, stuck, printed, emitted>>

VerdictStored(j) ==
  /\ \/ /\ Returned(j, "update_COMPLETED", "ok")
        /\ emit(j, "completed")
     \/ /\ Returned(j, "update_FAILED", "ok")
        /\ emit(j, "failed")
  /\ Await(j, "send_verdict")
  /\ UNCHANGED <<phase, rows, file, Bookkeeping, inbound, stuck, printed>>

VerdictSent(j) ==
  /\ pc[j] = "send_verdict"
  /\ Finish(j)
  /\ UNCHANGED <<phase, rows, file, inbound, stuck, printed, emitted>>

\* An exception _process does not catch: sqlite3.Error from a store call,
\* OSError from the download, subprocess.TimeoutExpired from get_status.
\* Whatever print() raises is caught.
TaskRaises(j) ==
  /\ j \in Faulty
  /\ \/ pc[j] \in {"get", "download", "downloading", "get_status", "poll"}
     \/ pc[j] \in PoolOps \ {"print"} /\ thread[j] = pc[j]
  /\ Unwind(j)
  /\ thread' = [thread EXCEPT ![j] = "idle"]
  /\ UNCHANGED <<phase, rows, file, inbound, stuck, printed, emitted>>

TaskStep(j) ==
  \/ ReadRecord(j) \/ DownloadOpens(j) \/ DownloadEnds(j) \/ DownloadFails(j)
  \/ PathStored(j) \/ PrinterAnswers(j) \/ WaitingStored(j) \/ Slept(j)
  \/ PrintingStored(j) \/ StartedSent(j) \/ PrintReturns(j)
  \/ VerdictStored(j) \/ VerdictSent(j)

-----------------------------------------------------------------------------
(* Pool threads.  An outcome nobody waits for any more is dropped. *)

Outcome(j, o) == thread' = [thread EXCEPT ![j] = IF pc[j] = @ THEN o ELSE "idle"]

RunUpdate(j) ==
  /\ thread[j] \in UpdateOps
  /\ update_status(j, UpdateTo[thread[j]])
  /\ Outcome(j, "ok")
  /\ UNCHANGED <<phase, path, file, pc, Bookkeeping, inbound, stuck, printed, emitted>>

RunSetPath(j) ==
  /\ thread[j] = "set_local_file_path"
  /\ path' = [path EXCEPT ![j] = status[j] # NoRow]
  /\ Outcome(j, "ok")
  /\ UNCHANGED <<phase, status, file, pc, Bookkeeping, inbound, stuck, printed, emitted>>

\* The printing backend: accepted, refused, or accepted although the call
\* reports an error (a timeout of the print helper).  The helper is another
\* process, so it can end after the agent died.
RunPrint(j) ==
  /\ thread[j] = "print"
  /\ \E accepted \in BOOLEAN, o \in {"ok", "error"} :
       /\ o = "ok" => accepted
       /\ printed' = [printed EXCEPT ![j] = IF accepted THEN @ + 1 ELSE @]
       /\ Outcome(j, o)
  /\ UNCHANGED <<phase, rows, file, pc, Bookkeeping, inbound, stuck, emitted>>

ThreadStep(j) == RunUpdate(j) \/ RunSetPath(j) \/ RunPrint(j)

-----------------------------------------------------------------------------
(* The inbound handlers.  The hub may dispatch any job any number of times. *)

HandlerIdle == handler' = "idle" /\ target' = NoJob /\ seen' = NoRow

ReceiveDispatch(j) ==
  /\ phase = "run" /\ handler = "idle"
  /\ handler' = "dispatch_get" /\ target' = j
  /\ UNCHANGED <<phase, rows, file, taskVars, seen, stuck, printed, emitted>>

\* The pool thread of get(): what it reads can be stale when it is used.
HandlerReads ==
  /\ \/ handler = "dispatch_get" /\ handler' = "dispatch_seen"
     \/ handler = "cancel_get" /\ handler' = "cancel_seen"
  /\ seen' = status[target]
  /\ UNCHANGED <<phase, rows, file, taskVars, target, stuck, printed, emitted>>

\* Variant: acknowledge before the row is committed.
DispatchDecides_AcksFirst ==
  /\ handler = "dispatch_seen"
  /\ seen = NoRow /\ handler' = "ack" /\ UNCHANGED <<target, seen>>
  /\ UNCHANGED <<phase, rows, file, taskVars, stuck, printed, emitted>>

\* Unknown job: insert it.  Finished job: tell its verdict again.  Any other: ignore.
DispatchDecides ==
  /\ handler = "dispatch_seen"
  /\ \/ seen = NoRow /\ handler' = "insert" /\ UNCHANGED <<target, seen>>
     \/ is_terminal(seen) /\ handler' = "resend" /\ UNCHANGED <<target, seen>>
     \/ seen # NoRow /\ ~is_terminal(seen) /\ HandlerIdle
  /\ UNCHANGED <<phase, rows, file, taskVars, stuck, printed, emitted>>

\* INSERT OR IGNORE; when the row exists after all the handler reads it again.
insert_received ==
  /\ handler = "insert"
  /\ IF status[target] = NoRow
     THEN /\ status' = [status EXCEPT ![target] = "RECEIVED"]
          /\ handler' = "ack"
     ELSE UNCHANGED status /\ handler' = "dispatch_get"
  /\ UNCHANGED <<phase, path, file, taskVars, target, seen, stuck, printed, emitted>>

Acknowledge ==
  /\ handler = "ack"
  /\ emit(target, "received")
  /\ Await(target, "get")
  /\ tasks' = tasks \cup {target}
  /\ HandlerIdle
  /\ UNCHANGED <<phase, rows, file, waited, cancelReq, stuck, printed>>

VerdictEvent == [COMPLETED |-> "completed", FAILED |-> "failed", CANCELLED |-> "cancelled"]

resend_terminal_event ==
  /\ handler = "resend"
  /\ emit(target, VerdictEvent[seen])
  /\ HandlerIdle
  /\ UNCHANGED <<phase, rows, file, taskVars, stuck, printed>>

ReceiveCancel(j) ==
  /\ phase = "run" /\ handler = "idle"
  /\ handler' = "cancel_get" /\ target' = j
  /\ cancelReq' = cancelReq \cup {j}
  /\ UNCHANGED <<phase, rows, file, pc, thread, waited, tasks, seen, stuck, printed, emitted>>

\* Refused unless the status read is still RECEIVED or WAITING_FOR_PRINTER.
\* task.cancel() ends the coroutine at its await; a pool call that waits for
\* a free thread is dropped, one that runs goes on as an orphan.
CancelDecides ==
  /\ handler = "cancel_seen"
  /\ \/ /\ seen \notin RESUMABLE
        /\ HandlerIdle
        /\ UNCHANGED taskVars
     \/ /\ seen \in RESUMABLE
        /\ handler' = "cancel_update" /\ UNCHANGED <<target, seen>>
        /\ IF target \in tasks /\ pc[target] # "none"
           THEN /\ Unwind(target)
                /\ \/ thread' = [thread EXCEPT ![target] = "idle"]
                   \/ thread[target] \in PoolOps /\ UNCHANGED thread
           ELSE UNCHANGED taskVars
  /\ UNCHANGED <<phase, rows, file, stuck, printed, emitted>>

CancelStored ==
  /\ handler = "cancel_update"
  /\ update_status(target, "CANCELLED")
  /\ handler' = "cancel_send"
  /\ UNCHANGED <<phase, path, file, taskVars, target, seen, stuck, printed, emitted>>

SendCancelled ==
  /\ handler = "cancel_send"
  /\ emit(target, "cancelled")
  /\ HandlerIdle
  /\ UNCHANGED <<phase, rows, file, taskVars, stuck, printed>>

HandlerStep ==
  \/ HandlerReads \/ DispatchDecides \/ insert_received \/ Acknowledge
  \/ resend_terminal_event \/ CancelDecides \/ CancelStored \/ SendCancelled

-----------------------------------------------------------------------------
(* Crash, restart and recovery. *)

\* The process ends at any point, by a stop of the service included; only a
\* print helper that was already started goes on.
Crash ==
  /\ phase # "down"
  /\ phase' = "down"
  /\ pc' = [j \in Jobs |-> "none"]
  /\ thread' = [j \in Jobs |-> IF thread[j] = "print" THEN "print" ELSE "idle"]
  /\ waited' = [j \in Jobs |-> 0]
  /\ tasks' = {} /\ cancelReq' = {} /\ stuck' = {}
  /\ HandlerIdle
  /\ UNCHANGED <<rows, file, printed, emitted>>

DownloadsCleaned(j) ==
  /\ phase = "down" /\ j \in Cleanable
  /\ file' = [file EXCEPT ![j] = "absent"]
  /\ UNCHANGED <<phase, rows, taskVars, inbound, stuck, printed, emitted>>

\* What start-up makes of a row's status (variant: a blind retry).
Recovered_Retry(s) == IF s = "PRINTING" THEN "RECEIVED" ELSE s
Recovered(s) == IF s = "PRINTING" THEN "FAILED" ELSE s

mark_stuck_printing_as_failed ==
  /\ phase = "down"
  /\ phase' = "notify"
  /\ stuck' = {j \in Jobs : status[j] = "PRINTING"}
  /\ status' = [j \in Jobs |-> Recovered(status[j])]
  /\ UNCHANGED <<path, file, taskVars, inbound, printed, emitted>>

ReportStuck(j) ==
  /\ phase = "notify" /\ j \in stuck
  /\ emit(j, "failed")
  /\ stuck' = stuck \ {j}
  /\ UNCHANGED <<phase, rows, file, taskVars, inbound, printed>>

\* The rows list_non_terminal returns that _recover_on_startup resumes
\* (variant: those that waited for their printer are forgotten).
ToResume_ReceivedOnly == {j \in Jobs : status[j] = "RECEIVED"}
ToResume == {j \in Jobs : status[j] \in RESUMABLE}

\* Variant: resumed coroutines are not entered in _tasks.
ResumeJobs_Unregistered ==
  /\ phase = "notify" /\ stuck = {}
  /\ phase' = "run"
  /\ pc' = [j \in Jobs |-> IF j \in ToResume THEN "get" ELSE "none"]
  /\ UNCHANGED <<rows, file, thread, Bookkeeping, inbound, stuck, printed, emitted>>

ResumeJobs ==
  /\ phase = "notify" /\ stuck = {}
  /\ phase' = "run"
  /\ tasks' = ToResume
  /\ pc' = [j \in Jobs |-> IF j \in ToResume THEN "get" ELSE "none"]
  /\ UNCHANGED <<rows, file, thread, waited, cancelReq, inbound, stuck, printed, emitted>>

Recovery ==
  \/ mark_stuck_printing_as_failed
  \/ \E j \in Jobs : ReportStuck(j)
  \/ ResumeJobs

-----------------------------------------------------------------------------
Next ==
  \/ \E j \in Jobs : TaskStep(j) \/ ThreadStep(j) \/ TaskRaises(j)
  \/ \E j \in Jobs : ReceiveDispatch(j)
  \/ \E j \in Cancellable : ReceiveCancel(j)
  \/ HandlerStep
  \/ Recovery
  \/ Crash
  \/ \E j \in Jobs : DownloadsCleaned(j)

\* The event loop runs every ready coroutine, pool calls end (each backend
\* call has a timeout), and the service manager starts the agent again.  When
\* the hub sends, and whether the process dies, is not the agent's to decide.
Fairness ==
  /\ \A j \in Jobs : WF_vars(TaskStep(j)) /\ WF_vars(ThreadStep(j))
  /\ WF_vars(HandlerStep)
  /\ WF_vars(Recovery)

Spec == Init /\ [][Next]_vars
FairSpec == Spec /\ Fairness
=============================================================================
