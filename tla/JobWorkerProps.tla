--------------------------- MODULE JobWorkerProps ---------------------------
(***************************************************************************)
(* What the print pipeline of JobWorker is held to, and the inductive      *)
(* invariant behind it: the strengthening that every step preserves.  TLC  *)
(* checks all of it on small instances; JobWorkerProofs proves the safety  *)
(* part for every set of jobs.                                             *)
(***************************************************************************)
EXTENDS JobWorker

\* No document comes out twice, whatever is re-dispatched, cancelled, raised
\* or crashed: print() puts a job's document on paper at most once.  (The
\* choice mark_stuck_printing_as_failed explains: no blind retry.)
AtMostOncePrint == \A j \in Jobs : printed[j] <= 1

\* Once a document is with the printer, its row is no longer one that recovery
\* or a re-dispatch would feed into the pipeline again.
PrintIsOnRecord ==
  \A j \in Jobs :
    printed[j] > 0 \/ thread[j] = "print" => status[j] \notin RESUMABLE \cup {NoRow}

\* A job that the queue or an event calls completed was printed: COMPLETED is
\* never written for a document that did not reach the printer.
CompletedMeansPrinted ==
  \A j \in Jobs :
    status[j] = "COMPLETED" \/ "completed" \in emitted[j] => printed[j] > 0

\* Every event follows the commit it reports: an acknowledged job has a row,
\* and for a job nobody cancels the verdict told is the verdict stored, through
\* crashes, recoveries and resends.
EventsFollowCommits ==
  \A j \in Jobs :
    /\ emitted[j] # {} => status[j] # NoRow
    /\ j \notin Cancellable =>
         /\ "completed" \in emitted[j] => status[j] = "COMPLETED"
         /\ "failed" \in emitted[j] => status[j] = "FAILED"

\* What goes to the printer is the whole document, never the part of a download
\* that a crash cut short (for files nobody deletes behind the agent's back).
PrintsWholeDocument ==
  \A j \in Jobs \ Cleanable : thread[j] = "print" => file[j] = "complete"

\* While the agent runs, every unfinished row has its coroutine and _tasks
\* lists exactly the coroutines: a duplicate dispatch may be ignored because
\* the job really is in flight, and queueDepth is right.
InFlight(j) ==
  /\ j \in tasks <=> pc[j] # "none"
  /\ \/ pc[j] # "none"
     \/ status[j] = NoRow
     \/ is_terminal(status[j])
     \/ handler = "ack" /\ target = j

\* ... for every job that is not cancelled and whose calls do not raise.
InFlightHasTask ==
  phase = "run" => \A j \in Jobs \ (Cancellable \cup Faulty) : InFlight(j)

\* When handle_cancel writes CANCELLED and reports it, the job's coroutine is
\* gone: task.cancel() found every coroutine there was.
CancelStopsCoroutine ==
  handler \in {"cancel_update", "cancel_send"} => pc[target] = "none"

\* Every change of a row is a legal transition of state_machine.py, unless a
\* cancellation is involved: the store itself never looks at the table.
LegalChange(j) ==
  \/ status'[j] = status[j]
  \/ status[j] = NoRow /\ status'[j] = "RECEIVED"
  \/ status[j] # NoRow /\ is_legal_transition(status[j], status'[j])
  \/ j \in Cancellable /\ "CANCELLED" \in {status[j], status'[j]}

\* ... for every job and every step of every actor.
FollowsTable == [][\A j \in Jobs : LegalChange(j)]_vars

\* The pipeline implements the promise of PrintLifecycle when no job is
\* cancelled: every step of coroutines, threads, handler, crash and recovery is
\* one of its steps or changes neither status nor output.
Lifecycle == INSTANCE PrintLifecycle
ImplementsLifecycle == Lifecycle!LSpec

\* Violated.  A job reported as cancelled never reaches the printer.
CancelledIsNotPrinted ==
  \A j \in Jobs :
    "cancelled" \in emitted[j] => printed[j] = 0 /\ thread[j] # "print"

\* Violated.  InFlight for every job: what handle_dispatch takes for granted
\* when it ignores a duplicate.
IgnoredMeansInFlight ==
  \A j \in Jobs :
    handler = "dispatch_seen" /\ target = j /\ seen \in RESUMABLE => InFlight(j)

\* A job that was persisted ends in a terminal status once the agent stays up.
EveryJobSettles ==
  <>[](phase = "run") =>
    \A j \in Jobs \ (Cancellable \cup Faulty) :
      status[j] # NoRow ~> status[j] \in TERMINAL_STATUSES

-----------------------------------------------------------------------------
(* The inductive invariant. *)

\* Points at which the document has not been offered to the printer yet.
BeforePrinting ==
  {"get", "download", "downloading", "set_local_file_path", "get_status",
   "update_WAITING", "sleep", "poll"}

\* A coroutine waits for its own pool call and no other; only an orphan has no
\* coroutine, and only print() returns an error to it.
ThreadInv(j) ==
  /\ thread[j] \in PoolOps => pc[j] \in {thread[j], "none"}
  /\ pc[j] \in PoolOps => thread[j] \in {pc[j], "ok", "error"}
  /\ pc[j] \notin PoolOps \cup {"none"} => thread[j] = "idle"
  /\ pc[j] = "none" => thread[j] \notin {"ok", "error"}
  /\ thread[j] = "error" => pc[j] = "print"

\* The waiting loop sleeps only while polls are left.
WaitInv(j) == pc[j] = "sleep" => waited[j] < MaxPolls

\* Which statuses the row can have at each await and under each pool call.
\* CANCELLED is always among them: handle_cancel writes it at any time.
Possible(j, S) == status[j] \in S \cup {"CANCELLED"}

StatusInv(j) ==
  /\ pc[j] \in BeforePrinting => Possible(j, RESUMABLE)
  /\ thread[j] \in {"set_local_file_path", "update_WAITING", "update_PRINTING"} =>
       Possible(j, RESUMABLE)
  /\ pc[j] = "update_PRINTING" /\ thread[j] = "ok" => Possible(j, {"PRINTING"})
  /\ pc[j] \in {"send_started", "print"} => Possible(j, {"PRINTING"})
  /\ thread[j] = "print" => Possible(j, {"PRINTING", "FAILED"})
  /\ thread[j] = "update_COMPLETED" => Possible(j, {"PRINTING"})
  /\ thread[j] = "update_FAILED" => Possible(j, RESUMABLE \cup {"PRINTING"})
  /\ pc[j] = "update_COMPLETED" /\ thread[j] = "ok" => Possible(j, {"COMPLETED"})
  /\ pc[j] = "update_FAILED" /\ thread[j] = "ok" => Possible(j, {"FAILED"})
  /\ pc[j] = "send_verdict" => Possible(j, {"COMPLETED", "FAILED"})
  /\ j \notin Cancellable => status[j] # "CANCELLED"

\* A job without a row left no trace; a job that can still be resumed was not
\* printed; a job that is about to be printed was not printed before.
PrintInv(j) ==
  /\ status[j] = NoRow =>
       pc[j] = "none" /\ thread[j] = "idle" /\ printed[j] = 0 /\ emitted[j] = {} /\ ~path[j]
  /\ status[j] \in RESUMABLE => printed[j] = 0
  /\ pc[j] \in BeforePrinting \cup {"update_PRINTING", "send_started"} => printed[j] = 0
  /\ thread[j] \in {"set_local_file_path", "update_WAITING", "update_PRINTING", "print"} =>
       printed[j] = 0
  /\ printed[j] <= 1
  /\ status[j] = "COMPLETED" \/ "completed" \in emitted[j] => printed[j] > 0
  /\ "update_COMPLETED" \in {pc[j], thread[j]} => printed[j] > 0
  /\ pc[j] = "print" /\ thread[j] = "ok" => printed[j] > 0

\* The verdict told is the verdict stored, unless a cancel interferes.
EventInv(j) ==
  j \notin Cancellable =>
    /\ "completed" \in emitted[j] => status[j] = "COMPLETED"
    /\ "failed" \in emitted[j] => status[j] = "FAILED"

\* local_file_path is only set for a complete file, and a download only
\* rewrites a file whose path is not set.
DocumentInv(j) ==
  j \notin Cleanable =>
    /\ path[j] \/ thread[j] \in {"set_local_file_path", "print"} => file[j] = "complete"
    /\ pc[j] \in {"set_local_file_path", "get_status", "update_WAITING", "sleep", "poll",
                  "update_PRINTING", "send_started", "print"} => file[j] = "complete"
    /\ pc[j] \in {"download", "downloading"} => ~path[j]

\* Every coroutine is in _tasks.  Without cancel and uncaught exception there is
\* no orphan but a print helper that outlived a crash, and every unfinished row
\* has its coroutine.
TaskInv(j) ==
  /\ pc[j] # "none" => j \in tasks
  /\ j \notin Cancellable => j \notin cancelReq
  /\ j \notin Cancellable /\ thread[j] \in PoolOps \ {"print"} => pc[j] = thread[j]
  /\ phase = "run" /\ j \notin Cancellable \cup Faulty => InFlight(j)

HandlerInv ==
  /\ handler = "idle" => target = NoJob
  /\ handler # "idle" => target \in Jobs
  /\ handler = "ack" =>
       status[target] = "RECEIVED" /\ pc[target] = "none" /\ thread[target] = "idle"
  /\ handler \in {"dispatch_seen", "resend"} =>
       /\ seen = "COMPLETED" => printed[target] > 0
       /\ is_terminal(seen) => status[target] # NoRow
       /\ is_terminal(seen) /\ target \notin Cancellable => status[target] = seen
  /\ handler = "resend" => is_terminal(seen)
  /\ handler \in {"cancel_get", "cancel_seen", "cancel_update", "cancel_send"} =>
       target \in Cancellable
  /\ handler = "cancel_seen" /\ seen \in RESUMABLE => status[target] # NoRow
  /\ handler \in {"cancel_update", "cancel_send"} =>
       status[target] # NoRow /\ pc[target] = "none"

PhaseInv ==
  /\ phase # "run" =>
       /\ handler = "idle" /\ tasks = {} /\ cancelReq = {}
       /\ \A j \in Jobs : pc[j] = "none" /\ thread[j] \in {"idle", "print"}
  /\ phase = "notify" => \A j \in Jobs : status[j] # "PRINTING"
  /\ \A j \in stuck : status[j] = "FAILED"
  /\ phase # "notify" => stuck = {}

JobInv(j) ==
  /\ ThreadInv(j) /\ WaitInv(j) /\ StatusInv(j) /\ PrintInv(j) /\ EventInv(j)
  /\ DocumentInv(j) /\ TaskInv(j)

IInv == TypeOK /\ PhaseInv /\ HandlerInv /\ \A j \in Jobs : JobInv(j)
=============================================================================
