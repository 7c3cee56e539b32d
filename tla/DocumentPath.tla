---------------------------- MODULE DocumentPath ----------------------------
(***************************************************************************)
(* The way of one job's document, from download_document to the queue of   *)
(* the operating system, as _process (core/job_worker.py) goes it: the     *)
(* printer is asked once the document is there, and only a document that   *)
(* was downloaded is printed.  The file stays for the job that is sent     *)
(* again.  JobWorker has the same way with rows, events and crashes, and   *)
(* one step for each of the two calls that are taken apart here.           *)
(***************************************************************************)
EXTENDS Downloader, Printing

pathVars == <<downloadVars, printVars>>

PathTypeOK == DownloadTypeOK /\ PrintTypeOK

PathInit == DownloadInit /\ PrintInit

\* await download_document(...); a DownloadError or an exception ends the job.
DownloadStep ==
  /\ call # "done" /\ point = "idle"
  /\ DownloadNext
  /\ UNCHANGED printVars

\* get_status and print.  CoreGraphics reads only a complete file.
PrintStep ==
  /\ call = "done"
  /\ PrintNext
  /\ point = "draw" /\ ~Complete => point' = "driver"
  /\ UNCHANGED downloadVars

\* The job is finished; another one, or the same again.
FinishJob == call = "done" /\ NextJob /\ Returned

PathNext == DownloadStep \/ PrintStep \/ FinishJob

PathSpec == PathInit /\ [][PathNext]_pathVars /\ DownloadFairness

-----------------------------------------------------------------------------
\* The inductive invariant of the whole path: the bytes on disk, the rows being
\* dithered, the receipt, the jobs in the queue and the paper are each in order at
\* every step.
PathInv == DownloadInv /\ PrintInv /\ ReceiptFollowsInks /\ MediaChosen
=============================================================================
