--------------------------- MODULE DocumentFetch ---------------------------
(***************************************************************************)
(* What a job's coroutine may rely on when it awaits download_document:    *)
(* the file changes only while the call runs, and a call that returns has  *)
(* left the complete document, unless the server sent a body whose end     *)
(* nobody can tell from a broken connection.  These are the steps that     *)
(* JobWorker takes at its await (DownloadOpens, DownloadEnds,              *)
(* DownloadFails), without bytes, responses or limits.                     *)
(***************************************************************************)
VARIABLES
  fetch,      \* "idle", "running", "ok", "failed"
  document,   \* the file: "partial" (also when it is missing) or "complete"
  framed      \* does the server tell where its body ends?

fetchVars == <<fetch, document, framed>>

FInit == fetch = "idle" /\ document = "partial" /\ framed = TRUE

Begin ==
  /\ fetch = "idle"
  /\ fetch' = "running"
  /\ UNCHANGED <<document, framed>>

Write ==
  /\ fetch = "running"
  /\ document' \in {"partial", "complete"} /\ framed' \in BOOLEAN
  /\ UNCHANGED fetch

Return ==
  /\ fetch = "running"
  /\ document = "complete" \/ ~framed
  /\ fetch' = "ok"
  /\ UNCHANGED <<document, framed>>

\* DownloadError or another exception: what was written stays, or part of it.
GiveUp ==
  /\ fetch \in {"idle", "running"}
  /\ fetch' = "failed" /\ document' \in {"partial", document}
  /\ UNCHANGED framed

\* The next call for the same file.
Again ==
  /\ fetch \in {"ok", "failed"}
  /\ fetch' = "idle"
  /\ UNCHANGED <<document, framed>>

FNext == Begin \/ Write \/ Return \/ GiveUp \/ Again

FSpec == FInit /\ [][FNext]_fetchVars
=============================================================================
