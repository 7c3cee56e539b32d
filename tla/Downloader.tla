----------------------------- MODULE Downloader -----------------------------
(***************************************************************************)
(* download_document (net/downloader.py): the checks of the URL and of the *)
(* response, and the body written chunk by chunk into <job_id>.pdf, which  *)
(* an earlier attempt may have left in any condition.                      *)
(*                                                                         *)
(* A byte knows the attempt it was served in, its position and whether it  *)
(* is the last one of the body, so that a file can be told from a mixture  *)
(* or a part.  The server may stall, cut the body short, or send without   *)
(* end.                                                                    *)
(***************************************************************************)
EXTENDS Integers, Sequences

CONSTANTS
  MaxBytes,   \* max_bytes
  MaxChunk,   \* bound on the bytes of one chunk
  Endless     \* the size of a body that never ends

ASSUME DownloaderAssumption ==
  MaxBytes \in Nat \ {0} /\ MaxChunk \in Nat \ {0} /\ Endless \notin Int

VARIABLES
  call,        \* where download_document stands
  version,     \* the attempt, modulo 2
  body,        \* the body being served: [size, framed]
  alive,       \* does the server still send?
  byte_count,
  file         \* the bytes of the file, <<>> also when it does not exist

downloadVars == <<call, version, body, alive, byte_count, file>>

Bodies == [size : 0..(MaxBytes + 1) \cup {Endless}, framed : BOOLEAN]
Bytes == [v : {0, 1}, n : 1..MaxBytes, last : BOOLEAN]

\* Bytes m+1..n of the body being served.
Part(m, n) ==
  [i \in 1..(n - m) |-> [v |-> version, n |-> m + i, last |-> (m + i = body.size)]]

\* The shape of the state; the file never outgrows the limit, also while it is
\* being written.
DownloadTypeOK ==
  /\ call \in {"idle", "request", "stream", "done", "failed", "raised"}
  /\ version \in {0, 1} /\ body \in Bodies /\ alive \in BOOLEAN
  /\ byte_count \in 0..MaxBytes
  /\ file \in Seq(Bytes) /\ Len(file) <= MaxBytes

DownloadInit ==
  /\ call = "idle" /\ version = 0 /\ alive = TRUE
  /\ body = [size |-> 0, framed |-> TRUE]
  /\ byte_count = 0 /\ file = <<>>

-----------------------------------------------------------------------------
(* The checks. *)

ValidUrl(scheme, host, pinned, insecure) ==
  /\ scheme \in {"https", "http"}
  /\ scheme = "http" => insecure
  /\ pinned => host = "paired"

\* From the call to the request.  dest_dir.mkdir may raise.
StartDownload(scheme, host, pinned, insecure) ==
  /\ call = "idle"
  /\ call' \in IF ValidUrl(scheme, host, pinned, insecure)
               THEN {"request", "raised"} ELSE {"failed"}
  /\ UNCHANGED <<version, body, alive, byte_count, file>>

\* The end of the call: its local variables are gone.
Ends(result) ==
  /\ call' = result
  /\ body' = [body EXCEPT !.size = 0] /\ alive' = TRUE /\ byte_count' = 0
  /\ UNCHANGED version

\* A response that is not a 200 with a PDF (redirects are not followed) is an
\* error; open() may raise; else the old file is truncated.
Responds(good, b) ==
  /\ call = "request"
  /\ \/ ~good /\ Ends("failed") /\ UNCHANGED file
     \/ good /\ Ends("raised") /\ UNCHANGED file
     \/ /\ good /\ call' = "stream"
        /\ version' = 1 - version /\ body' = b /\ file' = <<>>
        /\ UNCHANGED <<alive, byte_count>>

-----------------------------------------------------------------------------
(* The body. *)

Remaining(n) == body.size # Endless => byte_count + n <= body.size

\* Variant: the size is tested after the write.
TooLarge_Late(n) == byte_count > MaxBytes
TooLarge(n) == byte_count + n > MaxBytes

ReceivesChunk(n) ==
  /\ call = "stream" /\ alive /\ Remaining(n)
  /\ IF TooLarge(n)
     THEN Ends("failed") /\ UNCHANGED file
     ELSE /\ byte_count' = byte_count + n
          /\ file' = file \o Part(byte_count, byte_count + n)
          /\ UNCHANGED <<call, version, body, alive>>

\* Variant: an empty body is accepted.
Accepted_Empty == byte_count = body.size \/ ~body.framed

\* A body with a length or in chunks that is cut short is an httpx error; one that
\* ends with its connection is taken as it is.  An empty one is refused.
Accepted == byte_count > 0 /\ (byte_count = body.size \/ ~body.framed)

BodyEnds ==
  /\ call = "stream"
  /\ Ends(IF Accepted THEN "done" ELSE "failed")
  /\ UNCHANGED file

ServerStalls ==
  /\ call \in {"request", "stream"} /\ alive
  /\ alive' = FALSE
  /\ UNCHANGED <<call, version, body, byte_count, file>>

\* Variant: a client without a timeout.
TimesOut_Never == FALSE
\* DOWNLOAD_TIMEOUT_SECONDS bounds the wait for the connection and for each read,
\* not the download; other httpx errors end the same way.
TimesOut == call \in {"request", "stream"}

DownloadFails ==
  /\ TimesOut
  /\ Ends("failed")
  /\ UNCHANGED file

\* The task is cancelled, the disk is full or the process dies: of what was
\* written a part reaches the file.
Interrupted ==
  /\ call \in {"request", "stream"}
  /\ Ends("raised")
  /\ file' \in {SubSeq(file, 1, n) : n \in 0..Len(file)}

\* The result is handed to _process; the file stays for the next attempt.
Returned ==
  /\ call \in {"done", "failed", "raised"}
  /\ call' = "idle"
  /\ UNCHANGED <<version, body, alive, byte_count, file>>

-----------------------------------------------------------------------------
Schemes == {"https", "http", "file"}
Hosts == {"paired", "other"}

ServerStep ==
  \/ \E good \in BOOLEAN, b \in Bodies : alive /\ Responds(good, b)
  \/ \E n \in 1..MaxChunk : ReceivesChunk(n)
  \/ alive /\ BodyEnds

DownloadNext ==
  \/ \E scheme \in Schemes, host \in Hosts, pinned, insecure \in BOOLEAN :
       StartDownload(scheme, host, pinned, insecure)
  \/ ServerStep \/ DownloadFails \/ ServerStalls \/ Interrupted \/ Returned

\* While a download waits, either the server does something or the timeout of
\* the read passes.
DownloadFairness == WF_downloadVars(ServerStep \/ DownloadFails)

DownloadSpec == DownloadInit /\ [][DownloadNext]_downloadVars /\ DownloadFairness

-----------------------------------------------------------------------------
(* Properties. *)

\* Every download ends, whatever the server does: a silent one meets the read
\* timeout, one that keeps sending the size limit.
DownloadEnds == call \in {"request", "stream"} ~> call \notin {"request", "stream"}

\* Is the file a whole body, from its first byte to its last?
Complete ==
  /\ file # <<>> /\ file[Len(file)].last
  /\ \A i \in 1..Len(file) : file[i].n = i /\ file[i].v = file[1].v

\* What holds of the bytes on disk at every await: the file is some body from its
\* first byte on, whole exactly if its last byte is the body's last one; while a body
\* is being served the file is what has been counted of that body, never of an
\* earlier one.
BytesInOrder ==
  /\ \A i \in 1..Len(file) :
       file[i].n = i /\ file[i].v = file[1].v /\ (file[i].last => i = Len(file))
  /\ call # "stream" => byte_count = 0
  /\ call = "stream" =>
       /\ Len(file) = byte_count /\ Remaining(0)
       /\ \A i \in 1..Len(file) :
            file[i].v = version /\ (file[i].last <=> i = body.size)

DownloadInv == DownloadTypeOK /\ BytesInOrder

Fetch == INSTANCE DocumentFetch WITH
  fetch <- CASE call = "idle" -> "idle"
             [] call \in {"request", "stream"} -> "running"
             [] call = "done" -> "ok"
             [] OTHER -> "failed",
  document <- IF Complete THEN "complete" ELSE "partial",
  framed <- body.framed

\* The bytes on disk keep the promise that _process relies on: a download that
\* returns left exactly the served document, also over the remains of an
\* interrupted one, and the file changes only while a download runs.
ImplementsFetch == Fetch!FSpec
=============================================================================
