------------------------- MODULE DocumentPathProofs -------------------------
(***************************************************************************)
(* Proofs about the way of a document, for every size limit, page, paper   *)
(* and printer: the download implements DocumentFetch, black stays black,  *)
(* the receipt comes out whole, print() reports exactly the jobs it put in *)
(* the queue, and the page fits the paper.  PathInv is the inductive       *)
(* invariant; what it needs of dithering, packing and framing is in        *)
(* RasterProofs.                                                           *)
(***************************************************************************)
EXTENDS DocumentPath, RasterProofs, FiniteSetTheorems, WellFoundedInduction, TLAPS

-----------------------------------------------------------------------------
(* The download. *)

\* No download yet.
LEMMA InitDownloadInv == DownloadInit => DownloadInv
  <1> SUFFICES ASSUME DownloadInit PROVE DownloadInv
    OBVIOUS
  <1> USE DownloaderAssumption DEF DownloadInit, Bodies
  <1>1. DownloadTypeOK
    BY DEF DownloadTypeOK
  <1>2. BytesInOrder
    BY DEF BytesInOrder
  <1> QED BY <1>1, <1>2 DEF DownloadInv

\* Ending a call forgets the count and keeps the file as it is.
LEMMA EndsKeeps ==
  ASSUME DownloadInv, NEW r \in {"done", "failed", "raised"}, Ends(r), file' = file
  PROVE  DownloadInv'
  <1> USE DownloaderAssumption DEF Ends, Bodies, DownloadInv
  <1>1. DownloadTypeOK'
    BY DEF DownloadTypeOK
  <1>2. BytesInOrder'
    BY DEF DownloadTypeOK, BytesInOrder
  <1> QED BY <1>1, <1>2

\* A call that has not opened the file, and one that is over.
LEMMA OutsideKeeps ==
  ASSUME DownloadInv,
         \/ \E scheme \in Schemes, host \in Hosts, pinned, insecure \in BOOLEAN :
              StartDownload(scheme, host, pinned, insecure)
         \/ ServerStalls \/ Returned
  PROVE  DownloadInv'
  <1> USE DownloaderAssumption DEF StartDownload, ServerStalls, Returned, Bodies, DownloadInv
  <1>1. DownloadTypeOK'
    BY DEF DownloadTypeOK
  <1>2. BytesInOrder'
    BY DEF DownloadTypeOK, BytesInOrder, Remaining
  <1> QED BY <1>1, <1>2

\* The file is opened for writing: it is empty, and so is the count.
LEMMA RespondsKeeps ==
  ASSUME DownloadInv, NEW good \in BOOLEAN, NEW b \in Bodies, Responds(good, b)
  PROVE  DownloadInv'
  <1> USE DownloaderAssumption DEF DownloadInv
  <1>1. CASE call' # "stream"
    BY <1>1, EndsKeeps DEF Responds
  <1>2. CASE call' = "stream"
    <2>0. /\ call = "request" /\ version' = 1 - version /\ body' = b /\ file' = <<>>
          /\ UNCHANGED <<alive, byte_count>>
      BY <1>2 DEF Responds, Ends
    <2>1. DownloadTypeOK'
      BY <1>2, <2>0 DEF DownloadTypeOK, Bodies
    <2>2. BytesInOrder'
      BY <1>2, <2>0 DEF DownloadTypeOK, BytesInOrder, Bodies, Remaining
    <2> QED BY <2>1, <2>2
  <1> QED BY <1>1, <1>2

\* A chunk that fits is appended, byte by byte.
LEMMA ReceivesChunkKeeps ==
  ASSUME DownloadInv, NEW k \in 1..MaxChunk, ReceivesChunk(k)
  PROVE  DownloadInv'
  <1> USE DownloaderAssumption DEF DownloadInv
  <1>1. CASE TooLarge(k)
    BY <1>1, EndsKeeps DEF ReceivesChunk
  <1>2. CASE ~TooLarge(k)
    <2>0. /\ call = "stream" /\ Remaining(k) /\ byte_count + k <= MaxBytes
          /\ byte_count' = byte_count + k
          /\ file' = file \o Part(byte_count, byte_count + k)
          /\ UNCHANGED <<call, version, body, alive>>
      BY <1>2 DEF ReceivesChunk, TooLarge, DownloadTypeOK
    <2>1. /\ Part(byte_count, byte_count + k) \in Seq(Bytes)
          /\ Len(Part(byte_count, byte_count + k)) = k
      BY <2>0 DEF Part, Bytes, DownloadTypeOK
    <2>2. /\ file' \in Seq(Bytes) /\ Len(file') = byte_count + k
          /\ \A i \in 1..byte_count : file'[i] = file[i]
          /\ \A i \in (byte_count + 1)..(byte_count + k) :
               file'[i].n = i /\ file'[i].v = version /\ (file'[i].last <=> i = body.size)
      <3> DEFINE p == Part(byte_count, byte_count + k)
      <3>1. file \in Seq(Bytes) /\ Len(file) = byte_count /\ byte_count \in Nat
        BY <2>0 DEF DownloadTypeOK, BytesInOrder
      <3>2. p \in Seq(Bytes) /\ Len(p) = k
        BY <2>1
      <3> HIDE DEF p
      <3>3. /\ file \o p \in Seq(Bytes) /\ Len(file \o p) = byte_count + k
            /\ \A i \in 1..(byte_count + k) :
                 (file \o p)[i] = IF i <= byte_count THEN file[i] ELSE p[i - byte_count]
        BY <3>1, <3>2
      <3>4. \A i \in (byte_count + 1)..(byte_count + k) :
              /\ p[i - byte_count].n = i /\ p[i - byte_count].v = version
              /\ p[i - byte_count].last <=> i = body.size
        <4> TAKE i \in (byte_count + 1)..(byte_count + k)
        <4>1. /\ i - byte_count \in 1..(byte_count + k - byte_count) /\ byte_count + k \in Nat
              /\ byte_count + (i - byte_count) = i
          BY <3>1
        <4> DEFINE j == i - byte_count
        <4> HIDE DEF j
        <4>2. /\ p[j].n = byte_count + j /\ p[j].v = version
              /\ p[j].last <=> byte_count + j = body.size
          <5>1. j \in 1..(byte_count + k - byte_count)
            BY <4>1 DEF j
          <5>2. p[j] = [v |-> version, n |-> byte_count + j,
                        last |-> (byte_count + j = body.size)]
            BY <3>1, <5>1 DEF p, Part
          <5>3. p[j].n = byte_count + j /\ p[j].v = version
            BY <5>2
          <5>4. p[j].last = (byte_count + j = body.size)
            BY <5>2
          <5> QED BY <5>3, <5>4
        <4>3. byte_count + j = i
          BY <4>1 DEF j
        <4>4. /\ p[j].n = i /\ p[j].v = version
              /\ p[j].last <=> i = body.size
          BY <4>2, <4>3, Zenon
        <4> QED BY <4>4 DEF j
      <3>5. file' = file \o p
        BY <2>0 DEF p
      <3> QED BY <3>1, <3>3, <3>4, <3>5
    <2>3. DownloadTypeOK'
      BY <2>0, <2>2 DEF DownloadTypeOK
    <2>4. BytesInOrder'
      <3>1. /\ body.size \in Int => byte_count + k <= body.size
            /\ byte_count \in Nat /\ Len(file) = byte_count
        BY <2>0 DEF DownloadTypeOK, BytesInOrder, Remaining, Bodies
      <3>2. \A i \in 1..(byte_count + k) :
              file'[i].n = i /\ file'[i].v = version /\ (file'[i].last <=> i = body.size)
        <4> TAKE i \in 1..(byte_count + k)
        <4>1. CASE i <= byte_count
          BY <2>0, <2>2, <3>1, <4>1 DEF BytesInOrder
        <4>2. CASE i > byte_count
          BY <2>2, <3>1, <4>2
        <4> QED BY <3>1, <4>1, <4>2
      <3>3. Remaining(0)'
        BY <2>0, <3>1 DEF Remaining, DownloadTypeOK, Bodies
      <3>4. \A i \in 1..(byte_count + k) : i = body.size => i = byte_count + k
        BY <3>1
      <3>5. file'[1].v = version
        BY <3>1, <3>2
      <3> QED BY <2>0, <2>2, <3>1, <3>2, <3>3, <3>4, <3>5 DEF BytesInOrder
    <2> QED BY <2>3, <2>4
  <1> QED BY <1>1, <1>2

\* Of an interrupted write a prefix remains.
LEMMA InterruptedKeeps ==
  ASSUME DownloadInv, Interrupted
  PROVE  DownloadInv'
  <1> USE DownloaderAssumption DEF DownloadInv
  <1>0. /\ call' = "raised" /\ body' = [body EXCEPT !.size = 0] /\ alive' = TRUE
        /\ byte_count' = 0 /\ version' = version
    BY DEF Interrupted, Ends
  <1>1. PICK k \in 0..Len(file) : file' = SubSeq(file, 1, k)
    BY DEF Interrupted
  <1>2. file \in Seq(Bytes) /\ Len(file) \in Nat
    BY DEF DownloadTypeOK
  <1>3. /\ file' \in Seq(Bytes) /\ Len(file') = k
        /\ \A i \in 1..k : file'[i] = file[i]
    BY <1>1, <1>2
  <1>4. DownloadTypeOK'
    <2>1. body' \in Bodies
      BY <1>0 DEF DownloadTypeOK, Bodies
    <2> QED BY <1>0, <1>2, <1>3, <2>1 DEF DownloadTypeOK
  <1>5. BytesInOrder'
    BY <1>0, <1>2, <1>3 DEF DownloadTypeOK, BytesInOrder
  <1> QED BY <1>4, <1>5

\* Every step of a download keeps the bytes in order.
LEMMA DownloadKeeps ==
  ASSUME DownloadInv, [DownloadNext]_downloadVars
  PROVE  DownloadInv'
  <1>1. CASE BodyEnds
    BY <1>1, EndsKeeps DEF BodyEnds
  <1>2. CASE DownloadFails
    BY <1>2, EndsKeeps DEF DownloadFails
  <1>3. CASE UNCHANGED downloadVars
    BY <1>3 DEF downloadVars, DownloadInv, DownloadTypeOK, BytesInOrder, Remaining
  <1> QED
    BY <1>1, <1>2, <1>3, OutsideKeeps, RespondsKeeps, ReceivesChunkKeeps, InterruptedKeeps
    DEF DownloadNext, ServerStep

-----------------------------------------------------------------------------
(* The bytes implement the abstract fetch. *)

\* Nothing is fetched before the first call.
LEMMA InitFetch == DownloadInit => Fetch!FInit
  BY DEF DownloadInit, Fetch!FInit, Complete

\* A cut file is whole only if it was whole before and nothing was cut off.
LEMMA PrefixOfWhole ==
  ASSUME DownloadInv, NEW k \in 0..Len(file), file' = SubSeq(file, 1, k), Complete'
  PROVE  Complete
  <1>1. /\ file \in Seq(Bytes) /\ Len(file) \in Nat
        /\ Len(file') = k /\ \A i \in 1..k : file'[i] = file[i]
    BY DEF DownloadInv, DownloadTypeOK
  <1>2. k > 0 /\ file[k].last
    BY <1>1 DEF Complete
  <1>3. k = Len(file)
    BY <1>1, <1>2 DEF DownloadInv, BytesInOrder
  <1> QED BY <1>1, <1>2, <1>3 DEF Complete, DownloadInv, BytesInOrder

\* A body that is accepted and tells its end is whole on disk.
LEMMA AcceptedIsWhole ==
  ASSUME DownloadInv, call = "stream", Accepted, body.framed
  PROVE  Complete
  <1>1. byte_count = body.size /\ byte_count > 0 /\ Len(file) = byte_count
    BY DEF Accepted, DownloadInv, BytesInOrder
  <1>2. file \in Seq(Bytes) /\ byte_count \in Nat
    BY DEF DownloadInv, DownloadTypeOK
  <1> QED BY <1>1, <1>2 DEF Complete, DownloadInv, BytesInOrder

\* Every step of a download is a step of the abstract fetch or invisible to it.
LEMMA DownloadRefines ==
  ASSUME DownloadInv, [DownloadNext]_downloadVars
  PROVE  [Fetch!FNext]_Fetch!fetchVars
  <1> USE DEF Fetch!FNext, Fetch!fetchVars
  <1>a. call \in {"idle", "request", "stream", "done", "failed", "raised"} /\ body \in Bodies
    BY DEF DownloadInv, DownloadTypeOK
  <1>b. \A r : Ends(r) => body'.framed = body.framed
    BY <1>a DEF Ends, Bodies
  <1>1. ASSUME NEW scheme \in Schemes, NEW host \in Hosts, NEW pinned \in BOOLEAN,
               NEW insecure \in BOOLEAN, StartDownload(scheme, host, pinned, insecure)
        PROVE  Fetch!FNext
    BY <1>1 DEF StartDownload, Complete, Fetch!Begin, Fetch!GiveUp
  <1>2. ASSUME NEW good \in BOOLEAN, NEW b \in Bodies, Responds(good, b)
        PROVE  Fetch!FNext
    <2>1. CASE call' = "stream"
      BY <1>2, <2>1 DEF Responds, Ends, Fetch!Write, Bodies
    <2>2. CASE call' # "stream"
      BY <1>2, <1>b, <2>2 DEF Responds, Ends, Complete, Fetch!GiveUp
    <2> QED BY <2>1, <2>2
  <1>3. ASSUME NEW k \in 1..MaxChunk, ReceivesChunk(k)
        PROVE  Fetch!FNext
    <2>1. CASE TooLarge(k)
      BY <1>3, <1>b, <2>1 DEF ReceivesChunk, Ends, Complete, Fetch!GiveUp
    <2>2. CASE ~TooLarge(k)
      BY <1>3, <1>a, <2>2 DEF ReceivesChunk, Fetch!Write, Bodies
    <2> QED BY <2>1, <2>2
  <1>4. CASE BodyEnds
    <2>1. CASE Accepted
      BY <1>4, <1>a, <1>b, <2>1, AcceptedIsWhole DEF BodyEnds, Ends, Complete, Fetch!Return
    <2>2. CASE ~Accepted
      BY <1>4, <1>b, <2>2 DEF BodyEnds, Ends, Complete, Fetch!GiveUp
    <2> QED BY <2>1, <2>2
  <1>5. CASE DownloadFails
    BY <1>5, <1>b DEF DownloadFails, TimesOut, Ends, Complete, Fetch!GiveUp
  <1>6. CASE ServerStalls
    BY <1>6 DEF ServerStalls, Complete
  <1>7. CASE Interrupted
    <2>1. Complete' => Complete
      BY <1>7, PrefixOfWhole DEF Interrupted
    <2> QED BY <1>7, <1>b, <2>1 DEF Interrupted, Ends, Fetch!GiveUp
  <1>8. CASE Returned
    BY <1>8 DEF Returned, Complete, Fetch!Again
  <1>9. CASE UNCHANGED downloadVars
    BY <1>9 DEF downloadVars, Complete
  <1> QED BY <1>1, <1>2, <1>3, <1>4, <1>5, <1>6, <1>7, <1>8, <1>9 DEF DownloadNext, ServerStep

-----------------------------------------------------------------------------
(* get_status and print. *)

USE DEF Backends

\* The larger of two numbers.
LEMMA MaxOfTwo ==
  ASSUME NEW a \in Int, NEW b \in Int
  PROVE  Max({a, b}) \in Int /\ Max({a, b}) = IF a >= b THEN a ELSE b
  BY DEF Max

\* MacCopies is what the job asks for, if that is something.
LEMMA MacCopiesValue ==
  ASSUME job \in Jobs
  PROVE  MacCopies \in Int /\ (job.copies >= 1 => MacCopies = job.copies)
  <1>1. job.copies \in Int
    BY PrintingAssumption DEF Jobs
  <1> QED BY <1>1, MaxOfTwo DEF MacCopies

\* Before the first job.
LEMMA InitPrintInv == PrintInit => PrintInv
  <1> SUFFICES ASSUME PrintInit PROVE PrintInv
    OBVIOUS
  <1>1. DitherInv
    BY NoPageKeeps DEF PrintInit
  <1>2. PrintTypeOK
    BY DitheringAssumption DEF PrintInit, NoPage, PrintTypeOK
  <1>3. SpoolFollowsPoint /\ SpooledOnce /\ SameVerdict
    BY DEF PrintInit, SpoolFollowsPoint, SpooledOnce, SameVerdict
  <1> QED BY <1>1, <1>2, <1>3 DEF PrintInv

\* The dithering state is only touched by steps that load a page or dither it.
LEMMA DrawUnchanged ==
  ASSUME PrintInv, UNCHANGED ditherVars
  PROVE  DitherInv'
  <1> USE DEF PrintInv, ditherVars, DitherInv
  <1>1. DitherTypeOK'
    BY DEF DitherTypeOK
  <1>2. ErrorsBounded'
    BY DEF ErrorsBounded, Got
  <1>3. RowsFollowInk'
    BY DEF RowsFollowInk, Decided
  <1>4. BlackStaysBlack'
    BY DEF BlackStaysBlack, Decided
  <1> QED BY <1>1, <1>2, <1>3, <1>4

\* get_status answers what discover would, whatever the device says.
LEMMA AskStatusKeeps ==
  ASSUME PrintInv, NEW backend \in Backends, NEW device \in Devices(backend),
         AskStatus(backend, device)
  PROVE  PrintInv'
  <1> USE DEF AskStatus, PrintInv, drawVars
  <1>1. DitherInv'
    BY DrawUnchanged
  <1>2. get_status(backend, device) \in BOOLEAN
    <2>1. CASE backend = "mac"
      BY <2>1, Zenon DEF get_status, MacGetStatus
    <2>2. CASE backend = "windows"
      BY <2>2, Zenon DEF get_status, WindowsGetStatus
    <2>3. CASE backend = "mock"
      BY <2>3 DEF get_status, Devices
    <2> QED BY <2>1, <2>2, <2>3
  <1>3. query' = [backend |-> backend, device |-> device, online |-> get_status(backend, device)]
    OBVIOUS
  <1>4. query'.backend = backend /\ query'.device = device
        /\ query'.online = get_status(backend, device)
    BY <1>3
  <1>5. PrintTypeOK'
    BY <1>2, <1>4 DEF PrintTypeOK, ditherVars
  <1>6. SpoolFollowsPoint' /\ SpooledOnce'
    BY <1>4 DEF PrintTypeOK, SpoolFollowsPoint, SpooledOnce
  <1>7. SameVerdict'
    <2>1. CASE backend = "mac"
      <3>1. MacGetStatus(device) = MacDiscover(device)
        BY DEF MacGetStatus, MacDiscover, StateOnline
      <3> QED BY <1>4, <2>1, <3>1 DEF SameVerdict, get_status
    <2>2. CASE backend = "windows"
      <3>1. device.opens => WindowsGetStatus(device) = WindowsDiscover(device)
        BY DEF WindowsGetStatus, WindowsDiscover, IsOnline
      <3> QED BY <1>4, <2>2, <3>1 DEF SameVerdict, get_status
    <2>3. CASE backend = "mock"
      BY <1>4, <2>3 DEF SameVerdict
    <2> QED BY <2>1, <2>2, <2>3
  <1> QED BY <1>1, <1>5, <1>6, <1>7

\* The printer is offline, or the printing begins.
LEMMA BeginKeeps ==
  ASSUME PrintInv, Offline \/ \E ppd \in Ppds, copies \in Copies : BeginPrint(ppd, copies)
  PROVE  PrintInv'
  <1> USE DEF PrintInv, drawVars
  <1>1. DitherInv'
    BY DrawUnchanged DEF Offline, BeginPrint
  <1>2. CASE Offline
    <2>1. PrintTypeOK'
      BY <1>2 DEF Offline, PrintTypeOK, ditherVars
    <2>2. SpoolFollowsPoint' /\ SpooledOnce' /\ SameVerdict'
      BY <1>2 DEF Offline, PrintTypeOK, SpoolFollowsPoint, SpooledOnce, SameVerdict
    <2> QED BY <1>1, <2>1, <2>2
  <1>3. ASSUME NEW ppd \in Ppds, NEW copies \in Copies, BeginPrint(ppd, copies)
        PROVE  PrintInv'
    <2> USE <1>3 DEF BeginPrint
    <2>1. job' \in Jobs /\ job' # None
      BY PrintingAssumption DEF Jobs, SpoolFollowsPoint
    <2>2. point' \in {"draw", "driver", "helper", "copy"}
      BY DEF FirstPoint, SpoolFollowsPoint
    <2>3. PrintTypeOK'
      BY <2>1, <2>2 DEF PrintTypeOK, ditherVars
    <2>4. SpoolFollowsPoint' /\ SpooledOnce' /\ SameVerdict'
      BY <2>1, <2>2 DEF PrintTypeOK, SpoolFollowsPoint, SpooledOnce, SameVerdict
    <2> QED BY <1>1, <2>3, <2>4
  <1> QED BY <1>2, <1>3

\* A page is loaded, or the last one is done.
LEMMA PageLoaded ==
  ASSUME PrintInv, point \in {"draw", "dither"}, NEW p \in Seq(Seq([Columns -> 0..255])),
         IF p = <<>> THEN point' = "frame" /\ LoadPage(<<>>) /\ UNCHANGED pages
         ELSE point' = "dither" /\ LoadPage(Head(p)) /\ pages' = Tail(p),
         UNCHANGED <<query, job, spool, result>>
  PROVE  PrintInv'
  <1> USE DEF PrintInv
  <1> DEFINE P == Seq([Columns -> 0..255])
  <1>1. PICK q \in P : LoadPage(q)
    <2>1. CASE p = <<>>
      <3>1. <<>> \in P
        OBVIOUS
      <3> QED BY <2>1, <3>1
    <2>2. CASE p # <<>>
      <3> HIDE DEF P
      <3>1. p \in Seq(P)
        BY DEF P
      <3>2. Head(p) \in P
        BY <2>2, <3>1
      <3> QED BY <2>2, <3>2
    <2> QED BY <2>1, <2>2
  <1>2. pages' \in Seq(P)
    <2> HIDE DEF P
    <2>1. p \in Seq(P) /\ pages \in Seq(P)
      BY DEF P, PrintTypeOK
    <2>2. CASE p = <<>>
      BY <2>1, <2>2
    <2>3. CASE p # <<>>
      <3>1. pages' = Tail(p)
        BY <2>3
      <3>2. Tail(p) \in Seq(P)
        BY <2>1, <2>3
      <3> QED BY <3>1, <3>2
    <2> QED BY <2>2, <2>3
  <1>3. DitherInv'
    BY <1>1, LoadPageKeeps
  <1>4. PrintTypeOK'
    <2>1. y' \in 1..(Len(gray') + 1) /\ x' \in 0..Width /\ Len(rows') = y' - 1
      <3>1. Len(q) \in Nat /\ Width \in Nat
        BY DitheringAssumption
      <3> QED BY <1>1, <3>1 DEF LoadPage
    <2> QED BY <1>2, <2>1 DEF PrintTypeOK
  <1>5. SpoolFollowsPoint' /\ SpooledOnce' /\ SameVerdict'
    BY DEF SpoolFollowsPoint, SpooledOnce, SameVerdict
  <1> QED BY <1>3, <1>4, <1>5

\* The pages are drawn one by one.
LEMMA DrawKeeps ==
  ASSUME PrintInv, Draw \/ FinishPage
  PROVE  PrintInv'
  <1>1. CASE Draw
    <2>1. PICK doc \in Documents :
            IF doc = <<>> THEN point' = "frame" /\ LoadPage(<<>>) /\ UNCHANGED pages
            ELSE point' = "dither" /\ LoadPage(Head(doc)) /\ pages' = Tail(doc)
      BY <1>1 DEF Draw
    <2>2. doc \in Seq(Seq([Columns -> 0..255]))
      BY PrintingAssumption
    <2> QED BY <1>1, <2>1, <2>2, PageLoaded DEF Draw
  <1>2. CASE FinishPage
    BY <1>2, PageLoaded DEF FinishPage, PrintInv, PrintTypeOK
  <1> QED BY <1>1, <1>2

\* The number of the row before a row is a natural number.
LEMMA RowBefore ==
  ASSUME NEW n \in Nat, NEW k \in 1..(n + 1)
  PROVE  k - 1 \in Nat
  OBVIOUS

\* A queue of at most one job has room for the driver's.
LEMMA OneMore ==
  ASSUME NEW n, n = 0 \/ n = 1
  PROVE  n + 1 \in {1, 2} /\ n = (n + 1) - 1
  OBVIOUS

\* Pixel by pixel, row by row.
LEMMA DitherStepKeeps ==
  ASSUME PrintInv, DitherStep
  PROVE  PrintInv'
  <1>1. DitherInv'
    BY DecidePixelKeeps, FinishRowKeeps DEF PrintInv, DitherStep
  <1>2. /\ y' \in 1..(Len(gray') + 1) /\ x' \in 0..Width
        /\ rows' = [r \in 1..(y' - 1) |-> PackRow({c \in Columns : <<r, c>> \in ink'})]
    BY <1>1 DEF DitherInv, DitherTypeOK, RowsFollowInk
  <1>3. y' - 1 \in Nat
    <2>1. Len(gray') \in Nat
      BY <1>1 DEF DitherInv, DitherTypeOK
    <2>2. y' \in 1..(Len(gray') + 1)
      BY <1>2
    <2> QED BY <2>1, <2>2, RowBefore
  <1>4. Len(rows') = y' - 1
    BY <1>2, <1>3
  <1>5. PrintTypeOK'
    BY <1>2, <1>4 DEF PrintInv, DitherStep, PrintTypeOK
  <1>6. SpoolFollowsPoint' /\ SpooledOnce' /\ SameVerdict'
    BY DEF PrintInv, DitherStep, SpoolFollowsPoint, SpooledOnce, SameVerdict
  <1> QED BY <1>1, <1>5, <1>6 DEF PrintInv

\* The raw job is framed, or given up for the driver.
LEMMA FrameKeeps ==
  ASSUME PrintInv, Frame \/ DrawFails
  PROVE  PrintInv'
  <1> USE DEF PrintInv, Frame, DrawFails, drawVars
  <1>1. DitherInv'
    BY DrawUnchanged
  <1>2. PrintTypeOK'
    BY DEF PrintTypeOK, ditherVars
  <1>3. SpoolFollowsPoint' /\ SpooledOnce' /\ SameVerdict'
    BY DEF SpoolFollowsPoint, SpooledOnce, SameVerdict
  <1> QED BY <1>1, <1>2, <1>3

\* What an entry appended to a sequence changes.
LEMMA AppendFacts ==
  ASSUME NEW S, NEW q \in Seq(S), NEW r \in S
  PROVE  /\ Append(q, r) \in Seq(S) /\ Len(Append(q, r)) = Len(q) + 1
         /\ Len(q) \in Nat /\ Append(q, r)[Len(q) + 1] = r
         /\ \A i \in 1..Len(q) : Append(q, r)[i] = q[i]
         /\ Append(q, r) # <<>>
  OBVIOUS

\* A job is accepted: one more in the queue, and print() knows of it or not.
LEMMA AcceptFacts ==
  ASSUME spool \in Seq(Entries), NEW c \in Int, NEW s \in BOOLEAN, Accept(c, s)
  PROVE  /\ spool' \in Seq(Entries) /\ Len(spool') = Len(spool) + 1 /\ spool' # <<>>
         /\ Len(spool) \in Nat
         /\ spool'[Len(spool) + 1].copies = c /\ (spool'[Len(spool) + 1].sure <=> s)
         /\ \A i \in 1..Len(spool) : spool'[i] = spool[i]
  <1> DEFINE r == [copies |-> c, sure |-> s]
  <1>1. r \in Entries /\ r.copies = c /\ (r.sure <=> s)
    BY DEF Entries
  <1>2. spool' = Append(spool, r)
    BY DEF Accept
  <1> HIDE DEF r
  <1>3. /\ Append(spool, r) \in Seq(Entries) /\ Len(Append(spool, r)) = Len(spool) + 1
        /\ Len(spool) \in Nat /\ Append(spool, r)[Len(spool) + 1] = r
        /\ \A i \in 1..Len(spool) : Append(spool, r)[i] = spool[i]
        /\ Append(spool, r) # <<>>
    BY <1>1, AppendFacts
  <1> QED BY <1>1, <1>2, <1>3

\* The raw job: accepted and returned from, or the driver is next.
LEMMA RawJobKeeps ==
  ASSUME PrintInv, RawJob
  PROVE  PrintInv'
  <1>1. DitherInv'
    BY DrawUnchanged DEF RawJob, drawVars
  <1>2. /\ point = "raw" /\ job \in Jobs /\ job # None /\ spool = <<>> /\ result = "none"
        /\ UNCHANGED <<query, job, drawVars, media>>
    BY DEF PrintInv, RawJob, SpoolFollowsPoint, PrintTypeOK
  <1>3. MacCopies \in Int /\ (job.copies >= 1 => MacCopies = job.copies)
    BY <1>2, MacCopiesValue
  <1>4. Len(spool) = 0 /\ spool \in Seq(Entries)
    BY <1>2
  <1>5. ASSUME NEW s \in BOOLEAN, Accept(MacCopies, s)
        PROVE  /\ spool' \in Seq(Entries) /\ Len(spool') = 1 /\ spool' # <<>>
               /\ (spool'[1].sure <=> s) /\ spool'[1].copies = MacCopies
    <2>1. /\ spool' \in Seq(Entries) /\ Len(spool') = Len(spool) + 1 /\ spool' # <<>>
          /\ (spool'[Len(spool) + 1].sure <=> s) /\ spool'[Len(spool) + 1].copies = MacCopies
      BY <1>3, <1>4, <1>5, AcceptFacts
    <2> QED BY <1>4, <2>1
  <1>6. SameVerdict'
    BY <1>2 DEF PrintInv, SameVerdict
  <1>7. ASSUME spool' \in Seq(Entries), Len(spool') <= 2, point' \in {"over", "driver"},
               result' \in {"none", "ok"}
        PROVE  PrintTypeOK'
    BY <1>2, <1>7 DEF PrintInv, PrintTypeOK, drawVars, ditherVars
  <1>8. CASE Accept(MacCopies, TRUE) /\ AfterRaw
    <2>1. /\ spool' \in Seq(Entries) /\ Len(spool') = 1 /\ spool'[1].sure
          /\ spool'[1].copies = MacCopies /\ point' = "over" /\ result' = "ok"
      BY <1>5, <1>8 DEF AfterRaw
    <2>2. PrintTypeOK'
      BY <1>7, <2>1
    <2>3. SpoolFollowsPoint'
      BY <1>2, <2>1 DEF SpoolFollowsPoint
    <2>4. SpooledOnce'
      <3>1. \A k \in 1..Len(spool') : k = 1
        BY <2>1
      <3> QED BY <1>2, <1>3, <2>1, <3>1 DEF SpooledOnce
    <2> QED BY <1>1, <1>6, <2>2, <2>3, <2>4 DEF PrintInv
  <1>9. CASE Accept(MacCopies, FALSE) /\ point' = "driver" /\ UNCHANGED result
    <2>1. /\ spool' \in Seq(Entries) /\ Len(spool') = 1 /\ ~spool'[1].sure
          /\ spool'[1].copies = MacCopies /\ point' = "driver" /\ result' = "none"
      BY <1>2, <1>5, <1>9
    <2>2. PrintTypeOK'
      BY <1>7, <2>1
    <2>3. SpoolFollowsPoint' /\ SpooledOnce'
      BY <1>2, <1>3, <2>1 DEF SpoolFollowsPoint, SpooledOnce
    <2> QED BY <1>1, <1>6, <2>2, <2>3 DEF PrintInv
  <1>10. CASE point' = "driver" /\ UNCHANGED <<spool, result>>
    <2>1. PrintTypeOK'
      BY <1>2, <1>4, <1>7, <1>10
    <2>2. SpoolFollowsPoint' /\ SpooledOnce'
      BY <1>2, <1>10 DEF SpoolFollowsPoint, SpooledOnce
    <2> QED BY <1>1, <1>6, <2>1, <2>2 DEF PrintInv
  <1> QED BY <1>8, <1>9, <1>10 DEF RawJob

\* The last command of print, whatever is in the queue before it.
LEMMA LastCommandKeeps ==
  ASSUME PrintInv, point \in {"driver", "helper", "copy"}, point' = "over",
         UNCHANGED <<query, job, drawVars>>, NEW c \in Int,
         job.copies >= 1 => c <= job.copies,
         \/ Accept(c, TRUE) /\ result' = "ok" /\ (job.copies >= 1 => c = job.copies)
         \/ Accept(c, FALSE) /\ result' = "error"
         \/ UNCHANGED spool /\ result' = "error"
  PROVE  PrintInv'
  <1>1. DitherInv'
    BY DrawUnchanged DEF drawVars
  <1>2. job \in Jobs /\ job # None /\ job.copies \in Int /\ spool \in Seq(Entries)
    <2>1. job \in Jobs /\ job # None /\ spool \in Seq(Entries)
      BY DEF PrintInv, SpoolFollowsPoint, PrintTypeOK
    <2> QED BY <2>1, PrintingAssumption DEF Jobs
  <1>3. \/ Len(spool) = 0
        \/ /\ Len(spool) = 1 /\ ~spool[1].sure
           /\ job.copies >= 1 => spool[1].copies = job.copies
    BY DEF PrintInv, SpoolFollowsPoint
  <1>4. \A i \in 1..Len(spool) :
          i = 1 /\ ~spool[i].sure /\ (job.copies >= 1 => spool[i].copies = job.copies)
    <2>1. CASE Len(spool) = 0
      <3>1. 1..Len(spool) = {}
        BY <2>1
      <3> QED BY <3>1
    <2>2. CASE Len(spool) = 1
      <3>1. \A i \in 1..Len(spool) : i = 1
        BY <2>2
      <3>2. ~spool[1].sure /\ (job.copies >= 1 => spool[1].copies = job.copies)
        BY <1>3, <2>2
      <3> QED BY <3>1, <3>2
    <2> QED BY <1>3, <2>1, <2>2
  <1>5. ASSUME NEW s \in BOOLEAN, Accept(c, s)
        PROVE  /\ spool' \in Seq(Entries) /\ Len(spool') = Len(spool) + 1
               /\ spool'[Len(spool) + 1].sure <=> s
               /\ spool'[Len(spool) + 1].copies = c
               /\ \A i \in 1..Len(spool) : spool'[i] = spool[i]
    BY <1>2, <1>5, AcceptFacts
  <1>6. SpoolFollowsPoint' /\ SameVerdict'
    BY <1>2 DEF PrintInv, SpoolFollowsPoint, SameVerdict
  <1>7. ASSUME spool' \in Seq(Entries), Len(spool') <= 2, result' \in {"ok", "error"}
        PROVE  PrintTypeOK'
    BY <1>2, <1>7 DEF PrintInv, PrintTypeOK, drawVars, ditherVars
  <1>8. ASSUME NEW s \in BOOLEAN, Accept(c, s), result' = IF s THEN "ok" ELSE "error",
               s /\ job.copies >= 1 => c = job.copies
        PROVE  PrintInv'
    <2> DEFINE n == Len(spool) + 1
    <2>1. /\ spool' \in Seq(Entries) /\ Len(spool') = n /\ (spool'[n].sure <=> s)
          /\ spool'[n].copies = c /\ \A i \in 1..Len(spool) : spool'[i] = spool[i]
      BY <1>5, <1>8
    <2>2. n \in {1, 2} /\ Len(spool) = n - 1
      <3>1. Len(spool) = 0 \/ Len(spool) = 1
        BY <1>3
      <3> QED BY <3>1, OneMore
    <2> HIDE DEF n
    <2>3. \A k \in 1..n : k = n \/ k \in 1..Len(spool)
      BY <2>2
    <2>4. \A k \in 1..n : spool'[k].sure <=> (k = n /\ s)
      BY <1>4, <2>1, <2>2, <2>3
    <2>5. job.copies >= 1 => \A k \in 1..n :
            IF spool'[k].sure THEN spool'[k].copies = job.copies
            ELSE spool'[k].copies <= job.copies
      BY <1>2, <1>4, <1>8, <2>1, <2>2, <2>3, <2>4
    <2>6. SpooledOnce'
      BY <1>2, <1>8, <2>1, <2>2, <2>4, <2>5 DEF SpooledOnce
    <2>7. PrintTypeOK'
      BY <1>7, <1>8, <2>1, <2>2
    <2> QED BY <1>1, <1>6, <2>6, <2>7 DEF PrintInv
  <1>9. CASE UNCHANGED spool /\ result' = "error"
    <2>1. SpooledOnce'
      BY <1>2, <1>3, <1>4, <1>9 DEF SpooledOnce
    <2>2. PrintTypeOK'
      <3>1. Len(spool) <= 2
        BY DEF PrintInv, PrintTypeOK
      <3> QED BY <1>2, <1>7, <1>9, <3>1
    <2> QED BY <1>1, <1>6, <2>1, <2>2 DEF PrintInv
  <1> QED BY <1>8, <1>9

\* The job of a call of print.
LEMMA JobOfCall ==
  ASSUME PrintInv, point \in {"driver", "helper", "copy"}
  PROVE  job \in Jobs /\ job.copies \in Int
  <1>1. job \in Jobs
    BY DEF PrintInv, SpoolFollowsPoint, PrintTypeOK
  <1> QED BY <1>1, PrintingAssumption DEF Jobs

\* The driver, the helper and the mock: the three last commands of print.
LEMMA EndKeeps ==
  ASSUME PrintInv,
         (\E page \in PageSizes \cup {None} : DriverJob(page)) \/ HelperJob \/ CopyFiles
  PROVE  PrintInv'
  <1>1. CASE \E page \in PageSizes \cup {None} : DriverJob(page)
    <2>1. point = "driver" /\ LastCommand(MacCopies)
      BY <1>1 DEF DriverJob
    <2>2. MacCopies \in Int /\ (job.copies >= 1 => MacCopies = job.copies)
      BY <2>1, JobOfCall, MacCopiesValue
    <2>3. job.copies >= 1 => MacCopies <= job.copies
      BY <2>1, <2>2, JobOfCall
    <2> QED BY <2>1, <2>2, <2>3, LastCommandKeeps DEF LastCommand
  <1>2. CASE HelperJob
    <2> DEFINE c == IF job.copies > 1 THEN job.copies ELSE 1
    <2>1. point = "helper" /\ LastCommand(c)
      BY <1>2 DEF HelperJob
    <2>2. job.copies \in Int
      BY <2>1, JobOfCall
    <2>3. c \in Int /\ (job.copies >= 1 => c = job.copies /\ c <= job.copies)
      BY <2>2
    <2> HIDE DEF c
    <2> QED BY <2>1, <2>3, LastCommandKeeps DEF LastCommand
  <1>3. CASE CopyFiles
    <2>1. /\ point = "copy" /\ point' = "over" /\ UNCHANGED <<query, job, drawVars>>
      BY <1>3 DEF CopyFiles
    <2>2. job.copies \in Int
      BY <2>1, JobOfCall
    <2>3. CASE Accept(Max({0, job.copies}), TRUE) /\ result' = "ok"
      <3> DEFINE c == Max({0, job.copies})
      <3>1. c \in Int /\ (job.copies >= 1 => c = job.copies /\ c <= job.copies)
        BY <2>2, MaxOfTwo
      <3>2. Accept(c, TRUE) /\ result' = "ok"
        BY <2>3
      <3> HIDE DEF c
      <3> QED BY <2>1, <3>1, <3>2, LastCommandKeeps
    <2>4. CASE \E n \in 0..job.copies : Accept(n, FALSE) /\ result' = "error"
      <3>1. PICK n \in 0..job.copies : Accept(n, FALSE) /\ result' = "error"
        BY <2>4
      <3>2. n \in Int /\ n <= job.copies
        BY <2>2
      <3> QED BY <2>1, <3>1, <3>2, LastCommandKeeps
    <2> QED BY <1>3, <2>3, <2>4 DEF CopyFiles
  <1> QED BY <1>1, <1>2, <1>3

\* The next job starts from nothing.
LEMMA NextJobKeeps ==
  ASSUME PrintInv, NextJob
  PROVE  PrintInv'
  <1>1. <<>> \in Seq([Columns -> 0..255])
    OBVIOUS
  <1>2. DitherInv'
    BY <1>1, LoadPageKeeps DEF NextJob
  <1>3. PrintTypeOK'
    <2>1. Width \in Nat
      BY DitheringAssumption
    <2>2. gray' = <<>> /\ y' = 1 /\ x' = 0 /\ rows' = <<>>
      BY DEF NextJob, LoadPage
    <2>3. y' \in 1..(Len(gray') + 1) /\ x' \in 0..Width /\ Len(rows') = y' - 1
      BY <2>1, <2>2
    <2> QED BY <2>3 DEF NextJob, PrintInv, PrintTypeOK
  <1>4. SpoolFollowsPoint' /\ SpooledOnce' /\ SameVerdict'
    BY DEF NextJob, PrintInv, SpoolFollowsPoint, SpooledOnce, SameVerdict
  <1> QED BY <1>2, <1>3, <1>4 DEF PrintInv

\* While a document is downloaded nothing is printed.
LEMMA PrintWaits ==
  ASSUME PrintInv, UNCHANGED printVars
  PROVE  PrintInv'
  <1>1. UNCHANGED <<point, query, job, pages, spool, result>> /\ UNCHANGED ditherVars
    BY DEF printVars, drawVars
  <1>2. DitherInv'
    BY <1>1, DrawUnchanged
  <1>3. PrintTypeOK'
    BY <1>1 DEF PrintInv, PrintTypeOK, ditherVars
  <1>4. SpoolFollowsPoint'
    BY <1>1 DEF PrintInv, SpoolFollowsPoint
  <1>5. SpooledOnce'
    BY <1>1, Zenon DEF PrintInv, SpooledOnce
  <1>6. SameVerdict'
    BY <1>1, Zenon DEF PrintInv, SameVerdict
  <1> QED BY <1>2, <1>3, <1>4, <1>5, <1>6 DEF PrintInv

\* Every step of get_status and print keeps the queue in order.
LEMMA PrintKeeps ==
  ASSUME PrintInv, PrintNext
  PROVE  PrintInv'
  BY AskStatusKeeps, BeginKeeps, DrawKeeps, DitherStepKeeps, FrameKeeps, RawJobKeeps, EndKeeps
  DEF PrintNext

-----------------------------------------------------------------------------
(* The paper. *)

\* A list that is sorted has a first element: of finitely many elements of which any
\* two can be compared, one comes before all.
LEMMA FirstExists ==
  ASSUME NEW S, IsFiniteSet(S), S # {}, NEW R,
         \A i, k \in S : <<i, k>> \in R \/ <<k, i>> \in R,
         \A i, j, k \in S : <<i, j>> \in R /\ <<j, k>> \in R => <<i, k>> \in R
  PROVE  \E i \in S : \A k \in S : <<i, k>> \in R
  <1> DEFINE D(i) == {k \in S : <<k, i>> \in R}
             T == {D(i) : i \in S}
  <1>1. T \subseteq FiniteSubsetsOf(S) /\ T # {}
    <2>1. \A i \in S : D(i) \in SUBSET S /\ IsFiniteSet(D(i))
      BY FS_Subset
    <2>2. \A i \in S : D(i) \in FiniteSubsetsOf(S)
      BY <2>1 DEF FiniteSubsetsOf
    <2> HIDE DEF D
    <2> QED BY <2>2
  <1>2. PICK d \in T : \A e \in T : ~ (<<e, d>> \in StrictSubsetOrdering(S))
    <2> HIDE DEF T
    <2> QED BY <1>1, FS_StrictSubsetOrderingWellFounded, WFMin
  <1>3. PICK i \in S : d = D(i)
    BY <1>2
  <1>4. ASSUME NEW k \in S, <<i, k>> \notin R
        PROVE  FALSE
    <2>1. <<k, i>> \in R /\ <<i, i>> \in R
      BY <1>4
    <2>2. D(k) \subseteq D(i) /\ i \in D(i) /\ i \notin D(k)
      BY <1>4, <2>1
    <2>3. D(k) # D(i)
      BY <2>2
    <2>4. <<D(k), D(i)>> \in StrictSubsetOrdering(S)
      BY <2>2, <2>3 DEF StrictSubsetOrdering
    <2> QED BY <1>2, <1>3, <2>4
  <1> QED BY <1>4

\* The sizes sorted by length have a first and a last one.
LEMMA ShortestLongest ==
  ASSUME NEW sizes \in Seq(Sizes), NEW S \in SUBSET (DOMAIN sizes), S # {}
  PROVE  /\ Shortest(sizes, S) \in S /\ \A k \in S : Before(sizes, Shortest(sizes, S), k)
         /\ Longest(sizes, S) \in S /\ \A k \in S : Before(sizes, k, Longest(sizes, S))
  <1>1. DOMAIN sizes = 1..Len(sizes) /\ Len(sizes) \in Nat
    OBVIOUS
  <1>2. IsFiniteSet(S)
    <2>1. IsFiniteSet(1..Len(sizes)) /\ S \in SUBSET (1..Len(sizes))
      BY <1>1, FS_Interval
    <2> QED BY <2>1, FS_Subset
  <1>3. \A i \in S : i \in Int /\ sizes[i].h \in Nat
    <2> TAKE i \in S
    <2>1. i \in 1..Len(sizes)
      BY <1>1
    <2>2. sizes[i] \in Sizes
      BY <2>1
    <2> QED BY <1>1, <2>1, <2>2 DEF Sizes
  <1>4. /\ \A i, k \in S : Before(sizes, i, k) \/ Before(sizes, k, i)
        /\ \A i, j, k \in S : Before(sizes, i, j) /\ Before(sizes, j, k) => Before(sizes, i, k)
    BY <1>3 DEF Before
  <1>5. \E i \in S : \A k \in S : Before(sizes, i, k)
    <2> DEFINE R == {r \in S \X S : Before(sizes, r[1], r[2])}
    <2>1. \A i, k \in S : <<i, k>> \in R <=> Before(sizes, i, k)
      OBVIOUS
    <2> HIDE DEF R
    <2>2. /\ \A i, k \in S : <<i, k>> \in R \/ <<k, i>> \in R
          /\ \A i, j, k \in S : <<i, j>> \in R /\ <<j, k>> \in R => <<i, k>> \in R
      BY <1>4, <2>1
    <2>3. \E i \in S : \A k \in S : <<i, k>> \in R
      BY <1>2, <2>2, FirstExists
    <2> QED BY <2>1, <2>3
  <1>6. \E i \in S : \A k \in S : Before(sizes, k, i)
    <2> DEFINE R == {r \in S \X S : Before(sizes, r[2], r[1])}
    <2>1. \A i, k \in S : <<i, k>> \in R <=> Before(sizes, k, i)
      OBVIOUS
    <2> HIDE DEF R
    <2>2. /\ \A i, k \in S : <<i, k>> \in R \/ <<k, i>> \in R
          /\ \A i, j, k \in S : <<i, j>> \in R /\ <<j, k>> \in R => <<i, k>> \in R
      BY <1>4, <2>1
    <2>3. \E i \in S : \A k \in S : <<i, k>> \in R
      BY <1>2, <2>2, FirstExists
    <2> QED BY <2>1, <2>3
  <1> QED BY <1>5, <1>6 DEF Shortest, Longest

\* The test of roll_media_for is that the scaled page is no longer than the paper.
LEMMA FitsIsScaledUp ==
  ASSUME NEW page \in Sizes, page.w > 0, NEW size \in Sizes
  PROVE  /\ ScaledUp(page, size.w) \in Int
         /\ Fits(page, size) <=> ScaledUp(page, size.w) <= size.h
  <1>1. /\ page.h \in Nat /\ page.w \in Nat \ {0} /\ size.w \in Nat /\ size.h \in Nat
    BY DEF Sizes
  <1>2. Min({page.w, size.w}) \in Nat
    BY <1>1, MinOfTwo
  <1> DEFINE a == page.h * Min({page.w, size.w})
  <1>3. a \in Nat
    BY <1>1, <1>2
  <1> HIDE DEF a
  <1>4. /\ (a + page.w - 1) \div page.w \in Int
        /\ (a + page.w - 1) \div page.w <= size.h <=> a <= size.h * page.w
    BY <1>1, <1>3, CeilFits
  <1> QED BY <1>4 DEF a, Fits, ScaledUp

\* What roll_media_for returns, from the sizes a driver lists.
LEMMA FixedRolls ==
  ASSUME NEW sizes \in Seq(Sizes), NEW page \in Sizes \cup {None}, None \notin Sizes
  PROVE  LET rolls == {s \in Range(sizes) : IsRoll(s)}
             paper == roll_media_for(sizes, page)
         IN /\ rolls = {} => paper = None
            /\ rolls # {} => paper \in rolls
            /\ rolls # {} /\ page # None /\ page.w > 0 =>
                 /\ \/ paper.h >= ScaledUp(page, paper.w)
                    \/ \A s \in rolls : s.h < ScaledUp(page, s.w) /\ s.h <= paper.h
                 /\ \A s \in rolls : s.h >= ScaledUp(page, s.w) => paper.h <= s.h
  <1> DEFINE rolls == {s \in Range(sizes) : IsRoll(s)}
             R == Rolls(sizes)
             paper == roll_media_for(sizes, page)
  <1>1. /\ R \in SUBSET (DOMAIN sizes) /\ rolls = {sizes[i] : i \in R}
        /\ \A i \in R : sizes[i] \in Sizes
    BY DEF Rolls, Range
  <1>2. rolls = {} <=> R = {}
    BY <1>1
  <1>3. CASE R = {}
    BY <1>2, <1>3 DEF roll_media_for
  <1>4. CASE R # {} /\ (page = None \/ ~(page.w > 0))
    <2>1. paper = sizes[Shortest(sizes, R)]
      BY <1>4 DEF roll_media_for, Sizes
    <2>2. Shortest(sizes, R) \in R
      BY <1>1, <1>4, ShortestLongest
    <2>3. paper \in rolls
      BY <1>1, <2>1, <2>2
    <2> HIDE DEF paper, rolls, R
    <2> QED BY <1>2, <1>4, <2>3 DEF paper, rolls
  <1>5. CASE R # {} /\ page # None /\ page.w > 0
    <2> DEFINE F == {i \in R : Fits(page, sizes[i])}
    <2>a. page \in Sizes /\ page.w \in Nat
      BY <1>5 DEF Sizes
    <2>1. \A i \in R : /\ ScaledUp(page, sizes[i].w) \in Int /\ sizes[i].h \in Nat
                       /\ i \in F <=> ScaledUp(page, sizes[i].w) <= sizes[i].h
      <3> TAKE i \in R
      <3>1. sizes[i] \in Sizes
        BY <1>1
      <3> QED BY <1>5, <2>a, <3>1, FitsIsScaledUp DEF Sizes
    <2>2. paper = IF F # {} THEN sizes[Shortest(sizes, F)] ELSE sizes[Longest(sizes, R)]
      BY <1>5, <2>a DEF roll_media_for
    <2>3. CASE F # {}
      <3> DEFINE m == Shortest(sizes, F)
      <3>1. m \in F /\ \A k \in F : Before(sizes, m, k)
        BY <1>1, <2>3, ShortestLongest
      <3> HIDE DEF m
      <3>2. paper = sizes[m]
        BY <2>2, <2>3 DEF m
      <3> HIDE DEF F, R, paper, rolls
      <3>3. \A k \in F : sizes[m].h <= sizes[k].h
        BY <2>1, <3>1 DEF Before, F
      <3>4. m \in R /\ paper \in rolls /\ paper.h >= ScaledUp(page, paper.w)
        BY <1>1, <2>1, <3>1, <3>2 DEF F
      <3>5. \A s \in rolls : s.h >= ScaledUp(page, s.w) => paper.h <= s.h
        BY <1>1, <2>1, <3>2, <3>3
      <3> QED BY <1>2, <1>5, <3>4, <3>5 DEF paper, rolls
    <2>4. CASE F = {}
      <3> DEFINE m == Longest(sizes, R)
      <3>1. m \in R /\ \A k \in R : Before(sizes, k, m)
        BY <1>1, <1>5, ShortestLongest
      <3> HIDE DEF m
      <3>2. paper = sizes[m]
        BY <2>2, <2>4 DEF m
      <3> HIDE DEF F, R, paper, rolls
      <3>3. \A k \in R : sizes[k].h <= sizes[m].h /\ sizes[k].h < ScaledUp(page, sizes[k].w)
        BY <2>1, <2>4, <3>1 DEF Before
      <3>4. paper \in rolls
        BY <1>1, <3>1, <3>2
      <3>5. \A s \in rolls : s.h < ScaledUp(page, s.w) /\ s.h <= paper.h
        BY <1>1, <3>2, <3>3
      <3>6. \A s \in rolls : ~(s.h >= ScaledUp(page, s.w))
        BY <1>1, <2>1, <3>3
      <3> QED BY <1>2, <1>5, <3>4, <3>5, <3>6 DEF paper, rolls
    <2> QED BY <2>3, <2>4
  <1> QED BY <1>3, <1>4, <1>5

\* A length kept within the range of the driver.
LEMMA Clamped ==
  ASSUME NEW lo \in Int, NEW hi \in Int, NEW l \in Int, lo <= hi
  PROVE  LET h == Max({lo, Min({hi, l})})
         IN h \in Int /\ lo <= h /\ (h >= l \/ h = hi) /\ (h <= l \/ h = lo)
  <1>1. Min({hi, l}) \in Int /\ Min({hi, l}) = IF hi <= l THEN hi ELSE l
    BY MinOfTwo
  <1> DEFINE m == Min({hi, l})
  <1> HIDE DEF m
  <1>2. Max({lo, m}) \in Int /\ Max({lo, m}) = IF lo >= m THEN lo ELSE m
    BY <1>1, MaxOfTwo DEF m
  <1> DEFINE h == Max({lo, m})
  <1> HIDE DEF h
  <1>3. h \in Int /\ lo <= h /\ (h >= l \/ h = hi) /\ (h <= l \/ h = lo)
    BY <1>1, <1>2 DEF m, h
  <1> QED BY <1>3 DEF m, h

\* What custom_roll_media returns where the driver takes a custom length.
LEMMA CustomRoll ==
  ASSUME NEW ppd \in Ppds, NEW page \in Sizes, page.w > 0, ppd.custom # None
  PROVE  LET paper == custom_roll_media(ppd, page)
             c == ppd.custom
         IN \/ paper = None /\ {s \in Range(ppd.sizes) : IsRoll(s)} = {}
            \/ /\ paper # None
               /\ paper.h >= ScaledUp(page, paper.w) \/ paper.h = c.max
               /\ paper.h <= ScaledUp(page, paper.w) \/ paper.h = c.min
  <1> DEFINE c == ppd.custom
  <1>1. c \in Customs /\ c.min <= c.max /\ None \notin Sizes
    BY PrintingAssumption
  <1>2. c.w \in Nat \ {0} /\ c.min \in Nat /\ c.max \in Nat /\ page # None /\ ~(page.w <= 0)
    BY <1>1 DEF Customs, Sizes
  <1> DEFINE l == ScaledUp(page, c.w)
             h == Max({c.min, Min({c.max, l})})
  <1>3. l \in Int
    <2> DEFINE z == [w |-> c.w, h |-> 0]
    <2>1. z \in Sizes /\ z.w = c.w
      BY <1>2 DEF Sizes
    <2> HIDE DEF z
    <2>2. ScaledUp(page, z.w) \in Int
      BY <2>1, FitsIsScaledUp
    <2> QED BY <2>1, <2>2
  <1> HIDE DEF c, l
  <1>4. h \in Int /\ c.min <= h /\ (h >= l \/ h = c.max) /\ (h <= l \/ h = c.min)
    BY <1>1, <1>2, <1>3, Clamped
  <1> HIDE DEF h
  <1>5. [w |-> c.w, h |-> h] \in Sizes
    BY <1>2, <1>4 DEF Sizes
  <1>6. CASE (\E s \in Range(ppd.sizes) : IsRoll(s)) \/ ~(c.max < ROLL_RATIO * c.w)
    <2>1. custom_roll_media(ppd, page) = [w |-> c.w, h |-> h]
      BY <1>2, <1>6 DEF custom_roll_media, c, h, l
    <2> QED BY <1>1, <1>4, <1>5, <2>1 DEF c, l
  <1>7. CASE ~(\E s \in Range(ppd.sizes) : IsRoll(s)) /\ c.max < ROLL_RATIO * c.w
    <2>1. custom_roll_media(ppd, page) = None
      BY <1>2, <1>7 DEF custom_roll_media, c
    <2> QED BY <1>7, <2>1
  <1> QED BY <1>6, <1>7

\* The paper of a job fits its page, whichever of the two ways chose it.
LEMMA PaperFits ==
  ASSUME MediaChosen
  PROVE  MediaFits
  <1> SUFFICES ASSUME media # None PROVE MediaFits
    BY DEF MediaFits
  <1>1. PICK page \in PageSizes \cup {None} :
          media = [page |-> page, paper |-> MediaFor(job.ppd, page)]
    BY DEF MediaChosen
  <1>2. job \in Jobs /\ job.ppd \in Ppds
    BY DEF MediaChosen, Jobs
  <1> DEFINE ppd == job.ppd
             rolls == {s \in Range(ppd.sizes) : IsRoll(s)}
             paper == MediaFor(ppd, page)
             fixed == roll_media_for(ppd.sizes, page)
             custom == custom_roll_media(ppd, page)
  <1>3. ppd.sizes \in Seq(Sizes) /\ page \in Sizes \cup {None} /\ None \notin Sizes
    BY <1>2, PrintingAssumption
  <1>4. media.page = page /\ media.paper = paper
    BY <1>1
  <1>5. /\ rolls = {} => fixed = None
        /\ rolls # {} => fixed \in rolls /\ fixed # None
        /\ rolls # {} /\ page # None /\ page.w > 0 =>
             /\ \/ fixed.h >= ScaledUp(page, fixed.w)
                \/ \A s \in rolls : s.h < ScaledUp(page, s.w) /\ s.h <= fixed.h
             /\ \A s \in rolls : s.h >= ScaledUp(page, s.w) => fixed.h <= s.h
    <2>1. \A s \in rolls : s \in Sizes
      BY <1>3 DEF Range
    <2>2. rolls # {} => fixed \in rolls
      BY <1>3, FixedRolls
    <2>3. rolls # {} => fixed # None
      BY <1>3, <2>1, <2>2
    <2>4. rolls = {} => fixed = None
      BY <1>3, FixedRolls
    <2>5. rolls # {} /\ page # None /\ page.w > 0 =>
             /\ \/ fixed.h >= ScaledUp(page, fixed.w)
                \/ \A s \in rolls : s.h < ScaledUp(page, s.w) /\ s.h <= fixed.h
             /\ \A s \in rolls : s.h >= ScaledUp(page, s.w) => fixed.h <= s.h
      BY <1>3, FixedRolls
    <2> QED BY <2>2, <2>3, <2>4, <2>5
  <1>6. paper = IF custom # None THEN custom ELSE fixed
    BY DEF MediaFor
  <1>7. rolls # {} => paper # None
    BY <1>5, <1>6
  <1>8. ASSUME page # None, paper # None, page.w > 0
        PROVE  IF ppd.custom # None
               THEN /\ paper.h >= ScaledUp(page, paper.w) \/ paper.h = ppd.custom.max
                    /\ paper.h <= ScaledUp(page, paper.w) \/ paper.h = ppd.custom.min
               ELSE /\ \/ paper.h >= ScaledUp(page, paper.w)
                       \/ \A s \in rolls : s.h < ScaledUp(page, s.w) /\ s.h <= paper.h
                    /\ \A s \in rolls : s.h >= ScaledUp(page, s.w) => paper.h <= s.h
    <2>1. CASE ppd.custom # None
      <3>1. \/ custom = None /\ rolls = {}
            \/ /\ custom # None
               /\ custom.h >= ScaledUp(page, custom.w) \/ custom.h = ppd.custom.max
               /\ custom.h <= ScaledUp(page, custom.w) \/ custom.h = ppd.custom.min
        BY <1>2, <1>3, <1>8, <2>1, CustomRoll
      <3> HIDE DEF ppd, rolls, paper, fixed, custom
      <3> QED BY <1>5, <1>6, <1>8, <2>1, <3>1
    <2>2. CASE ppd.custom = None
      <3>1. custom = None
        BY <2>2 DEF custom_roll_media
      <3>2. paper = fixed
        BY <1>6, <3>1
      <3>3. rolls # {}
        BY <1>5, <1>8, <3>2
      <3> HIDE DEF ppd, rolls, paper, fixed, custom
      <3> QED BY <1>5, <1>8, <2>2, <3>2, <3>3
    <2> QED BY <2>1, <2>2
  <1> QED BY <1>4, <1>7, <1>8 DEF MediaFits

\* Only the driver's job chooses a paper, and the next job forgets it.
LEMMA MediaKeeps ==
  ASSUME PrintInv, MediaChosen, PrintNext \/ NextJob \/ UNCHANGED printVars
  PROVE  MediaChosen'
  <1>1. media = None \/ point = "over"
    BY DEF MediaChosen
  <1>2. ASSUME NEW page \in PageSizes \cup {None}, DriverJob(page)
        PROVE  MediaChosen'
    <2>1. /\ point = "driver" /\ point' = "over" /\ job' = job
          /\ media' = [page |-> page, paper |-> MediaFor(job.ppd, page)]
      BY <1>2 DEF DriverJob, LastCommand
    <2>2. job \in Jobs
      BY <2>1 DEF PrintInv, SpoolFollowsPoint, PrintTypeOK
    <2> QED BY <2>1, <2>2 DEF MediaChosen
  <1>3. CASE NextJob
    BY <1>3 DEF NextJob, MediaChosen
  <1>4. CASE UNCHANGED printVars
    BY <1>4 DEF printVars, MediaChosen
  <1>5. ASSUME point # "over", media' = media
        PROVE  MediaChosen'
    BY <1>1, <1>5 DEF MediaChosen
  <1>6. ASSUME NEW backend \in Backends, NEW device \in Devices(backend),
               AskStatus(backend, device)
        PROVE  MediaChosen'
    BY <1>5, <1>6 DEF AskStatus
  <1>7. CASE Offline \/ \E ppd \in Ppds, copies \in Copies : BeginPrint(ppd, copies)
    BY <1>5, <1>7 DEF Offline, BeginPrint
  <1>8. CASE Draw \/ DitherStep \/ FinishPage \/ Frame \/ DrawFails
    BY <1>5, <1>8 DEF Draw, DitherStep, FinishPage, Frame, DrawFails
  <1>9. CASE RawJob \/ HelperJob \/ CopyFiles
    BY <1>5, <1>9 DEF RawJob, HelperJob, CopyFiles
  <1> QED BY <1>2, <1>3, <1>4, <1>6, <1>7, <1>8, <1>9 DEF PrintNext

-----------------------------------------------------------------------------
(* The receipt. *)

\* What the receipt and the raw job are made of, at any point of print.
LEMMA ReceiptFollows ==
  ReceiptFollowsInks <=>
    /\ Follows(receipt, inks)
    /\ point = "raw" =>
         /\ receipt # <<>>
         /\ data = build_escpos_job(receipt, mm_to_dots(PAD_TENTHS_MM, job.ppd.dpi))
  BY Zenon DEF ReceiptFollowsInks, Follows, Drawn

\* No page yet.
LEMMA NoReceipt ==
  ASSUME receipt = <<>>, inks = <<>>, point = "idle"
  PROVE  ReceiptFollowsInks
  BY NothingFollows, ReceiptFollows

\* The trimmed rows of a page are added to the receipt with its dots; the raw job is
\* made of the receipt as it is then, which no later step changes.
LEMMA ReceiptKeeps ==
  ASSUME PrintInv, ReceiptFollowsInks, PrintNext \/ NextJob \/ UNCHANGED printVars
  PROVE  ReceiptFollowsInks'
  <1> DEFINE Raw == /\ receipt # <<>>
                    /\ data = build_escpos_job(receipt, mm_to_dots(PAD_TENTHS_MM, job.ppd.dpi))
  <1>1. Follows(receipt, inks) /\ (point = "raw" => Raw)
    BY ReceiptFollows
  <1>2. ASSUME Follows(receipt, inks)', point' = "raw" => Raw'
        PROVE  ReceiptFollowsInks'
    BY <1>2, Zenon DEF ReceiptFollowsInks, Follows, Drawn
  <1>3. ASSUME receipt' = receipt, inks' = inks, point' # "raw"
        PROVE  ReceiptFollowsInks'
    BY <1>1, <1>2, <1>3
  <1>4. CASE FinishPage
    <2>1. /\ receipt' = receipt \o trim_blank_rows(rows) /\ inks' = Append(inks, ink)
          /\ point' # "raw" /\ y > Len(gray)
      BY <1>4 DEF FinishPage
    <2>2. /\ Len(gray) \in Nat /\ y = Len(gray) + 1 /\ y - 1 = Len(gray)
          /\ ink \subseteq (1..Len(gray)) \X Columns
      BY <2>1 DEF PrintInv, DitherInv, DitherTypeOK
    <2>3. rows = [r \in 1..Len(gray) |-> PackRow({c \in Columns : <<r, c>> \in ink})]
      BY <2>2 DEF PrintInv, DitherInv, RowsFollowInk
    <2>4. Follows(receipt \o trim_blank_rows(rows), Append(inks, ink))
      BY <1>1, <2>2, <2>3, PageFollows
    <2> QED BY <1>2, <2>1, <2>4
  <1>5. CASE Frame
    <2>1. CASE receipt = <<>>
      BY <1>3, <1>5, <2>1 DEF Frame
    <2>2. CASE receipt # <<>>
      BY <1>1, <1>2, <1>5, <2>2 DEF Frame
    <2> QED BY <2>1, <2>2
  <1>6. CASE NextJob
    BY <1>2, <1>6, NothingFollows DEF NextJob
  <1>7. CASE UNCHANGED printVars
    BY <1>1, <1>2, <1>7 DEF printVars, drawVars
  <1>8. ASSUME NEW backend \in Backends, NEW device \in Devices(backend),
               AskStatus(backend, device)
        PROVE  ReceiptFollowsInks'
    BY <1>3, <1>8 DEF AskStatus, drawVars
  <1>9. ASSUME NEW ppd \in Ppds, NEW copies \in Copies, BeginPrint(ppd, copies)
        PROVE  ReceiptFollowsInks'
    <2>1. query.backend \in Backends
      BY <1>9 DEF BeginPrint, PrintInv, SpoolFollowsPoint
    <2>2. point' # "raw"
      BY <1>9, <2>1 DEF BeginPrint, FirstPoint, Backends
    <2> QED BY <1>3, <1>9, <2>2 DEF BeginPrint, drawVars
  <1>10. CASE Offline \/ Draw \/ DitherStep \/ DrawFails
    BY <1>3, <1>10 DEF Offline, Draw, DitherStep, DrawFails, drawVars
  <1>11. CASE RawJob
    BY <1>3, <1>11 DEF RawJob, AfterRaw, drawVars
  <1>12. ASSUME NEW page \in PageSizes \cup {None}, DriverJob(page)
         PROVE  ReceiptFollowsInks'
    BY <1>3, <1>12 DEF DriverJob, LastCommand, drawVars
  <1>13. CASE HelperJob \/ CopyFiles
    BY <1>3, <1>13 DEF HelperJob, CopyFiles, LastCommand, drawVars
  <1> QED BY <1>4, <1>5, <1>6, <1>7, <1>8, <1>9, <1>10, <1>11, <1>12, <1>13 DEF PrintNext

\* The margin is a number of rows.
LEMMA MarginRows ==
  ASSUME NEW dpi \in Nat
  PROVE  mm_to_dots(PAD_TENTHS_MM, dpi) \in Nat
  BY DEF mm_to_dots, PAD_TENTHS_MM, Round

\* What the printer makes of the raw job.
LEMMA ReceiptPrints ==
  ASSUME PrintInv, ReceiptFollowsInks
  PROVE  ReceiptIsWhole
  <1> SUFFICES ASSUME point = "raw" PROVE ReceiptIsWhole
    BY DEF ReceiptIsWhole
  <1> DEFINE pad == mm_to_dots(PAD_TENTHS_MM, job.ppd.dpi)
             out == Printout(data)
             n == Len(out) - 2
             margin == [i \in 1..pad |-> {}]
  <1>1. job \in Jobs
    BY DEF PrintInv, SpoolFollowsPoint, PrintTypeOK
  <1>2. pad \in Nat
    <2>1. job.ppd \in Ppds
      BY <1>1 DEF Jobs
    <2>2. job.ppd.dpi \in Nat
      BY <2>1, PrintingAssumption
    <2> QED BY <2>2, MarginRows
  <1>3. Follows(receipt, inks) /\ receipt # <<>> /\ data = build_escpos_job(receipt, pad)
    BY ReceiptFollows
  <1>4. receipt \in Seq([1..BytesPerRow -> 0..255])
        /\ Drawn(receipt) = FlattenSeq([i \in 1..Len(inks) |-> InkedRows(inks[i])])
    BY <1>3 DEF Follows
  <1> HIDE DEF pad
  <1>5. /\ [i \in 1..n |-> Dots(out[i])] = margin \o Drawn(receipt) \o margin
        /\ out[n + 1] = <<"feed", FeedLines>> /\ out[n + 2] = <<"cut">>
    BY <1>2, <1>3, <1>4, WholeReceipt
  <1> QED BY <1>4, <1>5, Zenon DEF ReceiptIsWhole, pad

-----------------------------------------------------------------------------
(* The whole path. *)

\* Every step of the path is one of the download, of print or of neither.
LEMMA PathKeeps ==
  ASSUME PathInv, [PathNext]_pathVars
  PROVE  PathInv' /\ [DownloadNext]_downloadVars
  <1>1. CASE DownloadStep
    BY <1>1, DownloadKeeps, PrintWaits, ReceiptKeeps, MediaKeeps DEF PathInv, DownloadStep
  <1>2. CASE PrintStep
    BY <1>2, DownloadKeeps, PrintKeeps, ReceiptKeeps, MediaKeeps DEF PathInv, PrintStep
  <1>3. CASE FinishJob
    <2>1. DownloadNext
      BY <1>3 DEF FinishJob, DownloadNext
    <2> QED BY <1>3, <2>1, DownloadKeeps, NextJobKeeps, ReceiptKeeps, MediaKeeps
        DEF PathInv, FinishJob
  <1>4. CASE UNCHANGED pathVars
    BY <1>4, DownloadKeeps, PrintWaits, ReceiptKeeps, MediaKeeps DEF PathInv, pathVars
  <1> QED BY <1>1, <1>2, <1>3, <1>4 DEF PathNext

\* From the call of download_document to the queue of the operating system, for
\* every document, driver, number of copies and size limit: the bytes on disk, the
\* rows being dithered, the receipt, the jobs in the queue and the paper stay in
\* order.
THEOREM PathInvariance == PathSpec => []PathInv
  <1>1. PathInit => PathInv
    BY InitDownloadInv, InitPrintInv, NoReceipt DEF PathInit, PathInv, PrintInit, MediaChosen
  <1>2. PathInv /\ [PathNext]_pathVars => PathInv'
    BY PathKeeps
  <1> QED BY <1>1, <1>2, PTL DEF PathSpec

\* The file never outgrows the limit of download_document, and the queue never
\* holds more than the raw job and the driver's.
THEOREM PathTypeCorrect == PathSpec => []PathTypeOK
  <1>1. PathInv => PathTypeOK
    BY DEF PathInv, DownloadInv, PrintInv, PathTypeOK
  <1> QED BY <1>1, PathInvariance, PTL

\* print() returns only after exactly one job that it knows of was accepted, with
\* the copies asked for, also where a raw attempt comes before the driver's; when it
\* raises, there is none that it knows of.
THEOREM PrintsOnce == PathSpec => []SpooledOnce
  <1>1. PathInv => SpooledOnce
    BY DEF PathInv, PrintInv
  <1> QED BY <1>1, PathInvariance, PTL

\* Whatever error floyd_steinberg carries from pixel to pixel, a black pixel prints
\* and a white one does not, for every page, width and threshold.
THEOREM BlackIsPrinted == PathSpec => []BlackStaysBlack
  <1>1. PathInv => BlackStaysBlack
    BY DEF PathInv, PrintInv, DitherInv
  <1> QED BY <1>1, PathInvariance, PTL

\* discover and get_status, which read different flags, agree on who is online.
THEOREM VerdictsAgree == PathSpec => []SameVerdict
  <1>1. PathInv => SameVerdict
    BY DEF PathInv, PrintInv
  <1> QED BY <1>1, PathInvariance, PTL

\* Whatever sizes and custom range a driver lists, the page fits the paper chosen for
\* it unless it is longer than any, and no shorter paper would have done.
THEOREM PageFitsPaper == PathSpec => []MediaFits
  <1>1. PathInv => MediaFits
    BY PaperFits DEF PathInv
  <1> QED BY <1>1, PathInvariance, PTL

\* Whatever the pages of a document are, however wide, and however many blocks the
\* receipt takes: the printer reads the bytes of build_escpos_job back as the margin,
\* every inked row of every page dot by dot, the margin, feed and cut.
THEOREM ReceiptComesOutWhole == PathSpec => []ReceiptIsWhole
  <1>1. PathInv => ReceiptIsWhole
    BY ReceiptPrints DEF PathInv
  <1> QED BY <1>1, PathInvariance, PTL

\* The bytes on disk implement the abstract fetch that _process awaits, also while
\* print reads the file.
THEOREM PathFetches == PathSpec => ImplementsFetch
  <1>1. PathInit => Fetch!FInit
    BY InitFetch DEF PathInit
  <1>2. PathInv /\ [PathNext]_pathVars => [Fetch!FNext]_Fetch!fetchVars
    BY PathKeeps, DownloadRefines DEF PathInv
  <1> QED BY <1>1, <1>2, PathInvariance, PTL DEF PathSpec, ImplementsFetch, Fetch!FSpec
=============================================================================
