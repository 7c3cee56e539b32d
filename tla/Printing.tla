------------------------------ MODULE Printing ------------------------------
(***************************************************************************)
(* One call of get_status and one of print for a job's document, in each   *)
(* backend (printing/macos.py, windows.py, mock.py, factory.py).  On a Mac *)
(* a receipt printer gets the pages drawn, dithered (Dithering) and framed *)
(* (EscPos) as a raw job; whatever goes wrong on that way is swallowed and *)
(* the document goes through the driver instead.                           *)
(*                                                                         *)
(* `spool` is what the operating system's queue accepted.  A helper killed *)
(* by its timeout may have handed its job over before.                     *)
(***************************************************************************)
EXTENDS Dithering, EscPos, PrinterChoice

CONSTANTS
  Documents,   \* what CoreGraphics can draw: sequences of pages, Width pixels wide
  Ppds,        \* the drivers of a Mac's printers
  PageSizes,   \* MediaBox of the first page
  Copies       \* what a job can ask for

Backends == {"mac", "windows", "mock"}
Jobs == [backend : Backends, ppd : Ppds, copies : Copies]

Sizes == [w : Nat, h : Nat]
Customs == [w : Nat \ {0}, min : Nat, max : Nat]

\* The width of a row is written in two bytes.
ASSUME PrintingAssumption ==
  /\ BytesPerRow < 256 * 256
  /\ None \notin Jobs \cup Sizes
  /\ \A ppd \in Ppds :
       /\ escpos_width_dots(ppd) \in {0, Width}
       /\ ppd.dpi \in Nat /\ ppd.sizes \in Seq(Sizes)
       /\ ppd.custom = None \/ (ppd.custom \in Customs /\ ppd.custom.min <= ppd.custom.max)
  /\ Documents \subseteq Seq(Seq([Columns -> 0..255]))
  /\ Copies \subseteq Int
  /\ PageSizes \subseteq Sizes

VARIABLES
  point,     \* where get_status or print stands
  query,     \* get_status: [backend, device, online]
  job,       \* print: [backend, ppd, copies]
  pages,     \* pages still to be drawn
  inks,      \* the dots of the pages drawn so far
  receipt,   \* `rows` of build_escpos_receipt
  data,      \* the ESC/POS job
  media,     \* [page, paper] of the job given to the driver
  spool,     \* the accepted jobs: [copies, sure]; sure: print() knows of it
  result     \* of print(): "none", "ok", "error"

drawVars == <<ditherVars, pages, inks, receipt, data>>
printVars == <<point, query, job, drawVars, media, spool, result>>

Entries == [copies : Int, sure : BOOLEAN]

\* The shape of the state; nothing is in the queue unless print was called, and at
\* most the raw job and the one of the driver.
PrintTypeOK ==
  /\ point \in {"idle", "asked", "draw", "dither", "frame", "raw", "driver", "helper",
                "copy", "over"}
  /\ query = None \/ query.online \in BOOLEAN
  /\ job \in Jobs \cup {None} /\ pages \in Seq(Seq([Columns -> 0..255]))
  /\ y \in 1..(Len(gray) + 1) /\ x \in 0..Width /\ Len(rows) = y - 1
  /\ result \in {"none", "ok", "error"}
  /\ spool \in Seq(Entries)
  /\ Len(spool) <= 2 /\ (spool # <<>> => job # None)

PrintInit ==
  /\ point = "idle" /\ query = None /\ job = None
  /\ NoPage /\ pages = <<>> /\ inks = <<>> /\ receipt = <<>> /\ data = <<>>
  /\ media = None /\ spool = <<>> /\ result = "none"

-----------------------------------------------------------------------------
(* get_status. *)

Devices(backend) ==
  CASE backend = "mac" -> MacDevices
    [] backend = "windows" -> WindowsDevices
    [] backend = "mock" -> BOOLEAN

get_status(backend, device) ==
  CASE backend = "mac" -> MacGetStatus(device)
    [] backend = "windows" -> WindowsGetStatus(device)
    [] backend = "mock" -> device

AskStatus(backend, device) ==
  /\ point = "idle"
  /\ query' = [backend |-> backend, device |-> device, online |-> get_status(backend, device)]
  /\ point' = "asked"
  /\ UNCHANGED <<job, drawVars, media, spool, result>>

\* The job waits for its printer, and is given up in the end.
Offline ==
  /\ point = "asked" /\ ~query.online
  /\ point' = "over" /\ query' = None
  /\ UNCHANGED <<job, drawVars, media, spool, result>>

-----------------------------------------------------------------------------
(* print: the raw way of a Mac. *)

FirstPoint(backend, ppd) ==
  CASE backend = "mac" -> IF escpos_width_dots(ppd) # 0 THEN "draw" ELSE "driver"
    [] backend = "windows" -> "helper"
    [] backend = "mock" -> "copy"

BeginPrint(ppd, copies) ==
  /\ point = "asked" /\ query.online
  /\ point' = FirstPoint(query.backend, ppd)
  /\ job' = [backend |-> query.backend, ppd |-> ppd, copies |-> copies]
  /\ query' = None
  /\ UNCHANGED <<drawVars, media, spool, result>>

\* render_pdf_gray: every page of the file.
Draw ==
  /\ point = "draw"
  /\ \E doc \in Documents :
       IF doc = <<>>
       THEN point' = "frame" /\ LoadPage(<<>>) /\ UNCHANGED pages
       ELSE point' = "dither" /\ LoadPage(Head(doc)) /\ pages' = Tail(doc)
  /\ UNCHANGED <<query, job, inks, receipt, data, media, spool, result>>

DitherStep ==
  /\ point = "dither" /\ (DecidePixel \/ FinishRow)
  /\ UNCHANGED <<point, query, job, pages, inks, receipt, data, media, spool, result>>

\* The rows of the page, trimmed, are added to the receipt.
FinishPage ==
  /\ point = "dither" /\ y > Len(gray)
  /\ receipt' = receipt \o trim_blank_rows(rows)
  /\ inks' = Append(inks, ink)
  /\ IF pages = <<>>
     THEN point' = "frame" /\ LoadPage(<<>>) /\ UNCHANGED pages
     ELSE point' = "dither" /\ LoadPage(Head(pages)) /\ pages' = Tail(pages)
  /\ UNCHANGED <<query, job, data, media, spool, result>>

\* "The receipt is blank" is an error; else the job is written to a file.
Frame ==
  /\ point = "frame"
  /\ IF receipt = <<>> THEN point' = "driver" /\ UNCHANGED data
     ELSE /\ point' = "raw"
          /\ data' = build_escpos_job(receipt, mm_to_dots(PAD_TENTHS_MM, job.ppd.dpi))
  /\ UNCHANGED <<query, job, ditherVars, pages, inks, receipt, media, spool, result>>

\* The PDF cannot be read, there is no bitmap, the raw file cannot be written:
\* `except Exception: pass`.
DrawFails ==
  /\ point \in {"draw", "raw"}
  /\ point' = "driver"
  /\ UNCHANGED <<query, job, drawVars, media, spool, result>>

Accept(copies, sure) == spool' = Append(spool, [copies |-> copies, sure |-> sure])

\* max(1, int(copies))
MacCopies == Max({1, job.copies})

\* Variant: a raw job that was accepted is not returned from.
AfterRaw_FallsThrough == point' = "driver" /\ UNCHANGED result
AfterRaw == point' = "over" /\ result' = "ok"

\* lp -o raw, and the unlink of the raw file.  Exit code 0 returns.  A refusal, a
\* timeout (before or after lp handed the job over) and an unlink that fails after
\* lp was done lead to the driver.
RawJob ==
  /\ point = "raw"
  /\ \/ Accept(MacCopies, TRUE) /\ AfterRaw
     \/ Accept(MacCopies, FALSE) /\ point' = "driver" /\ UNCHANGED result
     \/ point' = "driver" /\ UNCHANGED <<spool, result>>
  /\ UNCHANGED <<query, job, drawVars, media>>

-----------------------------------------------------------------------------
(* print: the driver of a Mac, the helper of Windows, the mock. *)

\* The last command of print: exit code 0, another one, or a timeout.
LastCommand(copies) ==
  /\ point' = "over"
  /\ \/ Accept(copies, TRUE) /\ result' = "ok"
     \/ Accept(copies, FALSE) /\ result' = "error"
     \/ UNCHANGED spool /\ result' = "error"
  /\ UNCHANGED <<query, job, drawVars>>

DriverJob(page) ==
  /\ point = "driver"
  /\ media' = [page |-> page, paper |-> MediaFor(job.ppd, page)]
  /\ LastCommand(MacCopies)

\* SumatraPDF; without -print-settings it prints one copy.  A missing helper is an
\* error like the others.
HelperJob ==
  /\ point = "helper"
  /\ LastCommand(IF job.copies > 1 THEN job.copies ELSE 1)
  /\ UNCHANGED media

\* MockPrinterManager.print: one file per copy; an error may come after some.
CopyFiles ==
  /\ point = "copy"
  /\ point' = "over"
  /\ \/ Accept(Max({0, job.copies}), TRUE) /\ result' = "ok"
     \/ \E n \in 0..job.copies : Accept(n, FALSE) /\ result' = "error"
  /\ UNCHANGED <<query, job, drawVars, media>>

NextJob ==
  /\ point = "over"
  /\ point' = "idle" /\ job' = None
  /\ LoadPage(<<>>) /\ pages' = <<>> /\ inks' = <<>> /\ receipt' = <<>> /\ data' = <<>>
  /\ media' = None /\ spool' = <<>> /\ result' = "none"
  /\ UNCHANGED query

-----------------------------------------------------------------------------
PrintNext ==
  \/ \E backend \in Backends : \E device \in Devices(backend) : AskStatus(backend, device)
  \/ Offline
  \/ \E ppd \in Ppds, copies \in Copies : BeginPrint(ppd, copies)
  \/ Draw \/ DitherStep \/ FinishPage \/ Frame \/ DrawFails \/ RawJob
  \/ \E page \in PageSizes \cup {None} : DriverJob(page)
  \/ HelperJob \/ CopyFiles

PrintSpec == PrintInit /\ [][PrintNext \/ NextJob]_printVars

-----------------------------------------------------------------------------
(* Properties. *)

\* "Success here means the OS print system accepted the job" (printing/base.py): a
\* print() that returns put exactly one job in the queue that it knows of, with the
\* copies asked for, although a raw attempt may come first; one that raises none.
\* Beside it there can be one job it does not know of (a timeout or a failed
\* unlink after lp handed the job over).
SpooledOnce ==
  point = "over" /\ job # None =>
    /\ Len(spool) <= 2
    /\ IF result = "ok"
       THEN \E i \in 1..Len(spool) : \A k \in 1..Len(spool) : spool[k].sure <=> k = i
       ELSE \A i \in 1..Len(spool) : ~spool[i].sure
    /\ job.copies >= 1 =>
         \A i \in 1..Len(spool) :
           IF spool[i].sure THEN spool[i].copies = job.copies ELSE spool[i].copies <= job.copies

\* What makes it so: before the last command nothing is in the queue but one raw job
\* that print() does not know of, and that only where the driver is the next to try.
SpoolFollowsPoint ==
  /\ point = "asked" => query.backend \in Backends
  /\ point \in {"idle", "asked"} => job = None
  /\ point \notin {"idle", "asked", "over"} => job # None
  /\ point # "over" => result = "none"
  /\ point \notin {"driver", "over"} \/ job = None => spool = <<>>
  /\ point = "driver" /\ spool # <<>> =>
       /\ Len(spool) = 1 /\ ~spool[1].sure
       /\ job.copies >= 1 => spool[1].copies = job.copies

Dots(row) == {c \in Columns : (row[(c \div 8) + 1] \div Bit(c % 8)) % 2 = 1}

\* The rows from the first with a dot to the last.
InkedRows(page) ==
  LET ys == {p[1] : p \in page}
  IN IF ys = {} THEN <<>>
     ELSE [i \in 1..(Max(ys) - Min(ys) + 1) |-> {c \in Columns : <<Min(ys) + i - 1, c>> \in page}]

\* What the printer makes of the raw job is the receipt: a margin, every page from
\* its first inked row to its last, dot by dot, a margin, then feed and cut, with
\* no byte taken for text, across the borders of pages, bytes and raster blocks.
ReceiptIsWhole ==
  point = "raw" =>
    LET out == Printout(data)
        n == Len(out) - 2
        margin == [i \in 1..mm_to_dots(PAD_TENTHS_MM, job.ppd.dpi) |-> {}]
    IN /\ [i \in 1..n |-> Dots(out[i])]
          = margin \o FlattenSeq([i \in 1..Len(inks) |-> InkedRows(inks[i])]) \o margin
       /\ out[n + 1] = <<"feed", FeedLines>> /\ out[n + 2] = <<"cut">>

\* What makes it so: the rows of the receipt, read dot by dot, are the inked rows of
\* the pages drawn so far, and the raw job is made of all of them.
ReceiptFollowsInks ==
  /\ receipt \in Seq([1..BytesPerRow -> 0..255])
  /\ inks \in Seq(SUBSET (Nat \X Columns))
  /\ \A i \in 1..Len(inks) : InkedRows(inks[i]) \in Seq(SUBSET Columns)
  /\ [i \in 1..Len(receipt) |-> Dots(receipt[i])]
     = FlattenSeq([i \in 1..Len(inks) |-> InkedRows(inks[i])])
  /\ point = "raw" =>
       /\ receipt # <<>>
       /\ data = build_escpos_job(receipt, mm_to_dots(PAD_TENTHS_MM, job.ppd.dpi))

\* roll_media_for and custom_roll_media keep what their docstrings say: on a roll
\* printer the page fits the paper, unless it is longer than any the driver has,
\* and no more paper is fed than that needs.
MediaFits ==
  media # None =>
    LET sizes == Range(job.ppd.sizes)
        rolls == {s \in sizes : IsRoll(s)}
        page == media.page
        paper == media.paper
        custom == job.ppd.custom
        long(w) == ScaledUp(page, w)
    IN /\ rolls # {} => paper # None
       /\ page # None /\ paper # None /\ page.w > 0 =>
            IF custom # None
            THEN /\ paper.h >= long(paper.w) \/ paper.h = custom.max
                 /\ paper.h <= long(paper.w) \/ paper.h = custom.min
            ELSE /\ paper.h >= long(paper.w) \/ \A s \in rolls : s.h < long(s.w) /\ s.h <= paper.h
                 /\ \A s \in rolls : s.h >= long(s.w) => paper.h <= s.h

\* What makes it so: the paper was chosen for this job, and is forgotten with it.
MediaChosen ==
  media # None =>
    /\ point = "over" /\ job \in Jobs
    /\ \E page \in PageSizes \cup {None} :
         media = [page |-> page, paper |-> MediaFor(job.ppd, page)]

\* The list ERES shows and the worker that waits for a printer agree on which
\* printers are online (discover and get_status look in different places); a
\* Windows printer that cannot even be opened is the exception.
SameVerdict ==
  query # None =>
    CASE query.backend = "mac" -> query.online = MacDiscover(query.device)
      [] query.backend = "windows" ->
           query.device.opens => query.online = WindowsDiscover(query.device)
      [] query.backend = "mock" -> TRUE

\* What every step of get_status and print preserves.
PrintInv ==
  PrintTypeOK /\ DitherInv /\ SpoolFollowsPoint /\ SpooledOnce /\ SameVerdict
=============================================================================
