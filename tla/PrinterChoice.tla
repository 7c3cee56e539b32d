--------------------------- MODULE PrinterChoice ---------------------------
(***************************************************************************)
(* What the printing backends decide before they print, as operators on    *)
(* what the operating system tells them: is the printer online (asked in   *)
(* two places, for the list ERES shows and before a job is printed), does  *)
(* it take ESC/POS, and on which paper should a page go                    *)
(* (printing/macos.py, printing/windows.py, printing/mock.py).             *)
(*                                                                         *)
(* A PPD is its paper sizes, its custom size range and two facts about its *)
(* text.  Lengths are whole points; quotients are compared as products.    *)
(***************************************************************************)
EXTENDS Integers, Sequences, SequencesExt

CONSTANT None   \* Python's None

ROLL_RATIO == 3               \* _ROLL_RATIO
MAX_RECEIPT_WIDTH_PT == 230   \* _MAX_RECEIPT_WIDTH_PT
PAD_TENTHS_MM == 40           \* DEFAULT_PAD_MM

\* round(n / d): to the even neighbour in the middle.
Round(n, d) ==
  LET q == n \div d
      r == 2 * (n % d)
  IN IF r < d \/ (r = d /\ q % 2 = 0) THEN q ELSE q + 1

mm_to_dots(tenths, dpi) == Round(tenths * dpi, 254)

-----------------------------------------------------------------------------
(* Is the printer online? *)

\* A Mac's printer: what `lpstat -p` says of the queue ("" for no such printer,
\* "other" for a line in another language), whether its device is on USB, and how
\* that device appears in `lpinfo` ("unknown" when it cannot be asked).
MacDevices ==
  [state : {"", "idle", "now printing", "disabled", "not accepting", "other"},
   usb : BOOLEAN,
   attached : {"same", "other parameters", "absent", "unknown"}]

StateOnline(state) == state \notin {"", "disabled", "not accepting"}
UsbAttached(dev) == dev.usb => dev.attached # "absent"

\* Variant: as before the check of USB was added.
MacGetStatus_QueueOnly(dev) == StateOnline(dev.state)
MacGetStatus(dev) == dev.state # "" /\ StateOnline(dev.state) /\ UsbAttached(dev)
MacDiscover(dev) == StateOnline(dev.state) /\ UsbAttached(dev)

\* A Windows printer: PRINTER_INFO_2's status bits, of which only some mean that it
\* cannot print, the attribute "use printer offline", and OpenPrinter's success.
WindowsDevices ==
  [bits : SUBSET {"OFFLINE", "PAPER_OUT", "TONER_LOW"}, workOffline : BOOLEAN, opens : BOOLEAN]

OFFLINE_STATUS_BITS ==
  {"OFFLINE", "ERROR", "NOT_AVAILABLE", "NO_TONER", "PAPER_OUT", "PAPER_JAM", "DOOR_OPEN"}

IsOnline(bits, workOffline) == ~workOffline /\ bits \cap OFFLINE_STATUS_BITS = {}

WindowsGetStatus(dev) ==
  dev.opens /\ ~dev.workOffline /\ IsOnline(dev.bits, FALSE)
WindowsDiscover(dev) == IsOnline(dev.bits, dev.workOffline)

-----------------------------------------------------------------------------
(* On which paper? *)

\* A PPD (readable, names a label printer, dpi, paper sizes, custom range or None).
IsRoll(size) == size.w > 0 /\ size.h >= ROLL_RATIO * size.w

\* Printable dots of an ESC/POS receipt printer, 0 for any other.
escpos_width_dots(ppd) ==
  LET sized == {s.w : s \in {t \in Range(ppd.sizes) : t.w > 0 /\ 2 * t.h >= 5 * t.w}}
      custom == IF ppd.custom = None THEN {}
                ELSE {c.w : c \in {d \in {ppd.custom} : d.w > 0 /\ d.max >= ROLL_RATIO * d.w}}
      rolls == sized \cup custom
  IN IF ~ppd.readable \/ ppd.label \/ rolls = {} THEN 0
     ELSE IF Max(rolls) > MAX_RECEIPT_WIDTH_PT THEN 0
     ELSE Max({8, 8 * Round(Max(rolls) * ppd.dpi, 72 * 8)})

\* The page's length once scaled to paper of width w, in points, rounded up.
ScaledUp(page, w) == (page.h * Min({page.w, w}) + page.w - 1) \div page.w

\* Paper exactly as long as the scaled page, within the driver's range.
custom_roll_media(ppd, page) ==
  IF ppd.custom = None \/ page = None THEN None
  ELSE IF page.w <= 0 THEN None
  ELSE LET c == ppd.custom IN
       IF ~ (\E s \in Range(ppd.sizes) : IsRoll(s)) /\ c.max < ROLL_RATIO * c.w THEN None
       ELSE [w |-> c.w, h |-> Max({c.min, Min({c.max, ScaledUp(page, c.w)})})]

\* rolls.sort(key=...): by length, and sizes of one length in the order of the PPD
\* (variant: in the order of the PPD).
Before_Unsorted(sizes, i, k) == i <= k
Before(sizes, i, k) ==
  sizes[i].h < sizes[k].h \/ (sizes[i].h = sizes[k].h /\ i <= k)

Shortest(sizes, S) == CHOOSE i \in S : \A k \in S : Before(sizes, i, k)
Longest(sizes, S) == CHOOSE i \in S : \A k \in S : Before(sizes, k, i)

Rolls(sizes) == {i \in DOMAIN sizes : IsRoll(sizes[i])}
Fits(page, size) == page.h * Min({page.w, size.w}) <= size.h * page.w

\* The first size, shortest first, that the scaled page fits on; else the last.
roll_media_for(sizes, page) ==
  LET rolls == Rolls(sizes)
      fits == {i \in rolls : Fits(page, sizes[i])}
  IN IF rolls = {} THEN None
     ELSE IF page = None THEN sizes[Shortest(sizes, rolls)]
     ELSE IF page.w <= 0 THEN sizes[Shortest(sizes, rolls)]
     ELSE IF fits # {} THEN sizes[Shortest(sizes, fits)]
     ELSE sizes[Longest(sizes, rolls)]

MediaFor(ppd, page) ==
  IF custom_roll_media(ppd, page) # None
  THEN custom_roll_media(ppd, page) ELSE roll_media_for(ppd.sizes, page)
=============================================================================
