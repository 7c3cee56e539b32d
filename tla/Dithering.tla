----------------------------- MODULE Dithering -----------------------------
(***************************************************************************)
(* gray_to_rows (printing/escpos.py): a page of 8-bit gray becomes rows of *)
(* one bit per dot by Floyd-Steinberg dithering.  The loop's state is the  *)
(* row being decided and the one below it, to which the errors of decided  *)
(* pixels have been added; one step decides one pixel.                     *)
(*                                                                         *)
(* Python's floats are numbers of 1/Scale here, rounded down; with a Scale *)
(* of 16^n they are exact as long as no error is passed on n times.        *)
(***************************************************************************)
EXTENDS Integers, Sequences

CONSTANTS
  Width,       \* pixels per row
  Threshold,
  Scale

ASSUME DitheringAssumption ==
  /\ Width \in Nat \ {0}
  /\ Threshold \in 1..255
  /\ Scale \in Nat \ {0} /\ Scale % 16 = 0

Columns == 0..(Width - 1)

VARIABLES
  gray,        \* the page: a sequence of rows of pixels, 0 = black
  y, x,        \* the next pixel
  current,     \* row y, with the errors passed on to it so far
  following,   \* row y + 1
  ink,         \* the dots decided to be black
  rows         \* the finished rows, packed into bytes

ditherVars == <<gray, y, x, current, following, ink, rows>>

NoRow == [c \in Columns |-> 0]
Scaled(page, n) == IF n <= Len(page) THEN [c \in Columns |-> page[n][c] * Scale] ELSE NoRow

\* 0x80 >> k
Bit(k) == <<128, 64, 32, 16, 8, 4, 2, 1>>[k + 1]

BytesPerRow == (Width + 7) \div 8

\* row[x >> 3] |= 0x80 >> (x & 7)
PackRow(dots) ==
  [b \in 1..BytesPerRow |->
     LET bit(k) == IF 8 * (b - 1) + k \in dots THEN Bit(k) ELSE 0
     IN bit(0) + bit(1) + bit(2) + bit(3) + bit(4) + bit(5) + bit(6) + bit(7)]

LoadPage(page) ==
  /\ gray' = page /\ y' = 1 /\ x' = 0
  /\ current' = Scaled(page, 1) /\ following' = Scaled(page, 2)
  /\ ink' = {} /\ rows' = <<>>

NoPage ==
  /\ gray = <<>> /\ y = 1 /\ x = 0
  /\ current = NoRow /\ following = NoRow
  /\ ink = {} /\ rows = <<>>

\* Variant: error * weight / 8.
Share_Eighth(error, weight) == (error * weight) \div 8
Share(error, weight) == (error * weight) \div 16

Old == current[x]
New == IF Old < Threshold * Scale THEN 0 ELSE 255 * Scale
Error == Old - New

\* The body of the inner loop.
DecidePixel ==
  /\ y <= Len(gray) /\ x < Width
  /\ ink' = IF New = 0 THEN ink \cup {<<y, x>>} ELSE ink
  /\ current' = [c \in Columns |->
       IF c = x + 1 THEN current[c] + Share(Error, 7) ELSE current[c]]
  /\ following' = [c \in Columns |->
       IF y = Len(gray) THEN following[c]
       ELSE IF c = x - 1 THEN following[c] + Share(Error, 3)
       ELSE IF c = x THEN following[c] + Share(Error, 5)
       ELSE IF c = x + 1 THEN following[c] + Share(Error, 1)
       ELSE following[c]]
  /\ x' = x + 1
  /\ UNCHANGED <<gray, y, rows>>

\* The end of the outer loop's body.
FinishRow ==
  /\ y <= Len(gray) /\ x = Width
  /\ rows' = Append(rows, PackRow({c \in Columns : <<y, c>> \in ink}))
  /\ y' = y + 1 /\ x' = 0
  /\ current' = following /\ following' = Scaled(gray, y + 2)
  /\ UNCHANGED <<gray, ink>>

Decided(r, c) == r < y \/ (r = y /\ c < x)

\* "light colours print as shading ...; black text stays solid" (gray_to_rows): the
\* errors that reach a pixel never add up to enough to turn black into white, nor
\* to put a dot on white paper.
BlackStaysBlack ==
  \A r \in 1..Len(gray), c \in Columns : Decided(r, c) =>
    /\ gray[r][c] = 0 => <<r, c>> \in ink
    /\ gray[r][c] = 255 => <<r, c>> \notin ink

-----------------------------------------------------------------------------
(* The inductive invariant. *)

\* An error that came in shares of w sixteenths: never more than w sixteenths of the
\* largest error a decided pixel can have.
Within(e, w) ==
  /\ w * ((Threshold - 255) * Scale) <= 16 * e
  /\ 16 * e <= w * (Threshold * Scale - 1)

\* The sixteenths that column c of the next row has got from the row being decided.
Got(c) == IF c > x THEN 0 ELSE IF c = x THEN 1 ELSE IF c = x - 1 THEN 6 ELSE 9

\* The weights 7, 3, 5 and 1 that reach one pixel add up to a whole, so that the
\* errors in the two rows at work stay within one pixel's error.
ErrorsBounded ==
  /\ \A c \in Columns :
       c >= x => Within(current[c] - Scaled(gray, y)[c], IF c = x THEN 16 ELSE 9)
  /\ \A c \in Columns : Within(following[c] - Scaled(gray, y + 1)[c], Got(c))

DitherTypeOK ==
  /\ gray \in Seq([Columns -> 0..255])
  /\ y \in 1..(Len(gray) + 1) /\ x \in 0..Width
  /\ current \in [Columns -> Int] /\ following \in [Columns -> Int]
  /\ ink \subseteq (1..Len(gray)) \X Columns

\* No dot is there before its pixel has been decided, and the finished rows are the
\* dots decided in them.
RowsFollowInk ==
  /\ \A r \in 1..Len(gray), c \in Columns : <<r, c>> \in ink => Decided(r, c)
  /\ rows = [r \in 1..(y - 1) |-> PackRow({c \in Columns : <<r, c>> \in ink})]

\* What every pixel decided and every row finished preserves.
DitherInv == DitherTypeOK /\ ErrorsBounded /\ RowsFollowInk /\ BlackStaysBlack
=============================================================================
