---------------------------- MODULE RasterProofs ----------------------------
(***************************************************************************)
(* Proofs about the way of a receipt from gray to bytes and back, for      *)
(* every width, threshold, page, exact Scale, block size and feed.         *)
(*                                                                         *)
(* Dithering keeps black black and white white: a pixel whose incoming     *)
(* error e satisfies (Threshold-255)*Scale <= e < Threshold*Scale passes   *)
(* on an error within the same bounds, whatever its gray, and no pixel     *)
(* gets more than sixteen sixteenths of such errors.                       *)
(*                                                                         *)
(* The printer reads a job back as the rows it was built of: it takes the  *)
(* commands one by one, what comes out of a job is what comes out of its   *)
(* first command followed by what comes out of the rest (PrintoutSteps),   *)
(* and so block by block (BlocksPrint).  Packing and trimming lose no dot. *)
(*                                                                         *)
(* FlattenSeq and Printout are recursive functions.  What they compute is  *)
(* proved by induction on a set of numbers (SetInduction): two functions   *)
(* that satisfy the equation agree (FlattenAgree, ReadsAgree), one exists, *)
(* so the one chosen does.                                                 *)
(***************************************************************************)
EXTENDS Printing, SequenceTheorems, FiniteSetTheorems, WellFoundedInduction, TLAPS

-----------------------------------------------------------------------------
(* Dithering: the errors. *)

\* The bounds on an error: the lower one is a multiple of 16, so that shares rounded
\* down do not fall below their part of it.
LEMMA Bounds ==
  /\ Scale \in Nat /\ Threshold * Scale \in Nat /\ 255 * Scale \in Nat
  /\ Threshold * Scale >= 1 /\ 255 * Scale >= 1
  /\ \E q \in Int : q <= 0 /\ (Threshold - 255) * Scale = 16 * q
                    /\ Threshold * Scale - 255 * Scale = 16 * q
  <1>1. PICK s \in Nat : Scale = 16 * s /\ s >= 1
    BY DitheringAssumption
  <1>2. Threshold * Scale \in Nat /\ Threshold * Scale >= 1
    BY DitheringAssumption
  <1>3. (Threshold - 255) * Scale = 16 * ((Threshold - 255) * s)
    BY <1>1, DitheringAssumption
  <1>4. (Threshold - 255) * s \in Int /\ (Threshold - 255) * s <= 0
    BY <1>1, DitheringAssumption
  <1>5. Threshold * Scale - 255 * Scale = (Threshold - 255) * Scale
    BY DitheringAssumption
  <1>6. \E q \in Int : q <= 0 /\ (Threshold - 255) * Scale = 16 * q
                       /\ Threshold * Scale - 255 * Scale = 16 * q
    <2> DEFINE r == (Threshold - 255) * s
    <2>1. r \in Int /\ r <= 0 /\ (Threshold - 255) * Scale = 16 * r
          /\ Threshold * Scale - 255 * Scale = 16 * r
      BY <1>3, <1>4, <1>5
    <2> HIDE DEF r
    <2> QED BY <2>1
  <1>7. Scale \in Nat /\ 255 * Scale \in Nat /\ 255 * Scale >= 1
    BY DitheringAssumption
  <1> QED BY <1>2, <1>6, <1>7

\* A gray value, scaled, lies between black and white.
LEMMA ScaledGray ==
  ASSUME NEW g \in 0..255
  PROVE  g * Scale \in 0..(255 * Scale) /\ (g = 0 => g * Scale = 0)
  BY DitheringAssumption

\* A share of w sixteenths of a bounded error, rounded down, is within w sixteenths.
LEMMA ShareBound ==
  ASSUME NEW e \in Int, Within(e, 16)
  PROVE  \A w \in {1, 3, 5, 7} : Share(e, w) \in Int /\ Within(Share(e, w), w)
  <1>1. PICK q \in Int : q <= 0 /\ (Threshold - 255) * Scale = 16 * q
    BY Bounds
  <1>2. PICK t \in Int : t = Threshold * Scale
    BY Bounds
  <1> QED BY <1>1, <1>2 DEF Within, Share

\* Shares add up.
LEMMA WithinAdd ==
  ASSUME NEW e \in Int, NEW f \in Int, NEW v \in 0..16, NEW w \in 0..16,
         Within(e, v), Within(f, w)
  PROVE  Within(e + f, v + w)
  <1>1. PICK q \in Int : (Threshold - 255) * Scale = q
    BY Bounds
  <1>2. PICK t \in Int : t = Threshold * Scale - 1
    BY Bounds
  <1>3. /\ v * q <= 16 * e /\ 16 * e <= v * t
        /\ w * q <= 16 * f /\ 16 * f <= w * t
    BY <1>1, <1>2 DEF Within
  <1>4. (v + w) * q = v * q + w * q /\ (v + w) * t = v * t + w * t
    OBVIOUS
  <1> QED BY <1>1, <1>2, <1>3, <1>4 DEF Within

\* A pixel that may get more still is within what it may get.
LEMMA WithinMore ==
  ASSUME NEW e \in Int, NEW v \in 0..16, NEW w \in v..16, Within(e, v)
  PROVE  Within(e, w)
  <1>1. PICK q \in Int : (Threshold - 255) * Scale = q /\ q <= 0
    BY Bounds
  <1>2. PICK t \in Int : t = Threshold * Scale - 1 /\ t >= 0
    BY Bounds
  <1>3. w * q <= v * q /\ v * t <= w * t
    BY <1>1, <1>2
  <1>4. v * q <= 16 * e /\ 16 * e <= v * t
    BY <1>1, <1>2 DEF Within
  <1>5. w * q <= 16 * e /\ 16 * e <= w * t
    <2> DEFINE a == w * q
    <2> DEFINE b == v * q
    <2> DEFINE c == v * t
    <2> DEFINE d == w * t
    <2>1. a \in Int /\ b \in Int /\ c \in Int /\ d \in Int
      OBVIOUS
    <2> HIDE DEF a, b, c, d
    <2> QED BY <1>3, <1>4, <2>1 DEF a, b, c, d
  <1> QED BY <1>1, <1>2, <1>5 DEF Within

\* No error at all is within anything.
LEMMA WithinZero ==
  ASSUME NEW w \in 0..16
  PROVE  Within(0, w)
  <1>1. PICK q \in Int : (Threshold - 255) * Scale = q /\ q <= 0
    BY Bounds
  <1>2. PICK t \in Int : t = Threshold * Scale - 1 /\ t >= 0
    BY Bounds
  <1>3. w * q <= 0 /\ 0 <= w * t
    BY <1>1, <1>2
  <1> QED BY <1>1, <1>2, <1>3 DEF Within

\* What a pixel passes on is bounded as what it got, a black pixel becomes a dot and
\* a white one does not.
LEMMA PixelBound ==
  ASSUME NEW g \in 0..255, Old \in Int, Within(Old - g * Scale, 16)
  PROVE  /\ Error \in Int /\ Within(Error, 16)
         /\ g = 0 => New = 0
         /\ g = 255 => New # 0
  <1>1. PICK q \in Int : (Threshold - 255) * Scale = 16 * q
                         /\ Threshold * Scale - 255 * Scale = 16 * q
    BY Bounds
  <1>2. PICK t \in Int : t = Threshold * Scale
    BY Bounds
  <1>3. PICK m \in Int : m = 255 * Scale /\ m >= 1
    BY Bounds
  <1>4. PICK b \in Int : b = g * Scale /\ 0 <= b /\ b <= m /\ (g = 0 => b = 0)
                         /\ (g = 255 => b = m)
    BY ScaledGray, <1>3
  <1>5. 16 * (16 * q) <= 16 * (Old - b) /\ 16 * (Old - b) <= 16 * (t - 1) /\ t - m = 16 * q
    BY <1>1, <1>2, <1>3, <1>4 DEF Within
  <1>6. New = IF Old < t THEN 0 ELSE m
    BY <1>2, <1>3 DEF New
  <1>7. Error \in Int /\ 16 * q <= Error /\ Error <= t - 1
    BY <1>3, <1>4, <1>5, <1>6 DEF Error
  <1>8. Within(Error, 16)
    BY <1>1, <1>2, <1>7 DEF Within
  <1> QED BY <1>3, <1>4, <1>5, <1>6, <1>7, <1>8

-----------------------------------------------------------------------------
(* The steps of gray_to_rows. *)

\* A row of the page, scaled.
LEMMA ScaledRow ==
  ASSUME NEW page \in Seq([Columns -> 0..255]), NEW n \in Nat \ {0}
  PROVE  /\ Scaled(page, n) \in [Columns -> Int]
         /\ n <= Len(page) => \A c \in Columns : /\ page[n][c] \in 0..255
                                                /\ Scaled(page, n)[c] = page[n][c] * Scale
  <1>1. CASE n <= Len(page)
    <2>1. page[n] \in [Columns -> 0..255]
      <3> DEFINE S == [Columns -> 0..255]
      <3> HIDE DEF S
      <3>1. page \in Seq(S) /\ n \in 1..Len(page)
        BY <1>1 DEF S
      <3>2. page[n] \in S
        BY <3>1
      <3> QED BY <3>2 DEF S
    <2>2. ASSUME NEW c \in Columns PROVE page[n][c] \in 0..255 /\ page[n][c] * Scale \in Int
      <3>1. page[n][c] \in 0..255
        BY <2>1
      <3>2. \A g \in 0..255 : g * Scale \in Int
        BY DitheringAssumption
      <3> QED BY <3>1, <3>2
    <2> QED BY <1>1, <2>1, <2>2 DEF Scaled
  <1>2. CASE ~(n <= Len(page))
    BY <1>2 DEF Scaled, NoRow
  <1> QED BY <1>1, <1>2

\* A page that has just been drawn.
LEMMA LoadPageKeeps ==
  ASSUME NEW page \in Seq([Columns -> 0..255]), LoadPage(page)
  PROVE  DitherInv'
  <1> USE DEF LoadPage
  <1>1. Len(page) \in Nat /\ Width \in Nat
    BY DitheringAssumption
  <1>2. DitherTypeOK'
    BY <1>1, ScaledRow DEF DitherTypeOK
  <1>3. ErrorsBounded'
    <2>1. \A c \in Columns : Scaled(page, 1)[c] - Scaled(page, 1)[c] = 0
                             /\ Scaled(page, 2)[c] - Scaled(page, 2)[c] = 0
      BY ScaledRow
    <2>2. \A w \in {0, 1, 6, 9, 16} : Within(0, w)
      BY WithinZero
    <2> QED BY <2>1, <2>2 DEF ErrorsBounded, Got
  <1>4. RowsFollowInk'
    BY DEF RowsFollowInk
  <1>5. BlackStaysBlack'
    BY <1>1 DEF BlackStaysBlack, Decided, Columns
  <1> QED BY <1>2, <1>3, <1>4, <1>5 DEF DitherInv

\* Before the first page.
LEMMA NoPageKeeps == NoPage => DitherInv
  <1> SUFFICES ASSUME NoPage PROVE DitherInv
    OBVIOUS
  <1> USE DEF NoPage, NoRow
  <1>1. DitherTypeOK
    BY DitheringAssumption DEF DitherTypeOK
  <1>2. ErrorsBounded
    <2>1. \A w \in {0, 1, 6, 9, 16} : Within(0, w)
      BY WithinZero
    <2> QED BY <2>1 DEF ErrorsBounded, Scaled, Got
  <1>3. RowsFollowInk /\ BlackStaysBlack
    BY DEF RowsFollowInk, BlackStaysBlack
  <1> QED BY <1>1, <1>2, <1>3 DEF DitherInv

\* A row is finished: the one below it has got at most nine sixteenths.
LEMMA FinishRowKeeps ==
  ASSUME DitherInv, FinishRow
  PROVE  DitherInv'
  <1> USE DEF FinishRow, DitherInv
  <1>1. /\ Len(gray) \in Nat /\ y \in Nat \ {0} /\ y + 1 \in Nat \ {0} /\ y + 2 \in Nat \ {0}
        /\ Width \in Nat
    BY DitheringAssumption DEF DitherTypeOK
  <1>0. Scaled(gray, y + 1) \in [Columns -> Int] /\ Scaled(gray, y + 2) \in [Columns -> Int]
    BY <1>1, ScaledRow DEF DitherTypeOK
  <1>2. DitherTypeOK'
    BY <1>0, <1>1 DEF DitherTypeOK
  <1>3. ErrorsBounded'
    <2>1. ASSUME NEW c \in Columns
          PROVE  Within(current'[c] - Scaled(gray, y + 1)[c], IF c = 0 THEN 16 ELSE 9)
      <3>1. c < x /\ Got(c) \in {6, 9}
        BY <1>1 DEF Columns, Got
      <3>2. Within(following[c] - Scaled(gray, y + 1)[c], Got(c))
        BY DEF ErrorsBounded
      <3>3. following[c] - Scaled(gray, y + 1)[c] \in Int
        BY <1>0 DEF DitherTypeOK
      <3> QED BY <3>1, <3>2, <3>3, WithinMore
    <2>2. ASSUME NEW c \in Columns
          PROVE  Within(following'[c] - Scaled(gray, y + 2)[c], Got(c)')
      <3>1. following'[c] - Scaled(gray, y + 2)[c] = 0
        BY <1>0
      <3>2. Got(c)' \in 0..16
        BY DEF Got
      <3> QED BY <3>1, <3>2, WithinZero
    <2>3. y' = y + 1 /\ y' + 1 = y + 2 /\ gray' = gray /\ x' = 0
      BY <1>1
    <2> QED BY <2>1, <2>2, <2>3 DEF ErrorsBounded
  <1>4. \A r \in 1..Len(gray), c \in Columns : Decided(r, c)' <=> Decided(r, c)
    BY <1>1 DEF Decided, Columns
  <1>5. RowsFollowInk'
    <2> DEFINE dots(r) == PackRow({c \in Columns : <<r, c>> \in ink})
    <2> HIDE DEF dots
    <2>1. rows = [r \in 1..(y - 1) |-> dots(r)] /\ rows' = Append(rows, dots(y))
      BY DEF RowsFollowInk, dots
    <2>2. rows' = [r \in 1..y |-> dots(r)]
      BY <1>1, <2>1
    <2>3. rows' = [r \in 1..(y' - 1) |-> PackRow({c \in Columns : <<r, c>> \in ink'})]
      BY <1>1, <2>2 DEF dots
    <2> QED BY <1>4, <2>3 DEF RowsFollowInk
  <1>6. BlackStaysBlack'
    BY <1>4 DEF BlackStaysBlack
  <1> QED BY <1>2, <1>3, <1>5, <1>6

\* A pixel is decided: its neighbours get their sixteenths of its error.
LEMMA DecidePixelKeeps ==
  ASSUME DitherInv, DecidePixel
  PROVE  DitherInv'
  <1> USE DEF DitherInv
  <1>1. /\ Len(gray) \in Nat /\ y \in 1..Len(gray) /\ x \in Columns /\ x \in Nat
        /\ gray \in Seq([Columns -> 0..255]) /\ y + 1 \in Nat \ {0} /\ y \in Nat \ {0}
        /\ current \in [Columns -> Int] /\ following \in [Columns -> Int] /\ Width \in Nat
    BY DitheringAssumption DEF DecidePixel, DitherTypeOK, Columns
  <1>2. /\ gray[y][x] \in 0..255 /\ Scaled(gray, y)[x] = gray[y][x] * Scale
        /\ \A c \in Columns : Scaled(gray, y)[c] \in Int /\ Scaled(gray, y + 1)[c] \in Int
        /\ \A c \in Columns : current[c] \in Int /\ following[c] \in Int
    <2>1. Scaled(gray, y + 1) \in [Columns -> Int]
      BY <1>1, ScaledRow
    <2>2. /\ Scaled(gray, y) \in [Columns -> Int]
          /\ \A c \in Columns : /\ gray[y][c] \in 0..255
                                /\ Scaled(gray, y)[c] = gray[y][c] * Scale
      <3>1. y <= Len(gray)
        BY <1>1
      <3> QED BY <1>1, <3>1, ScaledRow, Zenon
    <2>3. gray[y][x] \in 0..255 /\ Scaled(gray, y)[x] = gray[y][x] * Scale
      BY <1>1, <2>2
    <2>4. \A c \in Columns : Scaled(gray, y)[c] \in Int /\ Scaled(gray, y + 1)[c] \in Int
      BY <2>1, <2>2
    <2> QED BY <1>1, <2>3, <2>4
  <1>3. /\ Error \in Int /\ Within(Error, 16)
        /\ gray[y][x] = 0 => New = 0
        /\ gray[y][x] = 255 => New # 0
    <2>1. Old \in Int /\ Within(Old - gray[y][x] * Scale, 16)
      BY <1>1, <1>2 DEF Old, ErrorsBounded
    <2> QED BY <1>2, <2>1, PixelBound
  <1>4. \A w \in {1, 3, 5, 7} : Share(Error, w) \in Int /\ Within(Share(Error, w), w)
    BY <1>3, ShareBound
  <1>5. DitherTypeOK'
    <2>1. current' \in [Columns -> Int]
      BY <1>2, <1>4 DEF DecidePixel
    <2>2. following' \in [Columns -> Int]
      <3>1. \A c \in Columns, w \in {1, 3, 5, 7} : following[c] + Share(Error, w) \in Int
        BY <1>2, <1>4
      <3>2. following' = [c \in Columns |->
              IF y = Len(gray) THEN following[c]
              ELSE IF c = x - 1 THEN following[c] + Share(Error, 3)
              ELSE IF c = x THEN following[c] + Share(Error, 5)
              ELSE IF c = x + 1 THEN following[c] + Share(Error, 1)
              ELSE following[c]]
        BY DEF DecidePixel
      <3> QED BY <1>2, <3>1, <3>2
    <2>3. gray' = gray /\ y' = y /\ x' = x + 1 /\ x < Width
      BY DEF DecidePixel
    <2>4. ink' \subseteq (1..Len(gray)) \X Columns
      <3>1. <<y, x>> \in (1..Len(gray)) \X Columns
        BY <1>1
      <3>2. ink \subseteq (1..Len(gray)) \X Columns
        BY DEF DitherTypeOK
      <3> QED BY <3>1, <3>2 DEF DecidePixel
    <2> QED BY <1>1, <2>1, <2>2, <2>3, <2>4 DEF DitherTypeOK
  <1>6. ErrorsBounded'
    <2>1. x' = x + 1 /\ y' = y /\ gray' = gray
      BY DEF DecidePixel
    <2>2. ASSUME NEW c \in Columns, c >= x + 1
          PROVE  Within(current'[c] - Scaled(gray, y)[c], IF c = x + 1 THEN 16 ELSE 9)
      <3>1. Within(current[c] - Scaled(gray, y)[c], 9) /\ current[c] - Scaled(gray, y)[c] \in Int
        <4>1. c >= x /\ c # x
          BY <1>1, <2>2 DEF Columns
        <4> QED BY <1>2, <4>1 DEF ErrorsBounded
      <3>2. CASE c = x + 1
        <4>1. current'[c] = current[c] + Share(Error, 7)
          BY <3>2 DEF DecidePixel
        <4>2. Within((current[c] - Scaled(gray, y)[c]) + Share(Error, 7), 9 + 7)
          BY <1>4, <3>1, WithinAdd
        <4>3. (current[c] - Scaled(gray, y)[c]) + Share(Error, 7)
              = current'[c] - Scaled(gray, y)[c]
          <5>1. current[c] \in Int /\ Scaled(gray, y)[c] \in Int /\ Share(Error, 7) \in Int
            BY <1>2, <1>4
          <5> QED BY <4>1, <5>1
        <4> QED BY <3>2, <4>2, <4>3
      <3>3. CASE c # x + 1
        BY <3>1, <3>3 DEF DecidePixel
      <3> QED BY <3>2, <3>3
    <2>3. ASSUME NEW c \in Columns
          PROVE  Within(following'[c] - Scaled(gray, y + 1)[c], Got(c)')
      <3> DEFINE e == following[c] - Scaled(gray, y + 1)[c]
      <3>1. Within(e, Got(c)) /\ e \in Int
        BY <1>1, <1>2 DEF ErrorsBounded
      <3>2. c \in Int /\ x \in Int
        BY <1>1 DEF Columns
      <3>3. CASE y = Len(gray) \/ c < x - 1 \/ c > x + 1
        <4>1. following'[c] = following[c]
          BY <3>2, <3>3 DEF DecidePixel
        <4>2. Got(c) \in 0..16 /\ Got(c)' \in Got(c)..16
          BY <2>1, <3>2 DEF Got
        <4> QED BY <3>1, <4>1, <4>2, WithinMore
      <3>4. CASE y # Len(gray) /\ c \in (x - 1)..(x + 1)
        <4> DEFINE w == IF c = x - 1 THEN 3 ELSE IF c = x THEN 5 ELSE 1
        <4>1. following'[c] = following[c] + Share(Error, w)
          BY <3>2, <3>4 DEF DecidePixel
        <4>2. Got(c)' = Got(c) + w /\ Got(c) \in 0..16 /\ w \in 0..16 /\ w \in {1, 3, 5, 7}
          BY <2>1, <3>2, <3>4 DEF Got
        <4> HIDE DEF w
        <4>3. Within(e + Share(Error, w), Got(c) + w)
          BY <1>4, <3>1, <4>2, WithinAdd
        <4>4. e + Share(Error, w) = following'[c] - Scaled(gray, y + 1)[c]
          <5>1. following[c] \in Int /\ Scaled(gray, y + 1)[c] \in Int /\ Share(Error, w) \in Int
            BY <1>2, <1>4, <4>2
          <5> QED BY <4>1, <5>1
        <4> QED BY <4>2, <4>3, <4>4
      <3> QED BY <3>2, <3>3, <3>4
    <2> QED BY <2>1, <2>2, <2>3, <1>1 DEF ErrorsBounded, Columns
  <1>7. \A r \in 1..Len(gray), c \in Columns :
          Decided(r, c)' <=> Decided(r, c) \/ (r = y /\ c = x)
    BY <1>1 DEF DecidePixel, Decided, Columns
  <1>8. \A r \in 1..Len(gray), c \in Columns :
          <<r, c>> \in ink' <=> <<r, c>> \in ink \/ (r = y /\ c = x /\ New = 0)
    BY <1>1 DEF DecidePixel
  <1>9. RowsFollowInk'
    <2>1. \A r \in 1..(y - 1) :
            {c \in Columns : <<r, c>> \in ink'} = {c \in Columns : <<r, c>> \in ink}
      <3> TAKE r \in 1..(y - 1)
      <3>1. r \in 1..Len(gray) /\ r # y
        BY <1>1
      <3>2. \A c \in Columns : <<r, c>> \in ink' <=> <<r, c>> \in ink
        BY <1>8, <3>1
      <3> QED BY <3>2
    <2>2. rows' = [r \in 1..(y' - 1) |-> PackRow({c \in Columns : <<r, c>> \in ink'})]
      BY <2>1 DEF RowsFollowInk, DecidePixel
    <2> QED BY <1>7, <1>8, <2>2 DEF RowsFollowInk, DecidePixel
  <1>10. BlackStaysBlack'
    <2>1. ~Decided(y, x)
      BY <1>1 DEF Decided
    <2>2. <<y, x>> \notin ink
      BY <1>1, <2>1 DEF RowsFollowInk
    <2>3. gray' = gray
      BY DEF DecidePixel
    <2>4. ASSUME NEW r \in 1..Len(gray), NEW c \in Columns, Decided(r, c)'
          PROVE  /\ gray[r][c] = 0 => <<r, c>> \in ink'
                 /\ gray[r][c] = 255 => <<r, c>> \notin ink'
      <3>1. CASE r = y /\ c = x
        BY <1>3, <1>8, <2>2, <3>1
      <3>2. CASE ~(r = y /\ c = x)
        BY <1>7, <1>8, <2>4, <3>2 DEF BlackStaysBlack
      <3> QED BY <3>1, <3>2
    <2> QED BY <2>3, <2>4 DEF BlackStaysBlack
  <1> QED BY <1>5, <1>6, <1>9, <1>10

-----------------------------------------------------------------------------
(* Sequences of sequences. *)

\* Induction on numbers: a set that has 0, and n + 1 with every n, has them all.
LEMMA SetInduction ==
  ASSUME NEW S, 0 \in S, \A n \in Nat : n \in S => n + 1 \in S
  PROVE  \A n \in Nat : n \in S
  <1> DEFINE T == {n \in Nat : n \notin S}
  <1> SUFFICES ASSUME T # {} PROVE FALSE
    OBVIOUS
  <1>1. PICK n \in T : \A m \in T : ~(<<m, n>> \in OpToRel(<, Nat))
    <2>1. IsWellFoundedOn(OpToRel(<, Nat), Nat)
      BY NatLessThanWellFounded
    <2>2. T \subseteq Nat
      OBVIOUS
    <2> HIDE DEF T
    <2> QED BY <2>1, <2>2, WFMin
  <1>2. n \in Nat /\ n \notin S /\ n # 0
    OBVIOUS
  <1>3. ASSUME NEW m \in Nat, m < n PROVE m \in S
    <2>1. <<m, n>> \in OpToRel(<, Nat)
      BY <1>2, <1>3 DEF OpToRel
    <2> QED BY <1>1, <2>1
  <1>4. n - 1 \in Nat /\ n - 1 < n /\ (n - 1) + 1 = n
    BY <1>2
  <1> QED BY <1>2, <1>3, <1>4

\* f holds the sequences that flattening the first n of s goes through.
Flattens(f, s, n) == \A i \in 1..n : f[i] = IF i = 1 THEN s[i] ELSE f[i - 1] \o s[i]

\* Two ways to flatten that start alike are alike.
LEMMA FlattenAgree ==
  ASSUME NEW n \in Nat, NEW f, NEW g, NEW s, Flattens(f, s, n), Flattens(g, s, n)
  PROVE  \A i \in 1..n : f[i] = g[i]
  <1> DEFINE K == {k \in Nat : k \in 1..n => f[k] = g[k]}
  <1>1. 0 \in K
    OBVIOUS
  <1>2. ASSUME NEW k \in Nat, k \in K PROVE k + 1 \in K
    <2> SUFFICES ASSUME k + 1 \in 1..n PROVE f[k + 1] = g[k + 1]
      OBVIOUS
    <2>1. (k + 1) - 1 = k /\ (k + 1 # 1 => f[k] = g[k])
      BY <1>2
    <2> QED BY <2>1 DEF Flattens
  <1> HIDE DEF K
  <1>3. \A k \in Nat : k \in K
    BY <1>1, <1>2, SetInduction
  <1> QED BY <1>3 DEF K

\* FlattenSeq(s) is the last of the sequences that flattening goes through.
LEMMA FlattenUnfold ==
  ASSUME NEW X, NEW s \in Seq(Seq(X)), s # <<>>
  PROVE  \E f \in [1..Len(s) -> Seq(X)] :
           FlattenSeq(s) = f[Len(s)] /\ Flattens(f, s, Len(s))
  <1> DEFINE P(k) == \E f \in [1..k -> Seq(X)] : Flattens(f, s, k)
  <1>0. Len(s) \in Nat /\ Len(s) \in 1..Len(s)
    BY EmptySeq, LenProperties
  <1>1. P(Len(s))
    <2> DEFINE K == {k \in Nat : k <= Len(s) => P(k)}
    <2>1. 0 \in K
      <3>1. [i \in 1..0 |-> <<>>] \in [1..0 -> Seq(X)] /\ 1..0 = {}
        OBVIOUS
      <3> QED BY <3>1 DEF Flattens
    <2>2. ASSUME NEW k \in Nat, k \in K PROVE k + 1 \in K
      <3> SUFFICES ASSUME k + 1 <= Len(s) PROVE P(k + 1)
        OBVIOUS
      <3>0. P(k)
        <4> HIDE DEF P
        <4> QED BY <1>0, <2>2
      <3>1. PICK f \in [1..k -> Seq(X)] : Flattens(f, s, k)
        BY <3>0, Zenon
      <3> DEFINE e == IF k = 0 THEN s[1] ELSE f[k] \o s[k + 1]
      <3>2. e \in Seq(X)
        <4>1. k + 1 \in 1..Len(s) /\ s[k + 1] \in Seq(X) /\ (k # 0 => f[k] \in Seq(X))
          BY <1>0
        <4> QED BY <4>1
      <3> DEFINE g == [i \in 1..(k + 1) |-> IF i = k + 1 THEN e ELSE f[i]]
      <3>3. g \in [1..(k + 1) -> Seq(X)]
        <4> HIDE DEF e
        <4> QED BY <3>2
      <3>4. ASSUME NEW i \in 1..(k + 1)
            PROVE  g[i] = IF i = 1 THEN s[i] ELSE g[i - 1] \o s[i]
        <4>1. CASE i = k + 1
          <5>1. g[i] = e
            BY <4>1
          <5>2. k # 0 => g[i - 1] = f[k] /\ i # 1
            BY <4>1
          <5> HIDE DEF g
          <5> QED BY <4>1, <5>1, <5>2
        <4>2. CASE i # k + 1
          <5>1. i \in 1..k /\ g[i] = f[i]
            BY <4>2
          <5>2. i # 1 => g[i - 1] = f[i - 1]
            BY <4>2
          <5>3. f[i] = IF i = 1 THEN s[i] ELSE f[i - 1] \o s[i]
            BY <3>1, <5>1 DEF Flattens
          <5> HIDE DEF g
          <5> QED BY <5>1, <5>2, <5>3
        <4> QED BY <4>1, <4>2
      <3>5. Flattens(g, s, k + 1)
        BY <3>4 DEF Flattens
      <3> HIDE DEF g
      <3> QED BY <3>3, <3>5
    <2> HIDE DEF K
    <2>3. Len(s) \in K
      BY <1>0, <2>1, <2>2, SetInduction
    <2> HIDE DEF P
    <2> QED BY <1>0, <2>3 DEF K
  <1>2. PICK f \in [1..Len(s) -> Seq(X)] : Flattens(f, s, Len(s))
    BY <1>1, Zenon
  <1> HIDE DEF P
  <1>3. f = [i \in 1..Len(s) |-> IF i = 1 THEN s[i] ELSE f[i - 1] \o s[i]]
    BY <1>2 DEF Flattens
  <1> DEFINE g == CHOOSE h : h = [i \in 1..Len(s) |-> IF i = 1 THEN s[i] ELSE h[i - 1] \o s[i]]
  <1>4. g = [i \in 1..Len(s) |-> IF i = 1 THEN s[i] ELSE g[i - 1] \o s[i]]
    BY <1>3
  <1>5. FlattenSeq(s) = g[Len(s)]
    BY DEF FlattenSeq
  <1> HIDE DEF g
  <1>6. Flattens(g, s, Len(s))
    BY <1>4 DEF Flattens
  <1>8. g[Len(s)] = f[Len(s)]
    BY <1>0, <1>2, <1>6, FlattenAgree
  <1> QED BY <1>2, <1>5, <1>8
\* Flattening nothing, and one sequence more.
LEMMA FlattenAppend ==
  ASSUME NEW X, NEW s \in Seq(Seq(X)), NEW e \in Seq(X)
  PROVE  /\ FlattenSeq(<<>>) = <<>>
         /\ FlattenSeq(s) \in Seq(X)
         /\ FlattenSeq(Append(s, e)) = FlattenSeq(s) \o e
  <1> DEFINE t == Append(s, e)
  <1>1. /\ t \in Seq(Seq(X)) /\ t # <<>> /\ Len(t) = Len(s) + 1 /\ Len(s) \in Nat
        /\ \A i \in 1..Len(s) : t[i] = s[i]
        /\ t[Len(s) + 1] = e
    BY AppendProperties, LenProperties
  <1> HIDE DEF t
  <1>2. PICK g \in [1..Len(t) -> Seq(X)] :
          FlattenSeq(t) = g[Len(t)] /\ Flattens(g, t, Len(t))
    BY <1>1, FlattenUnfold
  <1>3. FlattenSeq(<<>>) = <<>>
    BY DEF FlattenSeq
  <1>4. CASE s = <<>>
    <2>1. Len(s) = 0 /\ g[1] = e
      BY <1>1, <1>2, <1>4 DEF Flattens
    <2>2. <<>> \o e = e /\ <<>> \in Seq(X)
      BY ConcatEmptySeq
    <2>3. FlattenSeq(t) = e
      BY <1>1, <1>2, <2>1
    <2> QED BY <1>3, <1>4, <2>2, <2>3, Zenon DEF t
  <1>5. CASE s # <<>>
    <2>1. PICK f \in [1..Len(s) -> Seq(X)] :
            FlattenSeq(s) = f[Len(s)] /\ Flattens(f, s, Len(s))
      BY <1>5, FlattenUnfold
    <2>2. Len(s) \in 1..Len(s)
      BY <1>1, <1>5, EmptySeq
    <2>3. Flattens(g, s, Len(s))
      <3>1. \A i \in 1..Len(s) : i \in 1..Len(t) /\ t[i] = s[i]
        BY <1>1
      <3> QED BY <1>2, <3>1, Zenon DEF Flattens
    <2>4. f[Len(s)] = g[Len(s)]
      <3>1. Len(s) \in Nat /\ Flattens(f, s, Len(s)) /\ Flattens(g, s, Len(s))
        BY <1>1, <2>1, <2>3
      <3> QED BY <2>2, <3>1, FlattenAgree
    <2>5. g[Len(s) + 1] = g[Len(s)] \o e
      <3>1. Len(s) + 1 \in 1..Len(t) /\ Len(s) + 1 # 1 /\ (Len(s) + 1) - 1 = Len(s)
        BY <1>1, <2>2
      <3> QED BY <1>1, <1>2, <3>1 DEF Flattens
    <2>6. FlattenSeq(s) \in Seq(X)
      BY <2>1, <2>2
    <2>7. FlattenSeq(t) = FlattenSeq(s) \o e
      BY <1>1, <1>2, <2>1, <2>4, <2>5, Zenon
    <2> QED BY <1>3, <2>6, <2>7, Zenon DEF t
  <1> QED BY <1>4, <1>5

\* The place of a row among rows of the same length.
LEMMA Places ==
  ASSUME NEW L \in Nat, NEW k \in Nat, NEW i \in 1..k, NEW j \in 1..L
  PROVE  /\ (i - 1) * L \in Nat /\ k * L \in Nat /\ (k + 1) * L = k * L + L
         /\ (i - 1) * L + j \in 1..(k * L)
  <1>1. /\ (i - 1) * L \in Nat /\ k * L \in Nat /\ i * L \in Nat
        /\ (k + 1) * L = k * L + L /\ i * L = (i - 1) * L + L
    OBVIOUS
  <1>2. (k - i) * L \in Nat /\ k * L = i * L + (k - i) * L
    OBVIOUS
  <1> DEFINE a == (i - 1) * L
             b == i * L
             c == (k - i) * L
             d == k * L
  <1>3. a \in Nat /\ b = a + L /\ c \in Nat /\ d = b + c
    BY <1>1, <1>2
  <1> HIDE DEF a, b, c, d
  <1>4. a + j \in 1..d
    BY <1>3
  <1> QED BY <1>1, <1>4 DEF a, d

\* Rows of the same length are found where they were put.
LEMMA FlattenRows ==
  ASSUME NEW X, NEW L \in Nat, NEW s \in Seq(Seq(X)), \A i \in 1..Len(s) : Len(s[i]) = L
  PROVE  /\ FlattenSeq(s) \in Seq(X) /\ Len(FlattenSeq(s)) = Len(s) * L
         /\ \A i \in 1..Len(s), j \in 1..L : FlattenSeq(s)[(i - 1) * L + j] = s[i][j]
  <1>1. CASE s = <<>>
    <2>1. Len(s) = 0 /\ FlattenSeq(s) = <<>> /\ 0 * L = 0
      BY <1>1 DEF FlattenSeq
    <2> QED BY <2>1
  <1>2. CASE s # <<>>
    <2>1. PICK f \in [1..Len(s) -> Seq(X)] :
            FlattenSeq(s) = f[Len(s)] /\ Flattens(f, s, Len(s))
      BY <1>2, FlattenUnfold
    <2>2. Len(s) \in Nat /\ Len(s) \in 1..Len(s)
      BY <1>2, EmptySeq, LenProperties
    <2> DEFINE Q(k) == /\ Len(f[k]) = k * L
                       /\ \A i \in 1..k, j \in 1..L : f[k][(i - 1) * L + j] = s[i][j]
               K == {k \in Nat : k \in 1..Len(s) => Q(k)}
    <2>3. 0 \in K
      OBVIOUS
    <2>4. ASSUME NEW k \in Nat, k \in K PROVE k + 1 \in K
      <3> SUFFICES ASSUME k + 1 \in 1..Len(s) PROVE Q(k + 1)
        <4> HIDE DEF Q
        <4> QED OBVIOUS
      <3>1. s[k + 1] \in Seq(X) /\ Len(s[k + 1]) = L
        OBVIOUS
      <3>2. CASE k = 0
        <4>1. f[1] = s[1] /\ 1 \in 1..Len(s)
          <5>1. 1 \in 1..Len(s)
            BY <3>2
          <5> QED BY <2>1, <5>1 DEF Flattens
        <4>2. 1 * L = L /\ \A j \in 1..L : (1 - 1) * L + j = j
          OBVIOUS
        <4> QED BY <3>1, <3>2, <4>1, <4>2
      <3>3. CASE k # 0
        <4>1. k \in 1..Len(s) /\ (k + 1) - 1 = k
          BY <2>2, <3>3
        <4>2. Q(k)
          <5> HIDE DEF Q
          <5> QED BY <2>4, <4>1
        <4>3. f[k + 1] = f[k] \o s[k + 1] /\ f[k] \in Seq(X)
          <5>1. k + 1 # 1
            BY <3>3
          <5>2. f[k + 1] = f[(k + 1) - 1] \o s[k + 1]
            BY <2>1, <5>1, Zenon DEF Flattens
          <5> QED BY <4>1, <5>2
        <4>4. k * L \in Nat /\ (k + 1) * L = k * L + L
          OBVIOUS
        <4>5. /\ Len(f[k + 1]) = k * L + L
              /\ \A m \in 1..(k * L + L) :
                   f[k + 1][m] = IF m <= k * L THEN f[k][m] ELSE s[k + 1][m - k * L]
          <5> DEFINE a == f[k]
                     b == s[k + 1]
                     p == k * L
          <5>1. a \in Seq(X) /\ b \in Seq(X) /\ Len(a) = p /\ Len(b) = L
            BY <3>1, <4>2, <4>3
          <5> HIDE DEF a, b, p
          <5>2. /\ Len(a \o b) = p + L
                /\ \A m \in 1..(p + L) : (a \o b)[m] = IF m <= p THEN a[m] ELSE b[m - p]
            BY <5>1, ConcatProperties
          <5> QED BY <4>3, <5>2, Zenon DEF a, b, p
        <4>6. ASSUME NEW i \in 1..(k + 1), NEW j \in 1..L
              PROVE  f[k + 1][(i - 1) * L + j] = s[i][j]
          <5>1. CASE i = k + 1
            <6>1. (i - 1) * L + j = k * L + j
              BY <5>1
            <6> DEFINE p == k * L
            <6>2. p + j \in 1..(p + L) /\ ~(p + j <= p) /\ (p + j) - p = j
              <7>1. p \in Nat
                BY <4>4
              <7> HIDE DEF p
              <7> QED BY <7>1
            <6>3. f[k + 1][p + j] = s[k + 1][(p + j) - p]
              BY <4>5, <6>2
            <6> QED BY <5>1, <6>1, <6>2, <6>3
          <5>2. CASE i # k + 1
            <6>1. i \in 1..k
              BY <5>2
            <6> DEFINE m == (i - 1) * L + j
                       p == k * L
            <6>2. m \in 1..p /\ p \in Nat
              BY <6>1, Places
            <6>3. f[k][m] = s[i][j]
              BY <4>2, <6>1
            <6>4. \A q \in 1..(p + L) : f[k + 1][q] = IF q <= p THEN f[k][q]
                                                       ELSE s[k + 1][q - p]
              BY <4>5
            <6> HIDE DEF m, p
            <6>5. m \in 1..(p + L) /\ m <= p
              BY <6>2
            <6>6. f[k + 1][m] = s[i][j]
              BY <6>3, <6>4, <6>5, Zenon
            <6> QED BY <6>6 DEF m
          <5> QED BY <5>1, <5>2
        <4> QED BY <4>4, <4>5, <4>6
      <3> QED BY <3>2, <3>3
    <2> HIDE DEF K
    <2>5. Len(s) \in K
      BY <2>2, <2>3, <2>4, SetInduction
    <2>6. Q(Len(s))
      <3> HIDE DEF Q
      <3> QED BY <2>2, <2>5 DEF K
    <2> QED BY <2>1, <2>2, <2>6
  <1> QED BY <1>1, <1>2

-----------------------------------------------------------------------------
(* The printer's commands. *)

\* What can come out of a printer.
Items == Seq(Nat) \cup {<<"feed", n>> : n \in Nat} \cup {<<"cut">>, <<"garbage">>}

\* The codes of the commands, byte by byte.
LEMMA CommandIs ==
  ASSUME NEW b \in Seq(Nat)
  PROVE  LET w == b[5] + 256 * b[6]
             h == b[7] + 256 * b[8]
             raster == [k \in 1..h |-> SubSeq(b, 9 + (k - 1) * w, 8 + k * w)]
         IN Command(b)
            = IF 2 <= Len(b) /\ b[1] = 27 /\ b[2] = 64 THEN [out |-> <<>>, length |-> 2]
              ELSE IF 3 <= Len(b) /\ b[1] = 27 /\ b[2] = 100
              THEN [out |-> <<<<"feed", b[3]>>>>, length |-> 3]
              ELSE IF 3 <= Len(b) /\ b[1] = 29 /\ b[2] = 86 /\ b[3] = 1
              THEN [out |-> <<<<"cut">>>>, length |-> 3]
              ELSE IF /\ 8 <= Len(b) /\ b[1] = 29 /\ b[2] = 118 /\ b[3] = 48 /\ b[4] = 0
                      /\ 8 + w * h <= Len(b)
              THEN [out |-> raster, length |-> 8 + w * h]
              ELSE [out |-> <<<<"garbage">>>>, length |-> 1]
  <1> DEFINE is(code, length) == length <= Len(b) /\ \A k \in 1..Len(code) : b[k] = code[k]
             w == b[5] + 256 * b[6]
             h == b[7] + 256 * b[8]
             raster == [k \in 1..h |-> SubSeq(b, 9 + (k - 1) * w, 8 + k * w)]
  <1>1. Command(b) = IF is(<<27, 64>>, 2) THEN [out |-> <<>>, length |-> 2]
     ELSE IF is(<<27, 100>>, 3) THEN [out |-> <<<<"feed", b[3]>>>>, length |-> 3]
     ELSE IF is(<<29, 86, 1>>, 3) THEN [out |-> <<<<"cut">>>>, length |-> 3]
     ELSE IF is(<<29, 118, 48, 0>>, 8) /\ 8 + w * h <= Len(b)
     THEN [out |-> raster, length |-> 8 + w * h]
     ELSE [out |-> <<<<"garbage">>>>, length |-> 1]
    BY DEF Command, ESC, GS
  <1>2. /\ is(<<27, 64>>, 2) <=> 2 <= Len(b) /\ b[1] = 27 /\ b[2] = 64
        /\ is(<<27, 100>>, 3) <=> 3 <= Len(b) /\ b[1] = 27 /\ b[2] = 100
    <2>1. 1..2 = {1, 2}
      OBVIOUS
    <2> QED BY <2>1
  <1>3. is(<<29, 86, 1>>, 3) <=> 3 <= Len(b) /\ b[1] = 29 /\ b[2] = 86 /\ b[3] = 1
    <2>1. 1..3 = {1, 2, 3}
      OBVIOUS
    <2> QED BY <2>1
  <1>4. is(<<29, 118, 48, 0>>, 8) <=>
          8 <= Len(b) /\ b[1] = 29 /\ b[2] = 118 /\ b[3] = 48 /\ b[4] = 0
    <2>1. 1..4 = {1, 2, 3, 4}
      OBVIOUS
    <2> QED BY <2>1
  <1> HIDE DEF is, w, h, raster
  <1>5. Command(b)
            = IF 2 <= Len(b) /\ b[1] = 27 /\ b[2] = 64 THEN [out |-> <<>>, length |-> 2]
              ELSE IF 3 <= Len(b) /\ b[1] = 27 /\ b[2] = 100
              THEN [out |-> <<<<"feed", b[3]>>>>, length |-> 3]
              ELSE IF 3 <= Len(b) /\ b[1] = 29 /\ b[2] = 86 /\ b[3] = 1
              THEN [out |-> <<<<"cut">>>>, length |-> 3]
              ELSE IF /\ 8 <= Len(b) /\ b[1] = 29 /\ b[2] = 118 /\ b[3] = 48 /\ b[4] = 0
                      /\ 8 + w * h <= Len(b)
              THEN [out |-> raster, length |-> 8 + w * h]
              ELSE [out |-> <<<<"garbage">>>>, length |-> 1]
    BY <1>1, <1>2, <1>3, <1>4
  <1> QED BY <1>5, Zenon DEF w, h, raster

\* The rows of a raster block lie within it.
LEMMA RasterRows ==
  ASSUME NEW b \in Seq(Nat), NEW w \in Nat, NEW h \in Nat, 8 + w * h <= Len(b), NEW k \in 1..h
  PROVE  /\ SubSeq(b, 9 + (k - 1) * w, 8 + k * w) \in Seq(Nat)
         /\ Len(SubSeq(b, 9 + (k - 1) * w, 8 + k * w)) = w
         /\ \A j \in 1..w :
              SubSeq(b, 9 + (k - 1) * w, 8 + k * w)[j] = b[8 + ((k - 1) * w + j)]
  <1> DEFINE a == (k - 1) * w
             c == k * w
             r == (h - k) * w
             d == w * h
             m == 9 + a
             n == 8 + c
  <1>1. a \in Nat /\ c = a + w /\ r \in Nat /\ d = c + r
    OBVIOUS
  <1>2. 8 + d <= Len(b) /\ Len(b) \in Nat
    BY LenProperties
  <1> HIDE DEF a, c, r, d
  <1>3. m \in Int /\ n \in Int /\ n - m + 1 = w /\ (IF m <= n THEN n - m + 1 ELSE 0) = w
    BY <1>1
  <1>4. \A j \in m..n : b[j] \in Nat
    <2>1. \A j \in m..n : j \in 1..Len(b)
      BY <1>1, <1>2
    <2> QED BY <2>1, ElementOfSeq
  <1>5. \A j \in 1..w : m + j - 1 = 8 + (a + j)
    BY <1>1
  <1> HIDE DEF m, n
  <1>6. /\ SubSeq(b, m, n) \in Seq(Nat)
        /\ Len(SubSeq(b, m, n)) = IF m <= n THEN n - m + 1 ELSE 0
        /\ \A j \in 1..(n - m + 1) : SubSeq(b, m, n)[j] = b[m + j - 1]
    BY <1>3, <1>4, SubSeqProperties
  <1> QED BY <1>3, <1>5, <1>6, Zenon DEF a, c, m, n

\* A command has at least one byte, and no more than there are.
LEMMA CommandFits ==
  ASSUME NEW b \in Seq(Nat), b # <<>>
  PROVE  /\ Command(b).out \in Seq(Items)
         /\ Command(b).length \in 1..Len(b)
  <1> DEFINE w == b[5] + 256 * b[6]
             h == b[7] + 256 * b[8]
             raster == [k \in 1..h |-> SubSeq(b, 9 + (k - 1) * w, 8 + k * w)]
             c == Command(b)
             isInit == 2 <= Len(b) /\ b[1] = 27 /\ b[2] = 64
             isFeed == 3 <= Len(b) /\ b[1] = 27 /\ b[2] = 100
             isCut == 3 <= Len(b) /\ b[1] = 29 /\ b[2] = 86 /\ b[3] = 1
             isRaster == /\ 8 <= Len(b) /\ b[1] = 29 /\ b[2] = 118 /\ b[3] = 48 /\ b[4] = 0
                         /\ 8 + w * h <= Len(b)
  <1>0. Len(b) \in Nat \ {0} /\ \A j \in 1..Len(b) : b[j] \in Nat
    BY EmptySeq, ElementOfSeq
  <1>1. c = IF isInit THEN [out |-> <<>>, length |-> 2]
            ELSE IF isFeed THEN [out |-> <<<<"feed", b[3]>>>>, length |-> 3]
            ELSE IF isCut THEN [out |-> <<<<"cut">>>>, length |-> 3]
            ELSE IF isRaster THEN [out |-> raster, length |-> 8 + w * h]
            ELSE [out |-> <<<<"garbage">>>>, length |-> 1]
    BY CommandIs
  <1>2. /\ isInit => 2 <= Len(b)
        /\ isFeed => 3 <= Len(b)
        /\ isCut => 3 <= Len(b)
        /\ isRaster => 8 <= Len(b) /\ 8 + w * h <= Len(b)
    OBVIOUS
  <1> HIDE DEF w, h, raster, c, isInit, isFeed, isCut, isRaster
  <1>3. CASE isInit
    <2>1. c.out = <<>> /\ c.length = 2
      BY <1>1, <1>3
    <2> QED BY <1>0, <1>2, <1>3, <2>1 DEF c
  <1>4. CASE ~isInit /\ isFeed
    <2>1. c.out = <<<<"feed", b[3]>>>> /\ c.length = 3
      BY <1>1, <1>4
    <2>2. b[3] \in Nat
      BY <1>0, <1>2, <1>4
    <2>3. <<"feed", b[3]>> \in Items
      BY <2>2, Zenon DEF Items
    <2> QED BY <1>0, <1>2, <1>4, <2>1, <2>3 DEF c
  <1>5. CASE ~isInit /\ ~isFeed /\ isCut
    <2>1. c.out = <<<<"cut">>>> /\ c.length = 3
      BY <1>1, <1>5
    <2>2. <<"cut">> \in Items
      BY Zenon DEF Items
    <2> QED BY <1>0, <1>2, <1>5, <2>1, <2>2 DEF c
  <1>6. CASE ~isInit /\ ~isFeed /\ ~isCut /\ isRaster
    <2>1. c.out = raster /\ c.length = 8 + w * h
      BY <1>1, <1>6
    <2>2. w \in Nat /\ h \in Nat
      <3>1. b[5] \in Nat /\ b[6] \in Nat /\ b[7] \in Nat /\ b[8] \in Nat
        BY <1>0, <1>2, <1>6
      <3>2. \A p, q \in Nat : p + 256 * q \in Nat
        OBVIOUS
      <3> QED BY <3>1, <3>2, Zenon DEF w, h
    <2>3. \A k \in 1..h : SubSeq(b, 9 + (k - 1) * w, 8 + k * w) \in Seq(Nat)
      BY <1>2, <1>6, <2>2, RasterRows
    <2>4. raster \in Seq(Items)
      <3>1. \A k \in 1..h : SubSeq(b, 9 + (k - 1) * w, 8 + k * w) \in Items
        BY <2>3 DEF Items
      <3> QED BY <2>2, <3>1 DEF raster
    <2> DEFINE d == w * h
    <2>5. d \in Nat /\ 8 + d <= Len(b) /\ c.length = 8 + d
      BY <1>2, <1>6, <2>1, <2>2
    <2> HIDE DEF d
    <2>6. c.length \in 1..Len(b)
      BY <1>0, <2>5
    <2> QED BY <2>1, <2>4, <2>6 DEF c
  <1>7. CASE ~isInit /\ ~isFeed /\ ~isCut /\ ~isRaster
    <2>1. c.out = <<<<"garbage">>>> /\ c.length = 1
      BY <1>1, <1>7
    <2>2. <<"garbage">> \in Items
      BY Zenon DEF Items
    <2> QED BY <1>0, <2>1, <2>2 DEF c
  <1> QED BY <1>3, <1>4, <1>5, <1>6, <1>7

-----------------------------------------------------------------------------
(* Reading a job back. *)

\* The command at position i.
At(bytes, i) == Command(SubSeq(bytes, i, Len(bytes)))

\* It ends within the bytes.
LEMMA AtFits ==
  ASSUME NEW bytes \in Seq(Nat), NEW i \in 1..Len(bytes)
  PROVE  /\ At(bytes, i).out \in Seq(Items)
         /\ At(bytes, i).length \in Nat
         /\ i + At(bytes, i).length \in (i + 1)..(Len(bytes) + 1)
  <1> DEFINE b == SubSeq(bytes, i, Len(bytes))
  <1>1. b \in Seq(Nat) /\ Len(b) = Len(bytes) - i + 1 /\ Len(bytes) \in Nat /\ i \in Nat
    <2>1. \A j \in i..Len(bytes) : bytes[j] \in Nat
      BY ElementOfSeq
    <2> QED BY <2>1, SubSeqProperties, LenProperties
  <1> HIDE DEF b
  <1>2. b # <<>>
    BY <1>1
  <1>3. Command(b).out \in Seq(Items) /\ Command(b).length \in 1..Len(b)
    BY <1>1, <1>2, CommandFits
  <1> QED BY <1>1, <1>3 DEF At, b

\* from is what comes out of the bytes from each position on.
Reads(from, bytes) ==
  \A i \in 1..(Len(bytes) + 1) :
    from[i] = IF i > Len(bytes) THEN <<>> ELSE At(bytes, i).out \o from[i + At(bytes, i).length]

\* Two readings of the same bytes are the same.
LEMMA ReadsAgree ==
  ASSUME NEW bytes \in Seq(Nat), NEW f, NEW g, Reads(f, bytes), Reads(g, bytes)
  PROVE  \A i \in 1..(Len(bytes) + 1) : f[i] = g[i]
  <1> DEFINE N == Len(bytes) + 1
             K == {k \in Nat : \A i \in 1..N : i + k >= N => f[i] = g[i]}
  <1>0. N \in Nat /\ Len(bytes) \in Nat /\ N = Len(bytes) + 1
    BY LenProperties
  <1> HIDE DEF N
  <1>1. 0 \in K
    BY <1>0 DEF Reads
  <1>2. ASSUME NEW k \in Nat, k \in K PROVE k + 1 \in K
    <2> SUFFICES ASSUME NEW i \in 1..N, i + (k + 1) >= N PROVE f[i] = g[i]
      OBVIOUS
    <2>1. CASE i > Len(bytes)
      BY <1>0, <2>1 DEF Reads
    <2>2. CASE ~(i > Len(bytes))
      <3> DEFINE j == i + At(bytes, i).length
      <3>1. i \in 1..Len(bytes)
        BY <1>0, <2>2
      <3>2. j \in (i + 1)..N
        BY <1>0, <3>1, AtFits
      <3>3. f[i] = At(bytes, i).out \o f[j] /\ g[i] = At(bytes, i).out \o g[j]
        BY <1>0, <2>2, Zenon DEF Reads
      <3> HIDE DEF j
      <3>4. f[j] = g[j]
        BY <1>0, <1>2, <3>2
      <3> QED BY <3>3, <3>4
    <2> QED BY <2>1, <2>2
  <1> HIDE DEF K
  <1>3. N \in K
    BY <1>0, <1>1, <1>2, SetInduction
  <1> QED BY <1>0, <1>3 DEF K

\* There is a reading, and Printout starts it.
LEMMA PrintoutReads ==
  ASSUME NEW bytes \in Seq(Nat)
  PROVE  \E f \in [1..(Len(bytes) + 1) -> Seq(Items)] : Reads(f, bytes) /\ Printout(bytes) = f[1]
  <1> DEFINE N == Len(bytes) + 1
             E(f, i) == IF i > Len(bytes) THEN <<>>
                        ELSE At(bytes, i).out \o f[i + At(bytes, i).length]
             P(k) == \E f \in [1..N -> Seq(Items)] : \A i \in 1..N : i + k >= N => f[i] = E(f, i)
             K == {k \in Nat : P(k)}
  <1>0. N \in Nat /\ Len(bytes) \in Nat /\ N = Len(bytes) + 1
    BY LenProperties
  <1> HIDE DEF N
  <1>1. 0 \in K
    <2> DEFINE f == [i \in 1..N |-> <<>>]
    <2>1. f \in [1..N -> Seq(Items)]
      OBVIOUS
    <2>2. ASSUME NEW i \in 1..N, i + 0 >= N PROVE f[i] = E(f, i)
      <3>1. i > Len(bytes)
        BY <1>0, <2>2
      <3> QED BY <3>1
    <2> HIDE DEF f, E
    <2> QED BY <2>1, <2>2
  <1>2. ASSUME NEW k \in Nat, k \in K PROVE k + 1 \in K
    <2>0. P(k)
      BY <1>2
    <2>1. PICK f \in [1..N -> Seq(Items)] : \A i \in 1..N : i + k >= N => f[i] = E(f, i)
      BY <2>0, Zenon
    <2> DEFINE g == [i \in 1..N |-> IF i + k >= N THEN f[i] ELSE E(f, i)]
    <2>2. ASSUME NEW i \in 1..N PROVE E(f, i) \in Seq(Items)
      <3>1. CASE i > Len(bytes)
        BY <3>1
      <3>2. CASE ~(i > Len(bytes))
        <4>1. i \in 1..Len(bytes)
          BY <1>0, <3>2
        <4>2. At(bytes, i).out \in Seq(Items) /\ i + At(bytes, i).length \in 1..N
          BY <1>0, <4>1, AtFits
        <4>3. f[i + At(bytes, i).length] \in Seq(Items)
          BY <4>2
        <4> HIDE DEF At
        <4> QED BY <3>2, <4>2, <4>3, ConcatProperties
      <3> QED BY <3>1, <3>2
    <2>3. g \in [1..N -> Seq(Items)]
      <3> HIDE DEF E
      <3> QED BY <2>2
    <2>4. ASSUME NEW i \in 1..N, i + (k + 1) >= N PROVE g[i] = E(g, i)
      <3>1. g[i] = E(f, i)
        BY <2>1 DEF g
      <3>2. E(f, i) = E(g, i)
        <4>1. CASE i > Len(bytes)
          BY <4>1
        <4>2. CASE ~(i > Len(bytes))
          <5> DEFINE j == i + At(bytes, i).length
          <5>1. j \in (i + 1)..N
            <6>1. i \in 1..Len(bytes)
              BY <1>0, <4>2
            <6> QED BY <1>0, <6>1, AtFits
          <5>2. f[j] = g[j]
            <6> HIDE DEF j, E
            <6>1. j \in 1..N /\ j + k >= N
              BY <1>0, <2>4, <5>1
            <6> QED BY <6>1
          <5> QED BY <4>2, <5>2
        <4> QED BY <4>1, <4>2
      <3> QED BY <3>1, <3>2
    <2>5. P(k + 1)
      <3> HIDE DEF g, E
      <3> QED BY <2>3, <2>4
    <2> HIDE DEF P
    <2> QED BY <2>5
  <1>3. N \in K
    <2> HIDE DEF K
    <2> QED BY <1>0, <1>1, <1>2, SetInduction
  <1>4. PICK f \in [1..N -> Seq(Items)] : \A i \in 1..N : f[i] = E(f, i)
    <2>1. P(N)
      <3> HIDE DEF P
      <3> QED BY <1>3
    <2>2. \A i \in 1..N : i + N >= N
      BY <1>0
    <2> QED BY <2>1, <2>2, Zenon
  <1>5. f = [i \in 1..N |-> E(f, i)]
    <2> HIDE DEF E
    <2> QED BY <1>4
  <1> DEFINE g == CHOOSE h : h = [i \in 1..N |-> E(h, i)]
  <1>6. g = [i \in 1..N |-> E(g, i)]
    BY <1>5, Zenon
  <1>7. Printout(bytes) = g[1]
    BY Zenon DEF Printout, N, At
  <1>8. Reads(f, bytes) /\ Reads(g, bytes)
    BY <1>0, <1>4, <1>6, Zenon DEF Reads, N
  <1> HIDE DEF g, E
  <1>9. 1 \in 1..N /\ f[1] = g[1]
    BY <1>0, <1>8, ReadsAgree
  <1> QED BY <1>7, <1>8, <1>9 DEF N

\* What comes out after the first bytes is what comes out of the others alone.
LEMMA PrintoutShifts ==
  ASSUME NEW A \in Seq(Nat), NEW B \in Seq(Nat), NEW f, Reads(f, A \o B)
  PROVE  f[Len(A) + 1] = Printout(B)
  <1> DEFINE S == A \o B
             a == Len(A)
             N == Len(B)
             g == [j \in 1..(N + 1) |-> f[a + j]]
  <1>1. S \in Seq(Nat) /\ Len(S) = a + N /\ a \in Nat /\ N \in Nat /\ N = Len(B)
    BY ConcatProperties, LenProperties
  <1>2. ASSUME NEW j \in 1..N PROVE At(S, a + j) = At(B, j)
    <2>1. a + j \in (a + 1)..(a + N) /\ a + N \in (a + 1)..(a + N)
          /\ (a + j) - a = j /\ (a + N) - a = N
      <3> HIDE DEF a, N
      <3> QED BY <1>1
    <2>2. SubSeq(S, a + j, a + N) = SubSeq(B, (a + j) - a, (a + N) - a)
      BY <2>1, SubSeqOfConcat2
    <2> QED BY <1>1, <2>1, <2>2 DEF At
  <1>3. \A i \in 1..(Len(S) + 1) :
          f[i] = IF i > Len(S) THEN <<>> ELSE At(S, i).out \o f[i + At(S, i).length]
    BY DEF Reads
  <1> HIDE DEF S, a, N
  <1>4. ASSUME NEW j \in 1..(N + 1)
        PROVE  g[j] = IF j > N THEN <<>> ELSE At(B, j).out \o g[j + At(B, j).length]
    <2>1. a + j \in 1..(Len(S) + 1) /\ (a + j > Len(S) <=> j > N)
      BY <1>1
    <2>2. CASE j > N
      <3>1. f[a + j] = <<>>
        BY <1>3, <2>1, <2>2
      <3> QED BY <2>2, <3>1
    <2>3. CASE ~(j > N)
      <3>1. j \in 1..N
        BY <1>1, <2>3
      <3> DEFINE k == At(B, j).length
                 o == At(B, j).out
      <3>2. k \in Nat /\ j + k \in (j + 1)..(N + 1)
        BY <1>1, <3>1, AtFits
      <3>3. At(S, a + j).out = o /\ At(S, a + j).length = k
        BY <1>2, <3>1
      <3>4. f[a + j] = At(S, a + j).out \o f[(a + j) + At(S, a + j).length]
        BY <1>3, <2>1, <2>3, Zenon
      <3> HIDE DEF k, o
      <3>5. j + k \in 1..(N + 1) /\ (a + j) + k = a + (j + k)
        BY <1>1, <3>2
      <3>6. f[a + j] = o \o f[a + (j + k)]
        BY <3>3, <3>4, <3>5
      <3>7. g[j] = f[a + j] /\ g[j + k] = f[a + (j + k)]
        BY <3>5
      <3> HIDE DEF g
      <3>8. g[j] = o \o g[j + k]
        BY <3>6, <3>7
      <3> QED BY <2>3, <3>8 DEF o, k
    <2> QED BY <2>2, <2>3
  <1>5. Reads(g, B)
    <2> HIDE DEF g
    <2> QED BY <1>1, <1>4 DEF Reads
  <1>6. PICK h \in [1..(Len(B) + 1) -> Seq(Items)] : Reads(h, B) /\ Printout(B) = h[1]
    BY PrintoutReads
  <1>7. 1 \in 1..(N + 1)
    BY <1>1
  <1>8. g[1] = f[a + 1]
    BY <1>7
  <1> HIDE DEF g
  <1>9. g[1] = h[1]
    BY <1>1, <1>5, <1>6, <1>7, ReadsAgree
  <1> QED BY <1>6, <1>8, <1>9 DEF a

\* No bytes, nothing on the paper; else the first command and then the rest.
LEMMA PrintoutSteps ==
  ASSUME NEW b \in Seq(Nat), NEW rest \in Seq(Nat), b # <<>>,
         Command(b \o rest).length = Len(b)
  PROVE  Printout(b \o rest) = Command(b \o rest).out \o Printout(rest)
  <1> DEFINE s == b \o rest
  <1>1. s \in Seq(Nat) /\ Len(s) \in Nat /\ Len(s) >= 1 /\ Len(b) \in Nat
    BY ConcatProperties, EmptySeq
  <1>2. PICK f \in [1..(Len(s) + 1) -> Seq(Items)] : Reads(f, s) /\ Printout(s) = f[1]
    BY <1>1, PrintoutReads
  <1>3. f[Len(b) + 1] = Printout(rest)
    BY <1>2, PrintoutShifts
  <1>4. At(s, 1) = Command(s)
    BY <1>1, SubSeqFull DEF At
  <1>5. Command(s).length = Len(b)
    OBVIOUS
  <1> HIDE DEF s
  <1>6. f[1] = At(s, 1).out \o f[1 + At(s, 1).length]
    <2>1. 1 \in 1..(Len(s) + 1) /\ ~(1 > Len(s))
      BY <1>1
    <2> QED BY <1>2, <2>1, Zenon DEF Reads
  <1>7. 1 + Len(b) = Len(b) + 1
    BY <1>1
  <1> QED BY <1>2, <1>3, <1>4, <1>5, <1>6, <1>7 DEF s

\* Nothing but items comes out.
LEMMA PrintoutType ==
  ASSUME NEW bytes \in Seq(Nat)
  PROVE  Printout(bytes) \in Seq(Items) /\ Printout(<<>>) = <<>>
  <1>1. PICK f \in [1..(Len(bytes) + 1) -> Seq(Items)] : Printout(bytes) = f[1]
    BY PrintoutReads
  <1>2. 1 \in 1..(Len(bytes) + 1)
    BY LenProperties
  <1>3. Printout(<<>>) = <<>>
    <2> DEFINE e == <<>>
    <2>0. e \in Seq(Nat) /\ Len(e) = 0
      OBVIOUS
    <2> HIDE DEF e
    <2>1. PICK g \in [1..(Len(e) + 1) -> Seq(Items)] : Reads(g, e) /\ Printout(e) = g[1]
      BY <2>0, PrintoutReads
    <2>2. 1 \in 1..(Len(e) + 1) /\ 1 > Len(e)
      BY <2>0
    <2>3. g[1] = <<>>
      BY <2>1, <2>2, Zenon DEF Reads
    <2> QED BY <2>1, <2>3 DEF e
  <1> QED BY <1>1, <1>2, <1>3

\* The bytes of the first sequence come first.
LEMMA Prefix ==
  ASSUME NEW X, NEW A \in Seq(X), NEW B \in Seq(X)
  PROVE  /\ A \o B \in Seq(X) /\ Len(A \o B) = Len(A) + Len(B)
         /\ Len(A) \in Nat /\ Len(B) \in Nat
         /\ \A i \in 1..Len(A) : (A \o B)[i] = A[i]
  <1>1. /\ A \o B \in Seq(X) /\ Len(A \o B) = Len(A) + Len(B)
        /\ Len(A) \in Nat /\ Len(B) \in Nat
        /\ \A i \in 1..(Len(A) + Len(B)) : (A \o B)[i] = IF i <= Len(A) THEN A[i] ELSE B[i - Len(A)]
    BY ConcatProperties, LenProperties
  <1>2. \A i \in 1..Len(A) : i \in 1..(Len(A) + Len(B)) /\ i <= Len(A)
    BY <1>1
  <1> QED BY <1>1, <1>2, Zenon

\* The printer knows the commands without data by their codes.
LEMMA SmallCommands ==
  ASSUME NEW b \in Seq(Nat)
  PROVE  /\ 2 <= Len(b) /\ b[1] = 27 /\ b[2] = 64 => Command(b) = [out |-> <<>>, length |-> 2]
         /\ 3 <= Len(b) /\ b[1] = 27 /\ b[2] = 100
            => Command(b) = [out |-> <<<<"feed", b[3]>>>>, length |-> 3]
         /\ 3 <= Len(b) /\ b[1] = 29 /\ b[2] = 86 /\ b[3] = 1
            => Command(b) = [out |-> <<<<"cut">>>>, length |-> 3]
  <1> DEFINE w == b[5] + 256 * b[6]
             h == b[7] + 256 * b[8]
             raster == [k \in 1..h |-> SubSeq(b, 9 + (k - 1) * w, 8 + k * w)]
             isRaster == /\ 8 <= Len(b) /\ b[1] = 29 /\ b[2] = 118 /\ b[3] = 48 /\ b[4] = 0
                         /\ 8 + w * h <= Len(b)
             other == IF isRaster THEN [out |-> raster, length |-> 8 + w * h]
                      ELSE [out |-> <<<<"garbage">>>>, length |-> 1]
  <1>1. Command(b)
        = IF 2 <= Len(b) /\ b[1] = 27 /\ b[2] = 64 THEN [out |-> <<>>, length |-> 2]
          ELSE IF 3 <= Len(b) /\ b[1] = 27 /\ b[2] = 100
          THEN [out |-> <<<<"feed", b[3]>>>>, length |-> 3]
          ELSE IF 3 <= Len(b) /\ b[1] = 29 /\ b[2] = 86 /\ b[3] = 1
          THEN [out |-> <<<<"cut">>>>, length |-> 3]
          ELSE other
    BY CommandIs
  <1> HIDE DEF other
  <1> QED BY <1>1

\* What the initialisation, the feed and the cut of build_escpos_job put on the paper.
LEMMA SmallPrintouts ==
  ASSUME NEW rest \in Seq(Nat), NEW n \in Nat
  PROVE  /\ Printout(<<27, 64>> \o rest) = Printout(rest)
         /\ Printout(<<27, 100, n>> \o rest) = <<<<"feed", n>>>> \o Printout(rest)
         /\ Printout(<<29, 86, 1>> \o rest) = <<<<"cut">>>> \o Printout(rest)
  <1>1. Printout(<<27, 64>> \o rest) = Printout(rest)
    <2> DEFINE b == <<27, 64>>
               s == b \o rest
    <2>1. b \in Seq(Nat) /\ Len(b) = 2 /\ b # <<>> /\ b[1] = 27 /\ b[2] = 64
      OBVIOUS
    <2> HIDE DEF b
    <2>2. s \in Seq(Nat) /\ 2 <= Len(s) /\ s[1] = 27 /\ s[2] = 64
      <3>1. /\ s \in Seq(Nat) /\ Len(s) = Len(b) + Len(rest) /\ Len(rest) \in Nat
            /\ \A i \in 1..Len(b) : s[i] = b[i]
        <4>1. b \in Seq(Nat)
          BY <2>1
        <4> QED BY <4>1, Prefix, Zenon
      <3> HIDE DEF s
      <3> QED BY <2>1, <3>1
    <2>3. Command(s).length = Len(b) /\ Command(s).out = <<>>
      <3> HIDE DEF s
      <3> QED BY <2>1, <2>2, SmallCommands
    <2>4. Printout(s) = Command(s).out \o Printout(rest)
      BY <2>1, <2>3, PrintoutSteps, Zenon
    <2>5. <<>> \o Printout(rest) = Printout(rest)
      BY PrintoutType, ConcatEmptySeq
    <2> QED BY <2>3, <2>4, <2>5, Zenon DEF b
  <1>2. Printout(<<27, 100, n>> \o rest) = <<<<"feed", n>>>> \o Printout(rest)
    <2> DEFINE b == <<27, 100, n>>
               s == b \o rest
    <2>1. b \in Seq(Nat) /\ Len(b) = 3 /\ b # <<>> /\ b[1] = 27 /\ b[2] = 100 /\ b[3] = n
      OBVIOUS
    <2> HIDE DEF b
    <2>2. s \in Seq(Nat) /\ 3 <= Len(s) /\ s[1] = 27 /\ s[2] = 100 /\ s[3] = n
      <3>1. /\ s \in Seq(Nat) /\ Len(s) = Len(b) + Len(rest) /\ Len(rest) \in Nat
            /\ \A i \in 1..Len(b) : s[i] = b[i]
        <4>1. b \in Seq(Nat)
          BY <2>1
        <4> QED BY <4>1, Prefix, Zenon
      <3> HIDE DEF s
      <3> QED BY <2>1, <3>1
    <2>3. Command(s).length = Len(b) /\ Command(s).out = <<<<"feed", n>>>>
      <3> HIDE DEF s
      <3> QED BY <2>1, <2>2, SmallCommands
    <2>4. Printout(s) = Command(s).out \o Printout(rest)
      BY <2>1, <2>3, PrintoutSteps, Zenon
    <2> QED BY <2>3, <2>4, Zenon DEF b
  <1>3. Printout(<<29, 86, 1>> \o rest) = <<<<"cut">>>> \o Printout(rest)
    <2> DEFINE b == <<29, 86, 1>>
               s == b \o rest
    <2>1. b \in Seq(Nat) /\ Len(b) = 3 /\ b # <<>> /\ b[1] = 29 /\ b[2] = 86 /\ b[3] = 1
      OBVIOUS
    <2> HIDE DEF b
    <2>2. s \in Seq(Nat) /\ 3 <= Len(s) /\ s[1] = 29 /\ s[2] = 86 /\ s[3] = 1
      <3>1. /\ s \in Seq(Nat) /\ Len(s) = Len(b) + Len(rest) /\ Len(rest) \in Nat
            /\ \A i \in 1..Len(b) : s[i] = b[i]
        <4>1. b \in Seq(Nat)
          BY <2>1
        <4> QED BY <4>1, Prefix, Zenon
      <3> HIDE DEF s
      <3> QED BY <2>1, <3>1
    <2>3. Command(s).length = Len(b) /\ Command(s).out = <<<<"cut">>>>
      <3> HIDE DEF s
      <3> QED BY <2>1, <2>2, SmallCommands
    <2>4. Printout(s) = Command(s).out \o Printout(rest)
      BY <2>1, <2>3, PrintoutSteps, Zenon
    <2> QED BY <2>3, <2>4, Zenon DEF b
  <1> QED BY <1>1, <1>2, <1>3

-----------------------------------------------------------------------------
(* A raster block. *)

\* The size of a block, in two bytes each way.
LEMMA TwoBytes ==
  ASSUME NEW n \in Nat, n < 256 * 256
  PROVE  n % 256 \in Nat /\ n \div 256 \in Nat /\ (n % 256) + 256 * (n \div 256) = n
  OBVIOUS

\* A block is its header and its rows.
LEMMA BlockBytes ==
  ASSUME NEW rs \in Seq(Seq(Nat)), rs # <<>>, Len(rs) < 256 * 256, NEW w \in Nat, w < 256 * 256,
         \A i \in 1..Len(rs) : Len(rs[i]) = w
  PROVE  LET b == Block(rs)
             h == Len(rs)
         IN /\ b \in Seq(Nat) /\ Len(b) = 8 + w * h /\ w * h \in Nat
            /\ b[1] = 29 /\ b[2] = 118 /\ b[3] = 48 /\ b[4] = 0
            /\ b[5] = w % 256 /\ b[6] = w \div 256 /\ b[7] = h % 256 /\ b[8] = h \div 256
            /\ \A k \in 1..h, j \in 1..w : b[8 + ((k - 1) * w + j)] = rs[k][j]
  <1> DEFINE h == Len(rs)
             head == <<29, 118, 48, 0, w % 256, w \div 256, h % 256, h \div 256>>
             flat == FlattenSeq(rs)
             b == head \o flat
             d == w * h
  <1> HIDE DEF h, head, flat, b, d
  <1>0. h = Len(rs) /\ h \in Nat \ {0} /\ h < 256 * 256 /\ \A i \in 1..h : Len(rs[i]) = w
    BY EmptySeq DEF h
  <1>1. Len(rs[1]) = w
    BY <1>0
  <1>2. Block(rs) = b
    BY <1>1, Zenon DEF Block, GS, b, head, flat, h
  <1>3. w % 256 \in Nat /\ w \div 256 \in Nat /\ h % 256 \in Nat /\ h \div 256 \in Nat
    BY <1>0, TwoBytes
  <1>4. /\ head \in Seq(Nat) /\ Len(head) = 8
        /\ head[1] = 29 /\ head[2] = 118 /\ head[3] = 48 /\ head[4] = 0
        /\ head[5] = w % 256 /\ head[6] = w \div 256 /\ head[7] = h % 256 /\ head[8] = h \div 256
    <2> DEFINE p == w % 256
               q == w \div 256
               u == h % 256
               v == h \div 256
    <2>1. p \in Nat /\ q \in Nat /\ u \in Nat /\ v \in Nat
      BY <1>3
    <2>2. head = <<29, 118, 48, 0, p, q, u, v>>
      BY DEF head
    <2> HIDE DEF p, q, u, v
    <2>3. /\ head \in Seq(Nat) /\ Len(head) = 8
          /\ head[1] = 29 /\ head[2] = 118 /\ head[3] = 48 /\ head[4] = 0
          /\ head[5] = p /\ head[6] = q /\ head[7] = u /\ head[8] = v
      BY <2>1, <2>2
    <2> QED BY <2>3 DEF p, q, u, v
  <1>5. /\ flat \in Seq(Nat) /\ Len(flat) = h * w /\ h \in Nat
        /\ \A k \in 1..h, j \in 1..w : flat[(k - 1) * w + j] = rs[k][j]
    <2>1. w \in Nat /\ h \in Nat
      BY <1>0
    <2>2. /\ FlattenSeq(rs) \in Seq(Nat) /\ Len(FlattenSeq(rs)) = Len(rs) * w
          /\ \A i \in 1..Len(rs), j \in 1..w : FlattenSeq(rs)[(i - 1) * w + j] = rs[i][j]
      <3>1. \A i \in 1..Len(rs) : Len(rs[i]) = w
        OBVIOUS
      <3>2. w \in Nat /\ rs \in Seq(Seq(Nat))
        OBVIOUS
      <3>3. FlattenSeq(rs) \in Seq(Nat)
        BY <3>1, <3>2, FlattenRows
      <3>4. Len(FlattenSeq(rs)) = Len(rs) * w
        BY <3>1, <3>2, FlattenRows
      <3>5. ASSUME NEW i \in 1..Len(rs), NEW j \in 1..w
            PROVE  FlattenSeq(rs)[(i - 1) * w + j] = rs[i][j]
        BY <3>1, <3>2, FlattenRows
      <3> QED BY <3>3, <3>4, <3>5
    <2> QED BY <2>1, <2>2, Zenon DEF flat, h
  <1>6. h * w = d /\ d \in Nat
    BY <1>5 DEF d
  <1>7. /\ b \in Seq(Nat) /\ Len(b) = 8 + d /\ d \in Nat
        /\ \A i \in 1..(8 + d) : b[i] = IF i <= 8 THEN head[i] ELSE flat[i - 8]
    <2>1. head \in Seq(Nat) /\ flat \in Seq(Nat) /\ Len(head) = 8 /\ Len(flat) = d
      BY <1>4, <1>5, <1>6
    <2>2. /\ b \in Seq(Nat) /\ Len(b) = Len(head) + Len(flat)
          /\ \A i \in 1..(Len(head) + Len(flat)) :
               b[i] = IF i <= Len(head) THEN head[i] ELSE flat[i - Len(head)]
      BY <2>1, ConcatProperties, Zenon DEF b
    <2> QED BY <1>6, <2>1, <2>2
  <1>8. ASSUME NEW k \in 1..h, NEW j \in 1..w
        PROVE  b[8 + ((k - 1) * w + j)] = rs[k][j]
    <2> DEFINE m == (k - 1) * w + j
    <2>1. m \in 1..(h * w)
      BY <1>5, Places
    <2>2. flat[m] = rs[k][j]
      BY <1>5
    <2>3. m \in 1..d
      BY <1>6, <2>1
    <2> HIDE DEF m
    <2>4. 8 + m \in 1..(8 + d) /\ ~(8 + m <= 8) /\ (8 + m) - 8 = m
      BY <1>7, <2>3
    <2>5. b[8 + m] = flat[m]
      BY <1>7, <2>4
    <2> QED BY <2>2, <2>5 DEF m
  <1>9. \A i \in 1..8 : b[i] = head[i]
    <2>1. \A i \in 1..8 : i \in 1..(8 + d) /\ i <= 8
      BY <1>7
    <2> QED BY <1>7, <2>1
  <1>10. /\ b[1] = 29 /\ b[2] = 118 /\ b[3] = 48 /\ b[4] = 0
         /\ b[5] = w % 256 /\ b[6] = w \div 256 /\ b[7] = h % 256 /\ b[8] = h \div 256
    <2> QED BY <1>4, <1>9
  <1>11. Len(b) = 8 + w * h /\ w * h \in Nat
    BY <1>6, <1>7, Zenon DEF d
  <1> QED BY <1>2, <1>7, <1>8, <1>10, <1>11, Zenon DEF h

\* The printer prints the rows of a block, and goes on behind it.
LEMMA BlockPrints ==
  ASSUME NEW rs \in Seq(Seq(Nat)), rs # <<>>, Len(rs) < 256 * 256, NEW w \in Nat, w < 256 * 256,
         \A i \in 1..Len(rs) : Len(rs[i]) = w, NEW rest \in Seq(Nat)
  PROVE  Printout(Block(rs) \o rest) = rs \o Printout(rest)
  <1> DEFINE b == Block(rs)
             h == Len(rs)
             s == b \o rest
  <1>1. /\ b \in Seq(Nat) /\ Len(b) = 8 + w * h /\ w * h \in Nat
        /\ b[1] = 29 /\ b[2] = 118 /\ b[3] = 48 /\ b[4] = 0
        /\ b[5] = w % 256 /\ b[6] = w \div 256 /\ b[7] = h % 256 /\ b[8] = h \div 256
        /\ \A k \in 1..h, j \in 1..w : b[8 + ((k - 1) * w + j)] = rs[k][j]
    BY BlockBytes
  <1> HIDE DEF b
  <1>2. /\ s \in Seq(Nat) /\ Len(s) = Len(b) + Len(rest) /\ Len(rest) \in Nat
        /\ \A i \in 1..Len(b) : s[i] = b[i]
    <2>1. b \in Seq(Nat)
      BY <1>1
    <2> QED BY <2>1, Prefix, Zenon
  <1> HIDE DEF s, h
  <1>3. 8 <= Len(s) /\ 8 + w * h <= Len(s)
    <2> DEFINE d == w * h
    <2> HIDE DEF d
    <2>1. d \in Nat /\ Len(s) = (8 + d) + Len(rest)
      BY <1>1, <1>2 DEF d
    <2>2. 8 <= Len(s) /\ 8 + d <= Len(s)
      BY <1>2, <2>1
    <2> QED BY <2>2 DEF d
  <1>4. /\ s[1] = 29 /\ s[2] = 118 /\ s[3] = 48 /\ s[4] = 0
        /\ s[5] = w % 256 /\ s[6] = w \div 256 /\ s[7] = h % 256 /\ s[8] = h \div 256
    <2> DEFINE d == w * h
    <2> HIDE DEF d
    <2>1. d \in Nat /\ Len(b) = 8 + d
      BY <1>1 DEF d
    <2>2. \A i \in 1..8 : i \in 1..Len(b)
      BY <2>1
    <2>3. \A i \in 1..8 : s[i] = b[i]
      BY <1>2, <2>2, Zenon
    <2>4. /\ s[1] = b[1] /\ s[2] = b[2] /\ s[3] = b[3] /\ s[4] = b[4]
          /\ s[5] = b[5] /\ s[6] = b[6] /\ s[7] = b[7] /\ s[8] = b[8]
      BY <2>3
    <2> QED BY <1>1, <2>4, Zenon
  <1>5. h \in Nat /\ h < 256 * 256
    BY LenProperties DEF h
  <1> DEFINE v == s[5] + 256 * s[6]
             g == s[7] + 256 * s[8]
             raster(p, q) == [k \in 1..q |-> SubSeq(s, 9 + (k - 1) * p, 8 + k * p)]
  <1>6. v = w /\ g = h
    <2>1. (w % 256) + 256 * (w \div 256) = w /\ (h % 256) + 256 * (h \div 256) = h
      BY <1>5, TwoBytes
    <2> QED BY <1>4, <2>1, Zenon
  <1>7. Command(s) = [out |-> raster(w, h), length |-> 8 + w * h]
    <2>1. Command(s) = IF 2 <= Len(s) /\ s[1] = 27 /\ s[2] = 64 THEN [out |-> <<>>, length |-> 2]
              ELSE IF 3 <= Len(s) /\ s[1] = 27 /\ s[2] = 100
              THEN [out |-> <<<<"feed", s[3]>>>>, length |-> 3]
              ELSE IF 3 <= Len(s) /\ s[1] = 29 /\ s[2] = 86 /\ s[3] = 1
              THEN [out |-> <<<<"cut">>>>, length |-> 3]
              ELSE IF /\ 8 <= Len(s) /\ s[1] = 29 /\ s[2] = 118 /\ s[3] = 48 /\ s[4] = 0
                      /\ 8 + v * g <= Len(s)
              THEN [out |-> raster(v, g), length |-> 8 + v * g]
              ELSE [out |-> <<<<"garbage">>>>, length |-> 1]
      BY <1>2, CommandIs
    <2>2. s[1] # 27 /\ s[2] # 86
      BY <1>4
    <2> HIDE DEF v, g, raster
    <2>3. 8 + v * g <= Len(s)
      BY <1>3, <1>6
    <2>4. Command(s) = [out |-> raster(v, g), length |-> 8 + v * g]
      BY <1>3, <1>4, <2>1, <2>2, <2>3, Zenon
    <2> QED BY <1>6, <2>4, Zenon
  <1>8. raster(w, h) = rs
    <2>1. ASSUME NEW k \in 1..h PROVE SubSeq(s, 9 + (k - 1) * w, 8 + k * w) = rs[k]
      <3> DEFINE r == SubSeq(s, 9 + (k - 1) * w, 8 + k * w)
      <3>1. /\ r \in Seq(Nat) /\ Len(r) = w
            /\ \A j \in 1..w : r[j] = s[8 + ((k - 1) * w + j)]
        <4>1. s \in Seq(Nat) /\ 8 + w * h <= Len(s) /\ h \in Nat /\ w \in Nat
          BY <1>2, <1>3, <1>5
        <4> QED BY <4>1, RasterRows, Zenon
      <3>2. rs[k] \in Seq(Nat) /\ Len(rs[k]) = w
        BY DEF h
      <3>3. ASSUME NEW j \in 1..w PROVE s[8 + ((k - 1) * w + j)] = rs[k][j]
        <4> DEFINE m == (k - 1) * w + j
                   d == w * h
        <4>1. m \in 1..(h * w)
          BY <1>5, Places
        <4>2. h * w = d /\ Len(b) = 8 + d /\ d \in Nat
          BY <1>1, <1>5, h * w = w * h
        <4>3. b[8 + m] = rs[k][j]
          BY <1>1
        <4> HIDE DEF m, d
        <4>4. 8 + m \in 1..Len(b)
          BY <4>1, <4>2
        <4>5. s[8 + m] = b[8 + m]
          BY <1>2, <4>4
        <4> QED BY <4>3, <4>5 DEF m
      <3> HIDE DEF r
      <3>4. \A j \in 1..w : r[j] = rs[k][j]
        BY <3>1, <3>3
      <3>5. r = rs[k]
        BY <3>1, <3>2, <3>4, SeqEqual
      <3> QED BY <3>5 DEF r
    <2>2. rs = [k \in 1..h |-> rs[k]]
      BY DEF h
    <2> QED BY <2>1, <2>2
  <1> HIDE DEF raster, v, g
  <1>9. Command(s).length = Len(b) /\ Command(s).out = rs
    BY <1>1, <1>7, <1>8
  <1>10. b # <<>>
    BY <1>1
  <1>11. Printout(s) = Command(s).out \o Printout(rest)
    BY <1>1, <1>9, <1>10, PrintoutSteps, Zenon DEF s
  <1> QED BY <1>9, <1>11 DEF s, b

-----------------------------------------------------------------------------
(* All blocks of a job. *)

\* The smaller of two numbers.
LEMMA MinOfTwo ==
  ASSUME NEW a \in Int, NEW b \in Int
  PROVE  Min({a, b}) \in Int /\ Min({a, b}) = IF a <= b THEN a ELSE b
  BY DEF Min

\* Products keep the order of their factors.
LEMMA TimesKeepsOrder ==
  ASSUME NEW a \in Int, NEW c \in Int, NEW b \in Nat, a <= c
  PROVE  b * a <= b * c
  OBVIOUS

\* A quotient rounded down.
LEMMA Quotient ==
  ASSUME NEW n \in Nat, NEW b \in Nat \ {0}
  PROVE  n \div b \in Int /\ b * (n \div b) <= n /\ n < b * (n \div b) + b
  OBVIOUS

\* A quotient rounded up is at most h exactly if the dividend is at most h times the
\* divisor: the code compares quotients, the model products.
LEMMA CeilFits ==
  ASSUME NEW a \in Nat, NEW b \in Nat \ {0}, NEW h \in Nat
  PROVE  /\ (a + b - 1) \div b \in Int
         /\ (a + b - 1) \div b <= h <=> a <= h * b
  <1> DEFINE q == (a + b - 1) \div b
  <1>1. q \in Int /\ b * q <= a + b - 1 /\ a + b - 1 < b * q + b
    BY Quotient
  <1> HIDE DEF q
  <1>2. b * q \in Int /\ b * h \in Int /\ h * b = b * h
    BY <1>1
  <1>3. CASE q <= h
    <2>1. b * q <= b * h
      BY <1>1, <1>3, TimesKeepsOrder
    <2> QED BY <1>1, <1>2, <1>3, <2>1 DEF q
  <1>4. CASE ~(q <= h)
    <2>1. h + 1 <= q
      BY <1>1, <1>4
    <2>2. b * (h + 1) <= b * q /\ b * (h + 1) = b * h + b
      BY <1>1, <2>1, TimesKeepsOrder
    <2>3. a > h * b
      BY <1>1, <1>2, <2>2
    <2> QED BY <1>1, <1>2, <1>4, <2>3 DEF q
  <1> QED BY <1>1, <1>3, <1>4

\* The number of blocks, and where they end.
LEMMA BlockEnds ==
  ASSUME NEW T \in Nat \ {0}, NEW R \in Nat \ {0}, NEW n, n = (T + R - 1) \div R
  PROVE  /\ n \in Nat \ {0} /\ T <= n * R
         /\ \A k \in Nat : k < n => k * R \in Nat /\ k * R < T /\ (k + 1) * R = k * R + R
  <1>1. n \in Int /\ \A h \in Nat : n <= h <=> T <= h * R
    BY CeilFits
  <1>2. ~(n <= 0)
    BY <1>1
  <1>3. n \in Nat \ {0}
    BY <1>1, <1>2
  <1>4. T <= n * R
    BY <1>1, <1>3
  <1>5. ASSUME NEW k \in Nat, k < n PROVE k * R \in Nat /\ k * R < T /\ (k + 1) * R = k * R + R
    <2>1. k * R \in Nat /\ (k + 1) * R = k * R + R
      OBVIOUS
    <2>2. ~(T <= k * R)
      BY <1>1, <1>3, <1>5
    <2> QED BY <2>1, <2>2
  <1> QED BY <1>3, <1>4, <1>5

\* A piece of a sequence has the elements from m to n.
LEMMA Piece ==
  ASSUME NEW X, NEW rs \in Seq(X), NEW m \in 1..Len(rs), NEW n \in m..Len(rs)
  PROVE  /\ SubSeq(rs, m, n) \in Seq(X) /\ Len(SubSeq(rs, m, n)) = n - m + 1
         /\ SubSeq(rs, m, n) # <<>>
         /\ \A i \in 1..(n - m + 1) :
              m + i - 1 \in 1..Len(rs) /\ SubSeq(rs, m, n)[i] = rs[m + i - 1]
  <1>1. \A i \in m..n : rs[i] \in X
    BY ElementOfSeq, LenProperties
  <1>2. m \in Int /\ n \in Int /\ m <= n /\ Len(rs) \in Nat
    BY LenProperties
  <1>3. /\ SubSeq(rs, m, n) \in Seq(X) /\ Len(SubSeq(rs, m, n)) = n - m + 1
        /\ \A i \in 1..(n - m + 1) : SubSeq(rs, m, n)[i] = rs[m + i - 1]
    BY <1>1, <1>2, SubSeqProperties
  <1>4. SubSeq(rs, m, n) # <<>>
    <2> DEFINE p == SubSeq(rs, m, n)
    <2>1. p \in Seq(X) /\ Len(p) >= 1
      BY <1>2, <1>3
    <2> HIDE DEF p
    <2>2. p # <<>>
      BY <2>1
    <2> QED BY <2>2 DEF p
  <1>5. \A i \in 1..(n - m + 1) : m + i - 1 \in 1..Len(rs)
    BY <1>2
  <1> QED BY <1>3, <1>4, <1>5

\* Concatenation is associative.
LEMMA BytesAssociative ==
  ASSUME NEW a \in Seq(Nat), NEW b \in Seq(Nat), NEW c \in Seq(Nat)
  PROVE  Printout((a \o b) \o c) = Printout(a \o (b \o c))
  <1>1. (a \o b) \o c = a \o (b \o c)
    OBVIOUS
  <1> QED BY <1>1, Zenon

\* A part of a job prints these rows, whatever comes behind it.
Prints(part, rs) == \A t \in Seq(Nat) : Printout(part \o t) = rs \o Printout(t)

\* Two parts print the rows of both.
LEMMA PartsPrint ==
  ASSUME NEW A \in Seq(Nat), NEW B \in Seq(Nat),
         NEW p \in Seq(Seq(Nat)), NEW q \in Seq(Seq(Nat)), Prints(A, p), Prints(B, q)
  PROVE  Prints(A \o B, p \o q)
  <1>1. ASSUME NEW t \in Seq(Nat)
        PROVE  Printout((A \o B) \o t) = (p \o q) \o Printout(t)
    <2> DEFINE o == Printout(t)
    <2>1. p \in Seq(Items) /\ q \in Seq(Items)
      <3>1. Seq(Nat) \subseteq Items
        BY DEF Items
      <3> QED BY <3>1, SeqMonotonic
    <2>2. o \in Seq(Items)
      BY PrintoutType
    <2>3. B \o t \in Seq(Nat)
      BY ConcatProperties
    <2>4. Printout((A \o B) \o t) = Printout(A \o (B \o t))
      BY BytesAssociative, Zenon
    <2>5. Printout(A \o (B \o t)) = p \o Printout(B \o t)
      BY <2>3, Zenon DEF Prints
    <2>6. Printout(B \o t) = q \o o
      BY Zenon DEF Prints
    <2> HIDE DEF o
    <2>7. (p \o q) \o o = p \o (q \o o)
      BY <2>1, <2>2
    <2> QED BY <2>4, <2>5, <2>6, <2>7, Zenon DEF o
  <1> QED BY <1>1, Zenon DEF Prints

\* The blocks of build_escpos_job, one after the other, print all rows in their order.
LEMMA BlocksPrint ==
  ASSUME NEW rs \in Seq(Seq(Nat)), rs # <<>>, NEW w \in Nat, w < 256 * 256,
         \A i \in 1..Len(rs) : Len(rs[i]) = w
  PROVE  Blocks(rs) \in Seq(Nat) /\ Prints(Blocks(rs), rs)
  <1> DEFINE T == Len(rs)
             R == RowsPerBlock
             n == (T + R - 1) \div R
             E(k) == IF k * R <= T THEN k * R ELSE T
             piece(k) == SubSeq(rs, (k - 1) * R + 1, E(k))
             s == [k \in 1..n |-> Block(piece(k))]
  <1>1. T \in Nat \ {0} /\ R \in Nat \ {0} /\ R < 256 * 256 /\ T = Len(rs)
    BY EmptySeq, EscPosAssumption
  <1>2. /\ n \in Nat \ {0} /\ T <= n * R
        /\ \A k \in Nat : k < n => k * R \in Nat /\ k * R < T /\ (k + 1) * R = k * R + R
    <2> HIDE DEF T, R
    <2> QED BY <1>1, BlockEnds
  <1> HIDE DEF T, R, n
  \* Block k + 1 starts behind the end of block k.
  <1>3. ASSUME NEW k \in Nat, k < n
        PROVE  /\ E(k) = k * R /\ E(k) \in 0..(T - 1) /\ ((k + 1) - 1) * R + 1 = E(k) + 1
               /\ E(k + 1) \in (E(k) + 1)..T /\ E(k + 1) - E(k) <= R
    <2> DEFINE p == k * R
               q == (k + 1) * R
    <2>1. p \in Nat /\ p < T /\ q = p + R
      BY <1>2, <1>3
    <2>2. ((k + 1) - 1) * R = p
      OBVIOUS
    <2> HIDE DEF p, q
    <2>3. E(k) = IF p <= T THEN p ELSE T
      BY DEF p
    <2>4. E(k + 1) = IF q <= T THEN q ELSE T
      BY DEF q
    <2> HIDE DEF E
    <2>5. /\ E(k) = p /\ E(k) \in 0..(T - 1) /\ p + 1 = E(k) + 1
          /\ E(k + 1) \in (E(k) + 1)..T /\ E(k + 1) - E(k) <= R
      BY <1>1, <2>1, <2>3, <2>4
    <2> QED BY <2>2, <2>5 DEF p
  <1>4. E(n) = T
    <2> DEFINE p == n * R
    <2>1. p \in Nat /\ T <= p
      BY <1>1, <1>2
    <2> HIDE DEF p
    <2>2. E(n) = IF p <= T THEN p ELSE T
      BY DEF p
    <2> QED BY <1>1, <2>1, <2>2
  <1>5. Blocks(rs) = FlattenSeq(s)
    <2> DEFINE start(k) == (k - 1) * R + 1
               end(m) == Min({m + R - 1, T})
               starts == [k \in 1..n |-> start(k)]
    <2>1. Blocks(rs) = FlattenSeq([k \in DOMAIN starts |->
                                    Block(SubSeq(rs, starts[k], end(starts[k])))])
      BY DEF Blocks, T, R, n
    <2>2. ASSUME NEW k \in 1..n PROVE end(start(k)) = E(k)
      <3>1. (k - 1) * R \in Int /\ k * R = (k - 1) * R + R
        BY <1>1, <1>2
      <3> DEFINE p == (k - 1) * R
                 q == k * R
      <3> HIDE DEF p, q
      <3>2. p \in Int /\ q = p + R
        BY <3>1 DEF p, q
      <3>3. (p + 1) + R - 1 \in Int /\ (p + 1) + R - 1 = q
        BY <1>1, <3>2
      <3>4. Min({(p + 1) + R - 1, T}) = IF q <= T THEN q ELSE T
        <4>1. q \in Int /\ T \in Int
          BY <1>1, <3>3
        <4>2. Min({q, T}) = IF q <= T THEN q ELSE T
          BY <4>1, MinOfTwo
        <4> QED BY <3>3, <4>2
      <3> QED BY <3>4 DEF p, q
    <2> HIDE DEF end, start, E
    <2>3. DOMAIN starts = 1..n /\ \A k \in 1..n : starts[k] = start(k)
      OBVIOUS
    <2> HIDE DEF starts
    <2>4. [k \in DOMAIN starts |-> Block(SubSeq(rs, starts[k], end(starts[k])))]
          = [k \in 1..n |-> Block(SubSeq(rs, start(k), E(k)))]
      BY <2>2, <2>3, Zenon
    <2> QED BY <2>1, <2>4, Zenon DEF start
  <1> HIDE DEF E
  <1>6. ASSUME NEW k \in Nat, k < n
        PROVE  /\ piece(k + 1) = SubSeq(rs, E(k) + 1, E(k + 1))
               /\ piece(k + 1) \in Seq(Seq(Nat))
               /\ Block(piece(k + 1)) \in Seq(Nat)
               /\ Prints(Block(piece(k + 1)), piece(k + 1))
    <2> DEFINE a == E(k) + 1
               z == E(k + 1)
               p == SubSeq(rs, a, z)
    <2>1. piece(k + 1) = p
      BY <1>3, <1>6
    <2>2. a \in 1..Len(rs) /\ z \in a..Len(rs) /\ z - a + 1 <= R /\ z - a + 1 \in Nat
      BY <1>1, <1>3, <1>6
    <2> HIDE DEF a, z, p, piece
    <2>3. /\ p \in Seq(Seq(Nat)) /\ Len(p) = z - a + 1 /\ p # <<>>
          /\ \A i \in 1..(z - a + 1) : a + i - 1 \in 1..Len(rs) /\ p[i] = rs[a + i - 1]
      BY <2>2, Piece DEF p
    <2>4. Len(p) < 256 * 256
      BY <1>1, <2>2, <2>3
    <2>5. \A i \in 1..Len(p) : Len(p[i]) = w
      BY <2>3
    <2>6. Block(p) \in Seq(Nat)
      BY <2>3, <2>4, <2>5, BlockBytes
    <2>7. Prints(Block(p), p)
      BY <2>3, <2>4, <2>5, BlockPrints DEF Prints
    <2>8. p = SubSeq(rs, E(k) + 1, E(k + 1))
      BY DEF p, a, z
    <2> QED BY <2>1, <2>3, <2>6, <2>7, <2>8
  <1>7. s \in Seq(Seq(Nat)) /\ s # <<>> /\ Len(s) = n /\ \A k \in 1..n : s[k] = Block(piece(k))
    <2>1. ASSUME NEW k \in 1..n PROVE Block(piece(k)) \in Seq(Nat)
      <3>1. k - 1 \in Nat /\ k - 1 < n /\ (k - 1) + 1 = k
        BY <1>2
      <3> HIDE DEF piece
      <3> QED BY <1>6, <3>1
    <2> HIDE DEF piece
    <2>2. s \in Seq(Seq(Nat)) /\ Len(s) = n
      BY <1>2, <2>1
    <2>3. \A k \in 1..n : s[k] = Block(piece(k))
      OBVIOUS
    <2> HIDE DEF s
    <2>4. s # <<>>
      BY <1>2, <2>2
    <2> QED BY <2>2, <2>3, <2>4
  <1> HIDE DEF s, piece
  <1>8. PICK f \in [1..n -> Seq(Nat)] : FlattenSeq(s) = f[n] /\ Flattens(f, s, n)
    BY <1>7, FlattenUnfold
  <1> DEFINE P(k) == Prints(f[k], SubSeq(rs, 1, E(k)))
             K == {k \in Nat : k \in 1..n => P(k)}
  <1>9. 0 \in K
    OBVIOUS
  <1>10. ASSUME NEW k \in Nat, k \in K PROVE k + 1 \in K
    <2> SUFFICES ASSUME k + 1 \in 1..n PROVE P(k + 1)
      <3> HIDE DEF P
      <3> QED OBVIOUS
    <2>1. k < n /\ k \in Nat
      BY <1>2
    <2> DEFINE q == piece(k + 1)
               b == Block(q)
    <2>0. /\ q = SubSeq(rs, E(k) + 1, E(k + 1)) /\ q \in Seq(Seq(Nat)) /\ b \in Seq(Nat)
          /\ Prints(b, q)
          /\ s[k + 1] = b
      BY <1>6, <1>7, <2>1, Zenon
    <2> HIDE DEF q, b
    <2>2. CASE k = 0
      <3>1. f[k + 1] = b
        <4>1. k + 1 = 1
          BY <2>2
        <4>2. f[k + 1] = s[k + 1]
          BY <1>8, <4>1, Zenon DEF Flattens
        <4> QED BY <2>0, <4>2
      <3>2. E(k) = 0
        <4>1. E(k) = k * RowsPerBlock /\ 0 * RowsPerBlock = 0
          BY <1>1, <1>3, <2>1 DEF R
        <4> QED BY <2>2, <4>1
      <3>3. q = SubSeq(rs, 1, E(k + 1))
        BY <2>0, <3>2
      <3> QED BY <2>0, <3>1, <3>3
    <2>3. CASE k # 0
      <3>1. k \in 1..n /\ k + 1 # 1 /\ (k + 1) - 1 = k
        BY <1>2, <2>1, <2>3
      <3>2. f[k + 1] = f[k] \o b /\ f[k] \in Seq(Nat)
        <4>1. f[k + 1] = f[(k + 1) - 1] \o s[k + 1]
          BY <1>8, <3>1, Zenon DEF Flattens
        <4> QED BY <2>0, <3>1, <4>1
      <3>3. P(k)
        <4> HIDE DEF P
        <4> QED BY <1>10, <3>1
      <3> DEFINE a == SubSeq(rs, 1, E(k))
                 g == f[k]
      <3>4. a \in Seq(Seq(Nat)) /\ a \o q = SubSeq(rs, 1, E(k + 1))
        <4> DEFINE d == E(k)
                   e == E(k + 1)
        <4>1. d \in 0..(T - 1) /\ e \in (d + 1)..T
          BY <1>3, <2>1
        <4> HIDE DEF d, e
        <4>2. /\ 1 \in 1..(Len(rs) + 1) /\ d \in (1 - 1)..Len(rs) /\ e \in d..Len(rs)
              /\ d \in Int
          BY <1>1, <4>1
        <4>3. SubSeq(rs, 1, d) \o SubSeq(rs, d + 1, e) = SubSeq(rs, 1, e)
          BY <4>2, ConcatAdjacentSubSeq
        <4>4. SubSeq(rs, 1, d) \in Seq(Seq(Nat))
          <5>1. \A i \in 1..d : rs[i] \in Seq(Nat)
            BY <4>2, ElementOfSeq
          <5> QED BY <4>2, <5>1, SubSeqProperties
        <4> QED BY <2>0, <4>3, <4>4 DEF d, e
      <3>5. g \in Seq(Nat) /\ Prints(g, a)
        BY <3>2, <3>3
      <3> HIDE DEF a, g
      <3>6. Prints(g \o b, a \o q)
        BY <2>0, <3>4, <3>5, PartsPrint
      <3>7. f[k + 1] = g \o b
        BY <3>2 DEF g
      <3> QED BY <3>4, <3>6, <3>7
    <2> QED BY <2>2, <2>3
  <1>11. P(n)
    <2>1. n \in K
      <3> HIDE DEF K
      <3> QED BY <1>2, <1>9, <1>10, SetInduction
    <2>2. n \in 1..n
      BY <1>2
    <2> HIDE DEF P
    <2> QED BY <2>1, <2>2
  <1>12. SubSeq(rs, 1, E(n)) = rs
    BY <1>1, <1>4, SubSeqFull
  <1>13. f[n] \in Seq(Nat)
    BY <1>2
  <1> QED BY <1>5, <1>8, <1>11, <1>12, <1>13

-----------------------------------------------------------------------------
(* A whole job. *)

\* The margins are rows like the others.
LEMMA Padded ==
  ASSUME NEW rs \in Seq(Seq(Nat)), rs # <<>>, NEW w \in Nat, NEW pad \in Nat,
         \A i \in 1..Len(rs) : Len(rs[i]) = w
  PROVE  LET margin == [i \in 1..pad |-> [b \in 1..w |-> 0]]
             all == margin \o rs \o margin
         IN /\ all \in Seq(Seq(Nat)) /\ all # <<>>
            /\ \A i \in 1..Len(all) : Len(all[i]) = w
  <1> DEFINE blank == [b \in 1..w |-> 0]
             margin == [i \in 1..pad |-> blank]
             S == {r \in Seq(Nat) : Len(r) = w}
             all == (margin \o rs) \o margin
  <1>1. blank \in Seq(Nat) /\ Len(blank) = w
    OBVIOUS
  <1>2. blank \in S
    BY <1>1
  <1>3. margin \in Seq(S)
    <2> HIDE DEF blank, S
    <2> QED BY <1>2
  <1>4. rs \in Seq(S)
    <2>1. \A i \in 1..Len(rs) : rs[i] \in S
      BY ElementOfSeq
    <2>2. rs = [i \in 1..Len(rs) |-> rs[i]] /\ Len(rs) \in Nat
      BY LenProperties
    <2> DEFINE n == Len(rs)
               e(i) == rs[i]
    <2>3. n \in Nat /\ \A i \in 1..n : e(i) \in S
      BY <2>1, <2>2
    <2> HIDE DEF S, n, e
    <2>4. [i \in 1..n |-> e(i)] \in Seq(S)
      BY <2>3
    <2> QED BY <2>2, <2>4, Zenon DEF n, e
  <1> HIDE DEF margin, blank, S
  <1>5. margin \o rs \in Seq(S)
    BY <1>3, <1>4, ConcatProperties
  <1>6. all \in Seq(S)
    BY <1>3, <1>5, ConcatProperties
  <1>7. all # <<>>
    <2>1. margin \o rs # <<>>
      BY <1>3, <1>4, ConcatEqualIffEmpty
    <2> QED BY <1>3, <1>5, <2>1, ConcatEqualIffEmpty
  <1> HIDE DEF all
  <1>8. \A i \in 1..Len(all) : all[i] \in S
    BY <1>6, ElementOfSeq
  <1>9. all \in Seq(Seq(Nat))
    <2>1. S \subseteq Seq(Nat)
      BY DEF S
    <2> QED BY <1>6, <2>1, SeqMonotonic
  <1>10. \A i \in 1..Len(all) : Len(all[i]) = w
    BY <1>8 DEF S
  <1> QED BY <1>7, <1>9, <1>10, Zenon DEF all, margin, blank

\* The end of a job is one feed and one cut.
LEMMA EndPrints ==
  ASSUME NEW n \in Nat
  PROVE  /\ <<27, 100, n>> \o <<29, 86, 1>> \in Seq(Nat)
         /\ Printout(<<27, 100, n>> \o <<29, 86, 1>>) = <<<<"feed", n>>>> \o <<<<"cut">>>>
  <1> DEFINE C == <<29, 86, 1>>
             F == <<27, 100, n>>
  <1>1. C \in Seq(Nat) /\ F \in Seq(Nat)
    OBVIOUS
  <1>2. Printout(C) = <<<<"cut">>>>
    <2>0. <<>> \in Seq(Nat)
      OBVIOUS
    <2>1. Printout(C \o <<>>) = <<<<"cut">>>> \o Printout(<<>>)
      BY <2>0, SmallPrintouts, Zenon
    <2>2. C \o <<>> = C
      BY <1>1, ConcatEmptySeq
    <2>3. Printout(<<>>) = <<>>
      BY <1>1, PrintoutType
    <2>4. <<<<"cut">>>> \o <<>> = <<<<"cut">>>>
      OBVIOUS
    <2> QED BY <2>1, <2>2, <2>3, <2>4
  <1>3. Printout(F \o C) = <<<<"feed", n>>>> \o Printout(C)
    BY <1>1, SmallPrintouts
  <1> QED BY <1>1, <1>2, <1>3, ConcatProperties

\* Feed and cut, behind the rows of the receipt and its margins, are all that comes
\* out of a job.
LEMMA JobPrints ==
  ASSUME NEW rs \in Seq(Seq(Nat)), rs # <<>>, NEW w \in Nat, w < 256 * 256, NEW pad \in Nat,
         \A i \in 1..Len(rs) : Len(rs[i]) = w
  PROVE  LET margin == [i \in 1..pad |-> [b \in 1..w |-> 0]]
             all == margin \o rs \o margin
         IN /\ all \in Seq(Seq(Nat))
            /\ Printout(build_escpos_job(rs, pad))
               = all \o (<<<<"feed", FeedLines>>>> \o <<<<"cut">>>>)
  <1> DEFINE margin == [i \in 1..pad |-> [b \in 1..w |-> 0]]
             all == margin \o rs \o margin
             B == Blocks(all)
             I == <<27, 64>>
             F == <<27, 100, FeedLines>>
             C == <<29, 86, 1>>
  <1>1. all \in Seq(Seq(Nat)) /\ all # <<>> /\ \A i \in 1..Len(all) : Len(all[i]) = w
    BY Padded
  <1>2. Len(rs[1]) = w
    BY EmptySeq
  <1>3. FeedLines \in Nat /\ FeedLines > 0 /\ Min({255, FeedLines}) = FeedLines
    BY EscPosAssumption, MinOfTwo
  <1>4. build_escpos_job(rs, pad) = ((I \o B) \o F) \o C
    BY <1>2, <1>3, Zenon DEF build_escpos_job, ESC, GS
  <1>5. I \in Seq(Nat) /\ F \in Seq(Nat) /\ C \in Seq(Nat)
    BY <1>3
  <1>6. B \in Seq(Nat) /\ Prints(B, all)
    <2> HIDE DEF all
    <2> QED BY <1>1, BlocksPrint
  <1>7. /\ F \o C \in Seq(Nat)
        /\ Printout(F \o C) = <<<<"feed", FeedLines>>>> \o <<<<"cut">>>>
    BY <1>3, EndPrints
  <1>8. \A t \in Seq(Nat) : Printout(I \o t) = Printout(t)
    BY SmallPrintouts
  <1> HIDE DEF all, B, I, F, C
  <1>9. I \o B \in Seq(Nat) /\ B \o (F \o C) \in Seq(Nat)
    BY <1>5, <1>6, <1>7, ConcatProperties
  <1>10. Printout(((I \o B) \o F) \o C) = Printout((I \o B) \o (F \o C))
    BY <1>5, <1>9, BytesAssociative
  <1>11. Printout((I \o B) \o (F \o C)) = Printout(I \o (B \o (F \o C)))
    BY <1>5, <1>6, <1>7, BytesAssociative
  <1>12. Printout(I \o (B \o (F \o C))) = Printout(B \o (F \o C))
    BY <1>8, <1>9
  <1>13. Printout(B \o (F \o C)) = all \o Printout(F \o C)
    BY <1>6, <1>7, Zenon DEF Prints
  <1> QED BY <1>1, <1>4, <1>7, <1>10, <1>11, <1>12, <1>13, Zenon DEF all

-----------------------------------------------------------------------------
(* Packed rows. *)

\* A sum of bits, read bit by bit.
LEMMA EightBits ==
  ASSUME NEW a \in {0, 128}, NEW b \in {0, 64}, NEW c \in {0, 32}, NEW d \in {0, 16},
         NEW e \in {0, 8}, NEW f \in {0, 4}, NEW g \in {0, 2}, NEW h \in {0, 1},
         NEW s, s = a + b + c + d + e + f + g + h
  PROVE  /\ s \in 0..255
         /\ (s \div 128) % 2 = 1 <=> a # 0
         /\ (s \div 64) % 2 = 1 <=> b # 0
         /\ (s \div 32) % 2 = 1 <=> c # 0
         /\ (s \div 16) % 2 = 1 <=> d # 0
         /\ (s \div 8) % 2 = 1 <=> e # 0
         /\ (s \div 4) % 2 = 1 <=> f # 0
         /\ (s \div 2) % 2 = 1 <=> g # 0
         /\ (s \div 1) % 2 = 1 <=> h # 0
         /\ s = 0 <=> a = 0 /\ b = 0 /\ c = 0 /\ d = 0 /\ e = 0 /\ f = 0 /\ g = 0 /\ h = 0
  <1>1. s \in 0..255
    OBVIOUS
  <1>2. (s \div 128) % 2 = 1 <=> a # 0
    OBVIOUS
  <1>3. (s \div 64) % 2 = 1 <=> b # 0
    OBVIOUS
  <1>4. (s \div 32) % 2 = 1 <=> c # 0
    OBVIOUS
  <1>5. (s \div 16) % 2 = 1 <=> d # 0
    OBVIOUS
  <1>6. (s \div 8) % 2 = 1 <=> e # 0
    OBVIOUS
  <1>7. (s \div 4) % 2 = 1 <=> f # 0
    OBVIOUS
  <1>8. (s \div 2) % 2 = 1 <=> g # 0
    OBVIOUS
  <1>9. (s \div 1) % 2 = 1 <=> h # 0
    OBVIOUS
  <1>10. s = 0 <=> a = 0 /\ b = 0 /\ c = 0 /\ d = 0 /\ e = 0 /\ f = 0 /\ g = 0 /\ h = 0
    OBVIOUS
  <1> QED BY <1>1, <1>2, <1>3, <1>4, <1>5, <1>6, <1>7, <1>8, <1>9, <1>10

\* A byte of a packed row has a bit for each of its eight columns.
LEMMA PackedByte ==
  ASSUME NEW dots, NEW b \in 1..BytesPerRow
  PROVE  /\ PackRow(dots)[b] \in 0..255
         /\ \A k \in 0..7 :
              (PackRow(dots)[b] \div Bit(k)) % 2 = 1 <=> 8 * (b - 1) + k \in dots
         /\ PackRow(dots)[b] # 0 <=> \E k \in 0..7 : 8 * (b - 1) + k \in dots
  <1> DEFINE bit(k) == IF 8 * (b - 1) + k \in dots THEN Bit(k) ELSE 0
             s == PackRow(dots)[b]
  <1>1. /\ Bit(0) = 128 /\ Bit(1) = 64 /\ Bit(2) = 32 /\ Bit(3) = 16
        /\ Bit(4) = 8 /\ Bit(5) = 4 /\ Bit(6) = 2 /\ Bit(7) = 1
    BY DEF Bit
  <1>2. s = bit(0) + bit(1) + bit(2) + bit(3) + bit(4) + bit(5) + bit(6) + bit(7)
    BY Zenon DEF PackRow
  <1>3. /\ bit(0) \in {0, 128} /\ bit(1) \in {0, 64} /\ bit(2) \in {0, 32}
        /\ bit(3) \in {0, 16} /\ bit(4) \in {0, 8} /\ bit(5) \in {0, 4}
        /\ bit(6) \in {0, 2} /\ bit(7) \in {0, 1}
    BY <1>1
  <1>4. \A k \in 0..7 : bit(k) # 0 <=> 8 * (b - 1) + k \in dots
    <2> TAKE k \in 0..7
    <2>1. Bit(k) # 0
      BY <1>1
    <2> QED BY <2>1, Zenon
  <1>5. \A k \in 0..7 : k \in {0, 1, 2, 3, 4, 5, 6, 7}
    OBVIOUS
  <1> HIDE DEF bit, s
  <1>6. /\ s \in 0..255
        /\ (s \div 128) % 2 = 1 <=> bit(0) # 0
        /\ (s \div 64) % 2 = 1 <=> bit(1) # 0
        /\ (s \div 32) % 2 = 1 <=> bit(2) # 0
        /\ (s \div 16) % 2 = 1 <=> bit(3) # 0
        /\ (s \div 8) % 2 = 1 <=> bit(4) # 0
        /\ (s \div 4) % 2 = 1 <=> bit(5) # 0
        /\ (s \div 2) % 2 = 1 <=> bit(6) # 0
        /\ (s \div 1) % 2 = 1 <=> bit(7) # 0
        /\ s = 0 <=> /\ bit(0) = 0 /\ bit(1) = 0 /\ bit(2) = 0 /\ bit(3) = 0
                     /\ bit(4) = 0 /\ bit(5) = 0 /\ bit(6) = 0 /\ bit(7) = 0
    BY <1>2, <1>3, EightBits
  <1>7. \A k \in 0..7 : (s \div Bit(k)) % 2 = 1 <=> bit(k) # 0
    <2> DEFINE P(k) == (s \div Bit(k)) % 2 = 1 <=> bit(k) # 0
    <2>1. P(0) /\ P(1) /\ P(2) /\ P(3) /\ P(4) /\ P(5) /\ P(6) /\ P(7)
      BY <1>1, <1>6
    <2> HIDE DEF P
    <2>2. \A k \in 0..7 : P(k)
      BY <1>5, <2>1
    <2> QED BY <2>2 DEF P
  <1>8. s # 0 <=> \E k \in 0..7 : bit(k) # 0
    <2>1. /\ 0 \in 0..7 /\ 1 \in 0..7 /\ 2 \in 0..7 /\ 3 \in 0..7
          /\ 4 \in 0..7 /\ 5 \in 0..7 /\ 6 \in 0..7 /\ 7 \in 0..7
      OBVIOUS
    <2>2. ASSUME NEW k \in 0..7, bit(k) # 0 PROVE s # 0
      BY <1>5, <1>6, <2>2
    <2> QED BY <1>6, <2>1, <2>2
  <1> QED BY <1>4, <1>6, <1>7, <1>8, Zenon DEF s

\* A column is one bit of one byte.
LEMMA ColumnByte ==
  /\ BytesPerRow \in Nat
  /\ \A c \in Columns : \E b \in 1..BytesPerRow, k \in 0..7 :
       b = (c \div 8) + 1 /\ k = c % 8 /\ 8 * (b - 1) + k = c
  <1>1. Width \in Nat /\ Width > 0
    BY DitheringAssumption
  <1>2. BytesPerRow \in Nat
    BY <1>1 DEF BytesPerRow
  <1>3. ASSUME NEW c \in Columns
        PROVE  \E b \in 1..BytesPerRow, k \in 0..7 :
                 b = (c \div 8) + 1 /\ k = c % 8 /\ 8 * (b - 1) + k = c
    <2> DEFINE b == (c \div 8) + 1
               k == c % 8
    <2>1. c \in Nat /\ c <= Width - 1
      BY <1>1 DEF Columns
    <2>2. b \in Nat /\ b >= 1 /\ b <= BytesPerRow
      BY <1>1, <2>1 DEF BytesPerRow
    <2>3. k \in 0..7 /\ 8 * (b - 1) + k = c
      BY <2>1
    <2>4. b \in 1..BytesPerRow
      <3> HIDE DEF b
      <3> QED BY <1>2, <2>2
    <2> QED BY <2>3, <2>4
  <1> QED BY <1>2, <1>3

\* A row that was packed is read dot by dot as what it was packed from.
LEMMA PackedRow ==
  ASSUME NEW dots \in SUBSET Columns
  PROVE  /\ PackRow(dots) \in [1..BytesPerRow -> 0..255]
         /\ Dots(PackRow(dots)) = dots
         /\ Inked(PackRow(dots)) <=> dots # {}
  <1>1. PackRow(dots) \in [1..BytesPerRow -> 0..255]
    <2>1. DOMAIN PackRow(dots) = 1..BytesPerRow
          /\ PackRow(dots) = [b \in 1..BytesPerRow |-> PackRow(dots)[b]]
      BY DEF PackRow
    <2>2. \A b \in 1..BytesPerRow : PackRow(dots)[b] \in 0..255
      BY PackedByte
    <2> QED BY <2>1, <2>2, Zenon
  <1>2. ASSUME NEW c \in Columns
        PROVE  (PackRow(dots)[(c \div 8) + 1] \div Bit(c % 8)) % 2 = 1 <=> c \in dots
    <2>1. PICK b \in 1..BytesPerRow, k \in 0..7 :
            b = (c \div 8) + 1 /\ k = c % 8 /\ 8 * (b - 1) + k = c
      BY <1>2, ColumnByte, Zenon
    <2>2. (PackRow(dots)[b] \div Bit(k)) % 2 = 1 <=> 8 * (b - 1) + k \in dots
      BY <2>1, PackedByte, Zenon
    <2> QED BY <2>1, <2>2, Zenon
  <1>3. Dots(PackRow(dots)) = dots
    BY <1>2, Zenon DEF Dots
  <1>4. Len(PackRow(dots)) = BytesPerRow
    BY <1>1, ColumnByte
  <1>5. ASSUME Inked(PackRow(dots)) PROVE dots # {}
    <2>1. PICK b \in 1..BytesPerRow : PackRow(dots)[b] # 0
      BY <1>4, <1>5, Zenon DEF Inked
    <2> QED BY <2>1, PackedByte, Zenon
  <1>6. ASSUME NEW c \in dots PROVE Inked(PackRow(dots))
    <2>0. c \in Columns
      BY <1>6
    <2>1. PICK b \in 1..BytesPerRow, k \in 0..7 : 8 * (b - 1) + k = c
      BY <2>0, ColumnByte, Zenon
    <2>2. PackRow(dots)[b] # 0
      BY <1>6, <2>1, PackedByte, Zenon
    <2> QED BY <1>4, <2>1, <2>2, Zenon DEF Inked
  <1> QED BY <1>1, <1>3, <1>5, <1>6, Zenon

\* A blank row has no dots.
LEMMA BlankRow == Dots([b \in 1..BytesPerRow |-> 0]) = {}
  <1> DEFINE row == [b \in 1..BytesPerRow |-> 0]
  <1> SUFFICES ASSUME NEW c \in Columns
               PROVE  (row[(c \div 8) + 1] \div Bit(c % 8)) % 2 # 1
    BY Zenon DEF Dots
  <1>1. PICK b \in 1..BytesPerRow, k \in 0..7 : b = (c \div 8) + 1 /\ k = c % 8
    BY ColumnByte, Zenon
  <1>2. row[b] = 0
    BY Zenon
  <1>3. Bit(k) \in Nat /\ Bit(k) > 0
    BY DEF Bit
  <1> HIDE DEF row
  <1>4. (0 \div Bit(k)) % 2 # 1
    <2>1. \A m \in Nat : m > 0 => 0 \div m = 0
      OBVIOUS
    <2> QED BY <1>3, <2>1
  <1> QED BY <1>1, <1>2, <1>4, Zenon

\* Some of n positions have a first and a last one.
LEMMA FirstAndLast ==
  ASSUME NEW n \in Nat, NEW S \in SUBSET (1..n), S # {}
  PROVE  /\ Min(S) \in S /\ Max(S) \in S
         /\ \A i \in S : Min(S) <= i /\ i <= Max(S)
  <1>1. ASSUME NEW T \in SUBSET Nat, T # {} PROVE \E m \in T : \A i \in T : m <= i
    <2>1. PICK m \in T : \A i \in T : ~(<<i, m>> \in OpToRel(<, Nat))
      <3>1. IsWellFoundedOn(OpToRel(<, Nat), Nat)
        BY NatLessThanWellFounded
      <3> QED BY <1>1, <3>1, WFMin
    <2>2. ASSUME NEW i \in T PROVE m <= i
      <3>1. i \in Nat /\ m \in Nat
        BY <1>1
      <3>2. i < m => <<i, m>> \in OpToRel(<, Nat)
        BY <3>1 DEF OpToRel
      <3>3. ~(i < m)
        BY <2>1, <3>2
      <3> QED BY <3>1, <3>3
    <2> QED BY <2>2
  <1>2. \A i \in S : i \in 1..n
    OBVIOUS
  <1>3. \E m \in S : \A i \in S : m <= i
    <2>1. S \in SUBSET Nat
      BY <1>2
    <2> QED BY <1>1, <2>1
  <1>4. \E m \in S : \A i \in S : m >= i
    <2> DEFINE T == {n - i : i \in S}
    <2>1. T \in SUBSET Nat /\ T # {}
      <3>1. \A i \in S : n - i \in Nat
        BY <1>2
      <3> QED BY <3>1
    <2>2. PICK t \in T : \A j \in T : t <= j
      <3> HIDE DEF T
      <3> QED BY <1>1, <2>1
    <2>3. PICK m \in S : t = n - m
      BY <2>2
    <2>4. ASSUME NEW i \in S PROVE m >= i
      <3>1. n - i \in T /\ i \in 1..n /\ m \in 1..n
        BY <1>2, <2>3
      <3>2. n - m <= n - i
        BY <2>2, <2>3, <3>1
      <3> QED BY <3>1, <3>2
    <2> QED BY <2>4
  <1>5. Min(S) \in S /\ \A i \in S : Min(S) <= i
    BY <1>3, Zenon DEF Min
  <1>6. Max(S) \in S /\ \A i \in S : Max(S) >= i
    BY <1>4, Zenon DEF Max
  <1>7. \A i \in S : i <= Max(S)
    <2> DEFINE m == Max(S)
    <2>1. m \in S /\ \A i \in S : m >= i
      BY <1>6
    <2> HIDE DEF m
    <2>2. ASSUME NEW i \in S PROVE i <= m
      <3>1. m \in 1..n /\ i \in 1..n /\ m >= i
        BY <1>2, <2>1
      <3> QED BY <3>1
    <2> QED BY <2>2 DEF m
  <1> QED BY <1>5, <1>6, <1>7

\* Trimming keeps the rows from the first with a dot to the last, and all their dots.
LEMMA Trimmed ==
  ASSUME NEW n \in Nat, NEW dots \in SUBSET ((1..n) \X Columns), NEW rs,
         rs = [r \in 1..n |-> PackRow({c \in Columns : <<r, c>> \in dots})]
  PROVE  LET kept == trim_blank_rows(rs)
         IN /\ kept \in Seq([1..BytesPerRow -> 0..255])
            /\ [i \in 1..Len(kept) |-> Dots(kept[i])] = InkedRows(dots)
  <1> DEFINE row(r) == {c \in Columns : <<r, c>> \in dots}
             kept == trim_blank_rows(rs)
             ys == {p[1] : p \in dots}
             S == [1..BytesPerRow -> 0..255]
  <1>1. \A r \in 1..n : /\ rs[r] = PackRow(row(r)) /\ rs[r] \in S
                        /\ Dots(rs[r]) = row(r) /\ (Inked(rs[r]) <=> row(r) # {})
    <2> TAKE r \in 1..n
    <2>1. rs[r] = PackRow(row(r)) /\ row(r) \in SUBSET Columns
      OBVIOUS
    <2> HIDE DEF row
    <2> QED BY <2>1, PackedRow, Zenon
  <1>2. Len(rs) = n
    OBVIOUS
  <1>3. \A r : r \in ys <=> r \in 1..n /\ row(r) # {}
    <2>1. \A p \in dots : p[1] \in 1..n /\ p[2] \in Columns /\ p = <<p[1], p[2]>>
      OBVIOUS
    <2>2. ASSUME NEW p \in dots PROVE p[1] \in 1..n /\ row(p[1]) # {}
      BY <2>1
    <2>3. ASSUME NEW r \in 1..n, row(r) # {} PROVE r \in ys
      <3>1. PICK c \in Columns : <<r, c>> \in dots
        BY <2>3
      <3>2. <<r, c>>[1] = r
        OBVIOUS
      <3> QED BY <3>1, <3>2
    <2> HIDE DEF row
    <2> QED BY <2>2, <2>3
  <1>4. {i \in 1..Len(rs) : Inked(rs[i])} = ys
    <2> HIDE DEF row, ys
    <2> QED BY <1>1, <1>2, <1>3
  <1> DEFINE a == Min(ys)
             z == Max(ys)
  <1>5. kept = IF ys = {} THEN <<>> ELSE SubSeq(rs, a, z)
    BY <1>4, Zenon DEF trim_blank_rows
  <1>6. InkedRows(dots) = IF ys = {} THEN <<>> ELSE [i \in 1..(z - a + 1) |-> row(a + i - 1)]
    BY Zenon DEF InkedRows
  <1>7. CASE ys = {}
    <2> HIDE DEF S, ys, row
    <2>1. kept = <<>> /\ InkedRows(dots) = <<>>
      BY <1>5, <1>6, <1>7
    <2> HIDE DEF kept
    <2>2. [i \in 1..Len(kept) |-> Dots(kept[i])] = <<>>
      BY <2>1
    <2>3. kept \in Seq(S)
      BY <2>1
    <2> QED BY <2>1, <2>2, <2>3 DEF S, kept
  <1>8. CASE ys # {}
    <2>1. ys \in SUBSET (1..n)
      BY <1>3, Zenon
    <2>2. a \in 1..n /\ z \in 1..n /\ a <= z
      <3> HIDE DEF ys
      <3>1. a \in ys /\ z \in ys /\ \A i \in ys : a <= i /\ i <= z
        BY <1>8, <2>1, FirstAndLast
      <3> QED BY <2>1, <3>1
    <2> HIDE DEF S, ys, row, a, z
    <2> DEFINE m == z - a + 1
    <2>3. kept = SubSeq(rs, a, z) /\ InkedRows(dots) = [i \in 1..m |-> row(a + i - 1)]
      BY <1>5, <1>6, <1>8
    <2>4. \A i \in a..z : rs[i] \in S
      BY <1>1, <2>2
    <2>5. /\ SubSeq(rs, a, z) \in Seq(S) /\ Len(SubSeq(rs, a, z)) = m
          /\ \A i \in 1..m : SubSeq(rs, a, z)[i] = rs[a + i - 1]
      <3>1. a \in Int /\ z \in Int /\ a <= z
        BY <2>2
      <3>2. rs \in Seq(S)
        BY <1>1
      <3> QED BY <1>2, <2>2, <3>1, <3>2, Piece
    <2>6. \A i \in 1..m : Dots(rs[a + i - 1]) = row(a + i - 1)
      <3> TAKE i \in 1..m
      <3>1. a + i - 1 \in 1..n
        BY <2>2
      <3> QED BY <1>1, <3>1
    <2> HIDE DEF m, kept
    <2>7. kept \in Seq(S) /\ Len(kept) = m /\ \A i \in 1..m : kept[i] = rs[a + i - 1]
      BY <2>3, <2>5
    <2>8. \A i \in 1..m : Dots(kept[i]) = row(a + i - 1)
      BY <2>6, <2>7
    <2>9. [i \in 1..Len(kept) |-> Dots(kept[i])] = [i \in 1..m |-> row(a + i - 1)]
      BY <2>7, <2>8
    <2> QED BY <2>3, <2>7, <2>9 DEF kept, S
  <1> QED BY <1>7, <1>8, Zenon

-----------------------------------------------------------------------------
(* The receipt. *)

\* The rows of a receipt, dot by dot.
Drawn(rs) == [i \in 1..Len(rs) |-> Dots(rs[i])]

\* Rows put one behind the other are read one behind the other.
LEMMA DrawnConcat ==
  ASSUME NEW S, NEW a \in Seq(S), NEW b \in Seq(S)
  PROVE  /\ Drawn(a) \in Seq(SUBSET Columns) /\ Len(Drawn(a)) = Len(a)
         /\ Drawn(a \o b) = Drawn(a) \o Drawn(b)
  <1> DEFINE f == Drawn(a)
             g == Drawn(b)
             c == a \o b
             h == Drawn(c)
             T == SUBSET Columns
  <1>1. \A r : Dots(r) \in T
    BY DEF Dots
  <1>2. /\ Len(a) \in Nat /\ Len(b) \in Nat
        /\ c \in Seq(S) /\ Len(c) = Len(a) + Len(b)
        /\ \A i \in 1..Len(c) : c[i] = IF i <= Len(a) THEN a[i] ELSE b[i - Len(a)]
    BY LenProperties, ConcatProperties
  <1> HIDE DEF c, T
  <1>3. f \in Seq(T) /\ Len(f) = Len(a) /\ \A i \in 1..Len(a) : f[i] = Dots(a[i])
    BY <1>1, <1>2 DEF Drawn
  <1>4. g \in Seq(T) /\ Len(g) = Len(b) /\ \A i \in 1..Len(b) : g[i] = Dots(b[i])
    BY <1>1, <1>2 DEF Drawn
  <1>5. h \in Seq(T) /\ Len(h) = Len(c) /\ \A i \in 1..Len(c) : h[i] = Dots(c[i])
    BY <1>1, <1>2 DEF Drawn
  <1> HIDE DEF f, g, h
  <1>6. h = f \o g
    <2> DEFINE k == f \o g
    <2>1. /\ k \in Seq(T) /\ Len(k) = Len(a) + Len(b)
          /\ \A i \in 1..Len(k) : k[i] = IF i <= Len(a) THEN f[i] ELSE g[i - Len(a)]
      <3>1. f \in Seq(T) /\ g \in Seq(T)
        BY <1>3, <1>4
      <3>2. /\ k \in Seq(T) /\ Len(k) = Len(f) + Len(g)
            /\ \A i \in 1..Len(k) : k[i] = IF i <= Len(f) THEN f[i] ELSE g[i - Len(f)]
        BY <3>1, ConcatProperties
      <3> QED BY <1>3, <1>4, <3>2
    <2> HIDE DEF k
    <2>2. ASSUME NEW i \in 1..Len(h) PROVE h[i] = k[i]
      <3>1. i \in 1..Len(c) /\ i \in 1..Len(k)
        BY <1>2, <1>5, <2>1
      <3>2. CASE i <= Len(a)
        BY <1>2, <1>3, <1>5, <2>1, <3>1, <3>2
      <3>3. CASE ~(i <= Len(a))
        <4>1. i - Len(a) \in 1..Len(b)
          BY <1>2, <3>1, <3>3
        <4> QED BY <1>2, <1>4, <1>5, <2>1, <3>1, <3>3, <4>1
      <3> QED BY <3>2, <3>3
    <2>3. h = k
      BY <1>2, <1>5, <2>1, <2>2, SeqEqual
    <2> QED BY <2>3 DEF k
  <1> QED BY <1>3, <1>6 DEF f, g, h, c, T

\* The rows rs are those of the pages whose dots are ps (ReceiptFollowsInks).
Follows(rs, ps) ==
  /\ rs \in Seq([1..BytesPerRow -> 0..255])
  /\ ps \in Seq(SUBSET (Nat \X Columns))
  /\ \A i \in 1..Len(ps) : InkedRows(ps[i]) \in Seq(SUBSET Columns)
  /\ Drawn(rs) = FlattenSeq([i \in 1..Len(ps) |-> InkedRows(ps[i])])

\* Before the first page there are no rows and no dots.
LEMMA NothingFollows == Follows(<<>>, <<>>)
  <1>1. <<>> \in Seq(Seq(SUBSET Columns)) /\ <<>> \in Seq(SUBSET Columns)
    OBVIOUS
  <1>2. FlattenSeq(<<>>) = <<>>
    BY <1>1, FlattenAppend, Zenon
  <1>3. Drawn(<<>>) = <<>> /\ [i \in 1..Len(<<>>) |-> InkedRows(<<>>[i])] = <<>>
    BY DEF Drawn
  <1> DEFINE S == [1..BytesPerRow -> 0..255]
             T == SUBSET (Nat \X Columns)
  <1>4. <<>> \in Seq(S) /\ <<>> \in Seq(T)
    <2> HIDE DEF S, T
    <2> QED OBVIOUS
  <1>5. 1..Len(<<>>) = {}
    OBVIOUS
  <1> QED BY <1>2, <1>3, <1>4, <1>5, Zenon DEF Follows

\* The trimmed rows of a page more are its inked rows.
LEMMA PageFollows ==
  ASSUME NEW rs, NEW ps, Follows(rs, ps), NEW n \in Nat, NEW dots \in SUBSET ((1..n) \X Columns),
         NEW page, page = [r \in 1..n |-> PackRow({c \in Columns : <<r, c>> \in dots})]
  PROVE  Follows(rs \o trim_blank_rows(page), Append(ps, dots))
  <1> DEFINE S == [1..BytesPerRow -> 0..255]
             T == SUBSET (Nat \X Columns)
             kept == trim_blank_rows(page)
             qs == Append(ps, dots)
             f == [i \in 1..Len(ps) |-> InkedRows(ps[i])]
             g == [i \in 1..Len(qs) |-> InkedRows(qs[i])]
  <1>1. kept \in Seq(S) /\ Drawn(kept) = InkedRows(dots)
    <2>1. kept \in Seq(S) /\ [i \in 1..Len(kept) |-> Dots(kept[i])] = InkedRows(dots)
      BY Trimmed
    <2> QED BY <2>1, Zenon DEF Drawn
  <1>2. rs \in Seq(S) /\ ps \in Seq(T) /\ Drawn(rs) = FlattenSeq(f)
        /\ \A i \in 1..Len(ps) : InkedRows(ps[i]) \in Seq(SUBSET Columns)
    BY Zenon DEF Follows
  <1>3. dots \in T
    OBVIOUS
  <1> HIDE DEF S, T, kept
  <1>4. /\ rs \o kept \in Seq(S) /\ Drawn(rs \o kept) = Drawn(rs) \o Drawn(kept)
        /\ Drawn(kept) \in Seq(SUBSET Columns)
    BY <1>1, <1>2, DrawnConcat, ConcatProperties
  <1>5. /\ qs \in Seq(T) /\ Len(qs) = Len(ps) + 1 /\ Len(ps) \in Nat
        /\ \A i \in 1..Len(ps) : qs[i] = ps[i]
        /\ qs[Len(ps) + 1] = dots
    BY <1>2, <1>3, AppendProperties, LenProperties
  <1> HIDE DEF qs
  <1>6. f \in Seq(Seq(SUBSET Columns)) /\ Len(f) = Len(ps)
        /\ \A i \in 1..Len(ps) : f[i] = InkedRows(ps[i])
    BY <1>2, <1>5
  <1>7. \A i \in 1..Len(qs) : InkedRows(qs[i]) \in Seq(SUBSET Columns)
    <2> TAKE i \in 1..Len(qs)
    <2>1. CASE i \in 1..Len(ps)
      BY <1>2, <1>5, <2>1
    <2>2. CASE i = Len(ps) + 1
      BY <1>1, <1>4, <1>5, <2>2
    <2> QED BY <1>5, <2>1, <2>2
  <1>8. g = Append(f, InkedRows(dots))
    <2> DEFINE h == Append(f, InkedRows(dots))
    <2>1. InkedRows(dots) \in Seq(SUBSET Columns)
      BY <1>1, <1>4
    <2>2. g \in Seq(Seq(SUBSET Columns)) /\ Len(g) = Len(qs)
          /\ \A i \in 1..Len(qs) : g[i] = InkedRows(qs[i])
      BY <1>5, <1>7
    <2> HIDE DEF f, g
    <2>3. /\ h \in Seq(Seq(SUBSET Columns)) /\ Len(h) = Len(ps) + 1
          /\ \A i \in 1..Len(ps) : h[i] = f[i]
          /\ h[Len(ps) + 1] = InkedRows(dots)
      BY <1>6, <2>1, AppendProperties
    <2> HIDE DEF h
    <2>4. ASSUME NEW i \in 1..Len(g) PROVE g[i] = h[i]
      <3>1. CASE i \in 1..Len(ps)
        BY <1>5, <1>6, <2>2, <2>3, <3>1
      <3>2. CASE i = Len(ps) + 1
        BY <1>5, <2>2, <2>3, <3>2
      <3> QED BY <1>5, <2>2, <3>1, <3>2
    <2>5. g = h
      BY <1>5, <2>2, <2>3, <2>4, SeqEqual
    <2> QED BY <2>5 DEF h
  <1> HIDE DEF f, g
  <1>9. FlattenSeq(g) = FlattenSeq(f) \o InkedRows(dots)
    <2>1. InkedRows(dots) \in Seq(SUBSET Columns)
      BY <1>1, <1>4
    <2> QED BY <1>6, <1>8, <2>1, FlattenAppend, Zenon
  <1>10. Drawn(rs \o kept) = FlattenSeq(g)
    BY <1>1, <1>2, <1>4, <1>9, Zenon
  <1> QED BY <1>4, <1>5, <1>7, <1>10, Zenon DEF Follows, S, T, kept, qs, g

\* The rows of a receipt are sequences of bytes, all of one width.
LEMMA ReceiptRows ==
  ASSUME NEW rs \in Seq([1..BytesPerRow -> 0..255])
  PROVE  rs \in Seq(Seq(Nat)) /\ \A i \in 1..Len(rs) : Len(rs[i]) = BytesPerRow
  <1> DEFINE S == [1..BytesPerRow -> 0..255]
  <1>1. \A r \in S : r \in Seq(Nat) /\ Len(r) = BytesPerRow
    <2> TAKE r \in S
    <2>1. BytesPerRow \in Nat
      BY ColumnByte
    <2>2. \A n \in 0..255 : n \in Nat
      OBVIOUS
    <2>3. r \in [1..BytesPerRow -> Nat]
      BY <2>2, Zenon
    <2> QED BY <2>1, <2>3
  <1>2. S \subseteq Seq(Nat)
    BY <1>1
  <1> HIDE DEF S
  <1>3. rs \in Seq(S)
    BY DEF S
  <1>4. rs \in Seq(Seq(Nat))
    BY <1>2, <1>3, SeqMonotonic
  <1>5. \A i \in 1..Len(rs) : rs[i] \in S
    BY <1>3, ElementOfSeq
  <1> QED BY <1>1, <1>4, <1>5

\* What the printer makes of a job are the rows it was built of, between blank
\* margins, then feed and cut.
LEMMA WholeReceipt ==
  ASSUME NEW rs \in Seq([1..BytesPerRow -> 0..255]), rs # <<>>, NEW pad \in Nat
  PROVE  LET out == Printout(build_escpos_job(rs, pad))
             n == Len(out) - 2
             margin == [i \in 1..pad |-> {}]
         IN /\ [i \in 1..n |-> Dots(out[i])] = margin \o Drawn(rs) \o margin
            /\ out[n + 1] = <<"feed", FeedLines>> /\ out[n + 2] = <<"cut">>
  <1> DEFINE w == BytesPerRow
             blank == [b \in 1..w |-> 0]
             blanks == [i \in 1..pad |-> blank]
             all == blanks \o rs \o blanks
             out == Printout(build_escpos_job(rs, pad))
             n == Len(out) - 2
             margin == [i \in 1..pad |-> {}]
             feed == <<"feed", FeedLines>>
             cut == <<"cut">>
  <1>1. w \in Nat /\ w < 256 * 256
    BY ColumnByte, PrintingAssumption
  <1>2. rs \in Seq(Seq(Nat)) /\ \A i \in 1..Len(rs) : Len(rs[i]) = w
    BY ReceiptRows
  <1>3. all \in Seq(Seq(Nat)) /\ out = all \o (<<feed>> \o <<cut>>)
    <2> HIDE DEF w
    <2> QED BY <1>1, <1>2, JobPrints
  <1>4. blank \in Seq(Nat)
    BY <1>1
  <1>5. Dots(blank) = {}
    BY BlankRow
  <1> HIDE DEF w, blank
  <1>6. blanks \in Seq(Seq(Nat))
    BY <1>4
  <1>7. Drawn(blanks) = margin
    <2>1. Len(blanks) = pad /\ \A i \in 1..pad : blanks[i] = blank
      OBVIOUS
    <2> HIDE DEF blanks
    <2> QED BY <1>5, <2>1 DEF Drawn
  <1> HIDE DEF blanks, margin
  <1>8. Drawn(all) = margin \o Drawn(rs) \o margin
    <2>1. blanks \o rs \in Seq(Seq(Nat))
      BY <1>2, <1>6, ConcatProperties
    <2>2. Drawn(all) = Drawn(blanks \o rs) \o Drawn(blanks)
      BY <1>6, <2>1, DrawnConcat
    <2>3. Drawn(blanks \o rs) = Drawn(blanks) \o Drawn(rs)
      BY <1>2, <1>6, DrawnConcat
    <2> QED BY <1>7, <2>2, <2>3, Zenon
  <1> HIDE DEF all, out
  <1> DEFINE X == Seq(Nat) \cup {feed, cut}
             end == <<feed>> \o <<cut>>
  <1>9. end \in Seq(X) /\ Len(end) = 2 /\ end[1] = feed /\ end[2] = cut
    <2> DEFINE f == feed
               c == cut
    <2>1. f \in X /\ c \in X
      OBVIOUS
    <2> HIDE DEF f, c, X
    <2>2. /\ <<f>> \in Seq(X) /\ Len(<<f>>) = 1 /\ <<f>>[1] = f
          /\ <<c>> \in Seq(X) /\ Len(<<c>>) = 1 /\ <<c>>[1] = c
      BY <2>1
    <2>3. /\ <<f>> \o <<c>> \in Seq(X) /\ Len(<<f>> \o <<c>>) = 2
          /\ (<<f>> \o <<c>>)[1] = f /\ (<<f>> \o <<c>>)[2] = c
      BY <2>2
    <2> QED BY <2>3 DEF f, c
  <1>10. all \in Seq(X)
    <2>1. Seq(Nat) \subseteq X
      OBVIOUS
    <2> HIDE DEF X
    <2> QED BY <1>3, <2>1, SeqMonotonic
  <1> HIDE DEF X, end, feed, cut
  <1>11. /\ Len(out) = Len(all) + 2 /\ Len(all) \in Nat
         /\ \A i \in 1..(Len(all) + 2) :
              out[i] = IF i <= Len(all) THEN all[i] ELSE end[i - Len(all)]
    <2>1. out = all \o end
      BY <1>3 DEF end
    <2>2. /\ Len(all \o end) = Len(all) + Len(end)
          /\ \A i \in 1..(Len(all) + Len(end)) :
               (all \o end)[i] = IF i <= Len(all) THEN all[i] ELSE end[i - Len(all)]
      BY <1>9, <1>10, ConcatProperties
    <2>3. Len(all) \in Nat
      BY <1>10, LenProperties
    <2> QED BY <1>9, <2>1, <2>2, <2>3
  <1>12. n = Len(all) /\ \A i \in 1..n : out[i] = all[i]
    BY <1>11
  <1>13. [i \in 1..n |-> Dots(out[i])] = Drawn(all)
    BY <1>12 DEF Drawn
  <1>14. out[n + 1] = feed /\ out[n + 2] = cut
    <2>1. n + 1 \in 1..(Len(all) + 2) /\ ~(n + 1 <= Len(all)) /\ (n + 1) - Len(all) = 1
          /\ n + 2 \in 1..(Len(all) + 2) /\ ~(n + 2 <= Len(all)) /\ (n + 2) - Len(all) = 2
      BY <1>11, <1>12
    <2> HIDE DEF n
    <2> QED BY <1>9, <1>11, <2>1
  <1> QED BY <1>8, <1>13, <1>14, Zenon DEF out, margin, feed, cut
=============================================================================
