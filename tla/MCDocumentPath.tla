--------------------------- MODULE MCDocumentPath ---------------------------
(***************************************************************************)
(* DocumentPath with pages of two rows.  Their varied pixels are at the    *)
(* right end, where the chains of errors are short enough for the exact    *)
(* arithmetic of Scale = 16^4; black dots on both sides of the border      *)
(* between the two bytes of a row never have an error.                     *)
(***************************************************************************)
EXTENDS DocumentPath

CONSTANT endless

White == [c \in Columns |-> IF c \in {7, 8} THEN 0 ELSE 255]
Blank == [c \in Columns |-> 255]

Page(a, b, c, d) ==
  <<[White EXCEPT ![14] = a, ![15] = b], [Blank EXCEPT ![14] = c, ![15] = d]>>

\* 71 and 127 make the largest errors upwards, 128 and 184 downwards.
Shades(levels) == {<<Page(a, b, c, d)>> : a, b, c, d \in levels}

MCDocuments ==
  Shades({0, 71, 127, 255}) \cup Shades({0, 128, 184, 255})
  \cup {<<>>, <<<<Blank, Blank>>>>,
        <<Page(0, 255, 255, 0), <<Blank, White, Blank>>>>}

Size(w, h) == [w |-> w, h |-> h]
Ppd(readable, label, sizes, custom) ==
  [readable |-> readable, label |-> label, dpi |-> 72, sizes |-> sizes, custom |-> custom]

\* A receipt printer of 16 points, the same with a custom length, a label printer,
\* an office printer, and a queue without a PPD.
MCPpds ==
  {Ppd(TRUE, FALSE, <<Size(16, 90), Size(16, 50)>>, None),
   Ppd(TRUE, FALSE, <<Size(16, 50)>>, [w |-> 16, min |-> 10, max |-> 60]),
   Ppd(TRUE, TRUE, <<Size(20, 90), Size(16, 50), Size(10, 50), Size(20, 30)>>, None),
   Ppd(TRUE, FALSE, <<Size(595, 842)>>, [w |-> 612, min |-> 72, max |-> 1008]),
   Ppd(FALSE, FALSE, <<>>, None)}

MCPageSizes ==
  {Size(16, 50), Size(30, 120), Size(30, 95), Size(30, 400), Size(10, 7), Size(0, 50)}
=============================================================================
