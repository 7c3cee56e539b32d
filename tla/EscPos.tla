------------------------------- MODULE EscPos -------------------------------
(***************************************************************************)
(* The ESC/POS job of a receipt (printing/escpos.py): trimmed rows, padded *)
(* with blank ones, in raster blocks small enough for the printer's        *)
(* buffer, then feed and cut.  A row is a sequence of bytes, a job one     *)
(* flat sequence of bytes.  Printout is the printer's side: it reads the   *)
(* commands back, and a byte that is not where a command should be comes   *)
(* out as garbage text.                                                    *)
(***************************************************************************)
EXTENDS Integers, Sequences, SequencesExt

CONSTANTS
  RowsPerBlock,   \* _ROWS_PER_BLOCK
  FeedLines       \* FEED_LINES

\* Each is written in the bytes its command has for it.
ASSUME EscPosAssumption ==
  /\ RowsPerBlock \in Nat /\ 0 < RowsPerBlock /\ RowsPerBlock < 256 * 256
  /\ FeedLines \in Nat /\ 0 < FeedLines /\ FeedLines < 256

Inked(row) == \E b \in 1..Len(row) : row[b] # 0

\* Variant: rows[ink[0] : ink[-1]].
trim_blank_rows_Short(rs) ==
  LET inked == {i \in 1..Len(rs) : Inked(rs[i])}
  IN IF inked = {} THEN <<>> ELSE SubSeq(rs, Min(inked), Max(inked) - 1)

trim_blank_rows(rs) ==
  LET inked == {i \in 1..Len(rs) : Inked(rs[i])}
  IN IF inked = {} THEN <<>> ELSE SubSeq(rs, Min(inked), Max(inked))

ESC == 27
GS == 29

Block(rs) ==
  LET w == Len(rs[1])
  IN <<GS, 118, 48, 0, w % 256, w \div 256, Len(rs) % 256, Len(rs) \div 256>> \o FlattenSeq(rs)

Blocks(rs) ==
  LET starts == [i \in 1..((Len(rs) + RowsPerBlock - 1) \div RowsPerBlock) |->
                   (i - 1) * RowsPerBlock + 1]
      end(s) == Min({s + RowsPerBlock - 1, Len(rs)})
  IN FlattenSeq([i \in DOMAIN starts |-> Block(SubSeq(rs, starts[i], end(starts[i])))])

build_escpos_job(rs, pad_rows) ==
  LET blank == [b \in 1..Len(rs[1]) |-> 0]
      pad == [i \in 1..pad_rows |-> blank]
  IN IF rs = <<>> THEN <<>>
     ELSE <<ESC, 64>> \o Blocks(pad \o rs \o pad)
          \o (IF FeedLines > 0 THEN <<ESC, 100, Min({255, FeedLines})>> ELSE <<>>)
          \o <<GS, 86, 1>>

-----------------------------------------------------------------------------
(* The printer. *)

\* The first command: what it puts on the paper (rows, <<"feed", n>>, <<"cut">>) and how
\* many bytes it has.  A command that is cut off is no command.
Command(bytes) ==
  LET is(code, length) ==
        length <= Len(bytes) /\ \A k \in 1..Len(code) : bytes[k] = code[k]
      w == bytes[5] + 256 * bytes[6]
      h == bytes[7] + 256 * bytes[8]
      raster == [k \in 1..h |-> SubSeq(bytes, 9 + (k - 1) * w, 8 + k * w)]
  IN IF is(<<ESC, 64>>, 2) THEN [out |-> <<>>, length |-> 2]
     ELSE IF is(<<ESC, 100>>, 3) THEN [out |-> <<<<"feed", bytes[3]>>>>, length |-> 3]
     ELSE IF is(<<GS, 86, 1>>, 3) THEN [out |-> <<<<"cut">>>>, length |-> 3]
     ELSE IF is(<<GS, 118, 48, 0>>, 8) /\ 8 + w * h <= Len(bytes)
     THEN [out |-> raster, length |-> 8 + w * h]
     ELSE [out |-> <<<<"garbage">>>>, length |-> 1]

\* What comes out of the bytes from each position on.
Printout(bytes) ==
  LET command(i) == Command(SubSeq(bytes, i, Len(bytes)))
      from[i \in 1..(Len(bytes) + 1)] ==
        IF i > Len(bytes) THEN <<>> ELSE command(i).out \o from[i + command(i).length]
  IN from[1]
=============================================================================
