-------------------------------- MODULE Lines --------------------------------
(***************************************************************************)
(* The rows of a terminal's screen (term/row.rs) and the logical lines of  *)
(* its scrollback (term/history.rs).                                       *)
(*                                                                         *)
(* A cell is a glyph, narrow or wide, or stands for none: a blank, the     *)
(* right half of the wide glyph before it (Rest), or the padding a wide    *)
(* glyph that did not fit left at the end of its row (Filler).  Styles are *)
(* left out: every blank is a plain one.  Columns count from 0, as in the  *)
(* code; the cell at column col is cells[col + 1].                         *)
(***************************************************************************)
EXTENDS Naturals, SequencesExt

CONSTANTS Narrow, Wide, Blank, Filler, Rest,
          Capacity,  \* the lines the history keeps
          MaxLine    \* MAX_LINE_CELLS

ASSUME LinesAssumption ==
  /\ Capacity \in Nat \ {0}
  /\ MaxLine \in Nat \ {0}
  /\ Narrow \cap Wide = {}
  /\ {Blank, Filler, Rest} \cap (Narrow \cup Wide) = {}

Cell == Narrow \cup Wide \cup {Blank, Filler, Rest}

HasContents(c) == c \in Narrow \cup Wide

Span(c) == IF c \in Wide THEN 2 ELSE 1

Repeat(c, n) == [i \in 1..n |-> c]

\* A number, or 0 instead of a negative one.
Minus(m, n) == IF m > n THEN m - n ELSE 0

Least(m, n) == IF m < n THEN m ELSE n
Most(m, n) == IF m > n THEN m ELSE n

-----------------------------------------------------------------------------
(* Rows *)

BlankRow(width) == [cells |-> Repeat(Blank, width), wrapped |-> FALSE]

FromCells(cells, width) ==
  SubSeq(cells \o Repeat(Blank, Minus(width, Len(cells))), 1, width)

\* Where the other half of the wide cell at i is.
OtherHalf(cells, i) ==
  DOMAIN cells \cap (IF cells[i] \in Wide THEN {i + 1} ELSE
                     IF cells[i] = Rest THEN {i - 1} ELSE {})

ClearWide(cells, i) ==
  [j \in DOMAIN cells |-> IF j \in OtherHalf(cells, i) THEN Blank ELSE cells[j]]

Set(cells, i, c) ==
  IF i \in DOMAIN cells
  THEN [j \in DOMAIN cells |-> IF j = i THEN c ELSE ClearWide(cells, i)[j]]
  ELSE cells

EraseCell(row, i) ==
  [cells |-> Set(row.cells, i, Blank),
   wrapped |-> row.wrapped /\ i + Span(row.cells[i]) - 1 # Len(row.cells)]

\* Cells from..to of a row are erased, from the left.
Erase(row, from, to) ==
  FoldLeft(EraseCell, row, [k \in 1..Minus(to + 1, from) |-> from + k - 1])

\* The margins are the row's own, so cells leave at its end.
InsertBlanks(row, i, count) ==
  LET n == Least(count, Len(row.cells) + 1 - i)
      cells == IF row.cells[i] = Rest THEN Set(row.cells, i, Blank) ELSE row.cells
      moved == SubSeq(cells, 1, i - 1) \o Repeat(Blank, n)
                 \o SubSeq(cells, i, Len(cells) - n)
  IN [cells |-> IF Last(moved) \in Wide THEN Front(moved) \o <<Blank>> ELSE moved,
      wrapped |-> FALSE]

DeleteCells(row, i, count) ==
  LET n == Least(count, Len(row.cells) + 1 - i)
      cells == ClearWide(ClearWide(row.cells, i), i + n - 1)
  IN [cells |-> SubSeq(cells, 1, i - 1) \o SubSeq(cells, i + n, Len(cells))
                  \o Repeat(Blank, n),
      wrapped |-> FALSE]

\* Where the last cell that shows something is.
UsedLen(cells) == Max({0} \cup {i \in DOMAIN cells : HasContents(cells[i])})

Unpadded(cells) == SelectSeq(cells, LAMBDA c : c # Filler)

-----------------------------------------------------------------------------
(* Lines *)

Halves(c) == IF c \in Wide THEN <<c, Rest>> ELSE <<c>>

\* The one wrapping rule: cells laid out in rows of width, as live rows and the
\* history's lines both are.  A cell that does not fit starts the next row, and
\* the room it skips is padding.
Flow(cells, width) ==
  LET Put(laid, c) ==
        LET row == Last(laid)
        IN CASE c = Rest -> laid
             [] c # Rest /\ row # <<>> /\ Len(row) + Span(c) > width ->
                  Front(laid)
                    \o <<row \o Repeat(Filler, Minus(width, Len(row))), Halves(c)>>
             [] OTHER -> Front(laid) \o <<row \o Halves(c)>>
  IN FoldLeft(Put, << <<>> >>, cells)

LineRows(line, width) ==
  LET laid == Flow(line, width)
  IN [i \in DOMAIN laid |-> [cells |-> FromCells(laid[i], width),
                             wrapped |-> i < Len(laid)]]

\* How many rows a line is taken to have.  A line ends at its last glyph, so a
\* wide one there has no right half that would count.
RowsAt(line, width) == IF Len(line) <= width THEN 1 ELSE Len(Flow(line, width))

-----------------------------------------------------------------------------
(* History: its lines, whether the last goes on in the screen's first row, and *)
(* how many rows they take at the screen's width, kept up to date.             *)

NoHistory == [lines |-> <<>>, open |-> FALSE, counted |-> 0]

CountRows(lines, width) ==
  FoldLeft(LAMBDA n, line : n + RowsAt(line, width), 0, lines)

Appending(history) == history.open /\ history.lines # <<>>

\* A row that scrolled off goes into history.
Commit(history, row, width) ==
  LET lines == history.lines
      cells == IF row.wrapped THEN row.cells
               ELSE SubSeq(row.cells, 1, UsedLen(row.cells))
      line == (IF Appending(history) THEN Last(lines) ELSE <<>>) \o Unpadded(cells)
      kept == Append(IF Appending(history) THEN Front(lines) ELSE lines, line)
      before == IF Appending(history) THEN Minus(history.counted, RowsAt(Last(lines), width))
                ELSE history.counted
      counted == before + RowsAt(line, width)
      open == row.wrapped /\ Len(line) < MaxLine
  IN IF Len(kept) > Capacity
     THEN [lines |-> Tail(kept), open |-> open,
           counted |-> Minus(counted, RowsAt(Head(kept), width))]
     ELSE [lines |-> kept, open |-> open, counted |-> counted]

CommitAll(history, rows, width) ==
  FoldLeft(LAMBDA h, row : Commit(h, row, width), history, rows)

\* Mutant: the line's rows stay counted.
PopLastUncounted(history, width) ==
  [lines |-> Front(history.lines), open |-> FALSE, counted |-> history.counted]

PopLast(history, width) ==
  [lines |-> Front(history.lines), open |-> FALSE,
   counted |-> Minus(history.counted, RowsAt(Last(history.lines), width))]

\* The count rows that end offset rows above the screen, fewer when history runs
\* out at the top.
RowsAbove(lines, offset, count, width) ==
  LET Covered(first) == CountRows(SubSeq(lines, first, Len(lines)), width)
      first == Max({1} \cup {i \in DOMAIN lines : Covered(i) >= offset})
      below == FlattenSeq([i \in 1..Minus(Len(lines) + 1, first) |->
                             LineRows(lines[first + i - 1], width)])
      skip == Minus(Covered(first), offset)
  IN SubSeq(below, skip + 1, Least(skip + count, Len(below)))
=============================================================================
