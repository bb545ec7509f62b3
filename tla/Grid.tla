-------------------------------- MODULE Grid --------------------------------
(***************************************************************************)
(* The screen of a terminal (term/grid.rs): its rows, cursor and scroll    *)
(* region, the history its rows scroll into and the view over that, as     *)
(* the program's output (term/screen), the user's scrolling, resizes and   *)
(* upgrades (term/screen/snapshot.rs) change them.                         *)
(*                                                                         *)
(* Left out: left and right margins, tab stops, styles and images, the     *)
(* marks that join a cluster, and the alternate screen, a grid of its own. *)
(***************************************************************************)
EXTENDS Lines

\* What a program may do, and bounds on it: the operations, the texts, the
\* counts, the sizes, and how many operations there are.
CONSTANT Programs

Size == [width : Nat \ {0}, height : Nat \ {0}]

Operations == {"text", "newline", "return", "reverse", "move", "place", "erase",
               "characters", "lines", "region", "origin", "cursor", "clear",
               "view", "resize", "upgrade"}

Program == [may : SUBSET Operations, texts : SUBSET Seq(Narrow \cup Wide),
            counts : SUBSET (Nat \ {0}), from : Size, sizes : SUBSET Size, steps : Nat]

ASSUME GridAssumption ==
  \A p \in Programs :
    /\ p.may \subseteq Operations /\ p.counts \subseteq Nat \ {0} /\ p.steps \in Nat
    /\ {p.from} \cup p.sizes \subseteq Size

VARIABLES
  grid,     \* the grid
  program,  \* what is done to it
  steps     \* and how often it was

vars == <<grid, program, steps>>

NewGrid(size) ==
  [width |-> size.width, height |-> size.height,
   rows |-> Repeat(BlankRow(size.width), size.height),
   history |-> NoHistory,
   offset |-> 0,         \* rows scrolled back: view_offset
   above |-> <<>>,       \* the history rows in view: view_above
   stale |-> FALSE,      \* above is not up to date: view_stale
   row |-> 0, col |-> 0, origin |-> FALSE,
   saved |-> [row |-> 0, col |-> 0, origin |-> FALSE],
   top |-> 0, bottom |-> size.height - 1]

Init ==
  /\ program \in Programs
  /\ grid = NewGrid(program.from)
  /\ steps = 0

-----------------------------------------------------------------------------
(* The view *)

Refreshed(g) ==
  [g EXCEPT !.stale = FALSE,
            !.above = IF g.offset = 0 THEN <<>>
                      ELSE RowsAbove(g.history.lines, g.offset,
                                     Least(g.offset, g.height), g.width)]

ScrolledBack(g, n) == Refreshed([g EXCEPT !.offset = Least(n, g.history.counted)])

HistoryCleared(g) ==
  [g EXCEPT !.history = NoHistory, !.offset = 0, !.above = <<>>]

-----------------------------------------------------------------------------
(* Rows that move: top and bottom are the first and last row of the range *)

MovedUp(rows, top, bottom, n, width) ==
  SubSeq(rows, 1, top) \o SubSeq(rows, top + n + 1, bottom + 1)
    \o Repeat(BlankRow(width), n) \o SubSeq(rows, bottom + 2, Len(rows))

MovedDown(rows, top, bottom, n, width) ==
  SubSeq(rows, 1, top) \o Repeat(BlankRow(width), n)
    \o SubSeq(rows, top + 1, bottom + 1 - n) \o SubSeq(rows, bottom + 2, Len(rows))

\* The rows that n lines of scrolling take off the screen.
ScrolledOff(g, n) == SubSeq(g.rows, 1, n)

\* Mutant: a view that is scrolled back moves along.
HeldOffsetNot(g, n) == g.offset

\* The view of a history that n rows were added to.
HeldOffset(g, n) == g.offset + n

\* A view that is scrolled back has to be looked up again.
Viewed(g, offset) ==
  IF g.offset = 0 THEN g
  ELSE [g EXCEPT !.offset = Least(offset, g.history.counted), !.stale = TRUE]

\* The rows of a region smaller than the screen are gone.
ScrollUp(g, count) ==
  LET n == Least(count, g.bottom - g.top + 1)
      full == g.top = 0 /\ g.bottom = g.height - 1
  IN Viewed([g EXCEPT !.rows = MovedUp(@, g.top, g.bottom, n, g.width),
                      !.history = IF full THEN CommitAll(@, ScrolledOff(g, n), g.width)
                                  ELSE @],
            IF full THEN HeldOffset(g, n) ELSE g.offset)

\* The range that moves down ends at the region's bottom.
RotateDown(g, top, n) ==
  [g EXCEPT !.rows = [MovedDown(@, top, g.bottom, n, g.width)
                        EXCEPT ![g.bottom + 1].wrapped = FALSE]]

ScrollDown(g, count) ==
  IF count = 0 THEN g ELSE RotateDown(g, g.top, Least(count, g.bottom - g.top + 1))

InRegion(g) == g.row \in g.top..g.bottom

InsertLines(g, count) ==
  IF InRegion(g) THEN RotateDown(g, g.row, Least(count, g.bottom - g.row + 1)) ELSE g

DeleteLines(g, count) ==
  LET n == Least(count, g.bottom - g.row + 1)
  IN IF InRegion(g)
     THEN [g EXCEPT !.rows = MovedUp(@, g.row, g.bottom, n, g.width)]
     ELSE g

-----------------------------------------------------------------------------
(* The cursor.  Its column may be one past the last: a pending wrap. *)

\* How far down the cursor may go.
Floor(g, inRegion) == IF inRegion THEN g.bottom ELSE g.height - 1

At(g, row, col) ==
  LET r == IF g.origin THEN row + g.top ELSE row
  IN [g EXCEPT !.row = Least(r, Floor(g, g.origin)), !.col = Least(col, g.width - 1)]

Down(g, count) == [g EXCEPT !.row = Least(@ + count, Floor(g, InRegion(g)))]

DownScrolling(g, count) ==
  LET beyond == Minus(g.row + count, Floor(g, InRegion(g)))
  IN IF InRegion(g) /\ beyond > 0 THEN ScrollUp(Down(g, count), beyond)
     ELSE Down(g, count)

Up(g, count) ==
  LET row == Minus(g.row, count)
  IN [g EXCEPT !.row = IF InRegion(g) THEN Most(row, g.top) ELSE row]

UpScrolling(g, count) ==
  LET beyond == Minus(g.top, Minus(g.row, count)) + Minus(count, g.row)
  IN IF InRegion(g) THEN ScrollDown(Up(g, count), beyond) ELSE Up(g, count)

Forward(g, count) == [g EXCEPT !.col = Least(@ + count, g.width - 1)]

\* A pending wrap is undone by the move.
Back(g, count) == [g EXCEPT !.col = Minus(Least(@, g.width - 1), count)]

Saved(g) == [g EXCEPT !.saved = [row |-> g.row, col |-> g.col, origin |-> g.origin]]

Restored(g) ==
  [g EXCEPT !.row = Least(g.saved.row, g.height - 1),
            !.col = Least(g.saved.col, g.width - 1), !.origin = g.saved.origin]

Region(g, top, bottom) ==
  LET b == Least(bottom, g.height - 1)
  IN At(IF top < b THEN [g EXCEPT !.top = top, !.bottom = b]
        ELSE [g EXCEPT !.top = 0, !.bottom = g.height - 1], 0, 0)

Origin(g, on) == At([g EXCEPT !.origin = on], 0, 0)

-----------------------------------------------------------------------------
(* Erasing and editing *)

\* The cursor's cell, from 1; under a pending wrap the row's last.
Here(g) == Least(g.col, g.width - 1) + 1

Edited(g, row) == [g EXCEPT !.rows[g.row + 1] = row]

EraseRow(g, part) ==
  LET row == g.rows[g.row + 1]
  IN Edited(g, CASE part = "forward" -> Erase(row, Here(g), g.width)
                 [] part = "backward" -> Erase(row, 1, Here(g))
                 [] part = "all" -> BlankRow(g.width))

EraseAll(g, part) ==
  LET gone == CASE part = "forward" -> g.row + 2..g.height
                [] part = "backward" -> 1..g.row
                [] part = "all" -> 1..g.height
      h == [g EXCEPT !.rows = [i \in DOMAIN @ |-> IF i \in gone THEN BlankRow(g.width)
                                                   ELSE @[i]]]
  IN IF part = "all" THEN h ELSE EraseRow(h, part)

EraseCells(g, count) ==
  Edited(g, Erase(g.rows[g.row + 1], Here(g), Least(Here(g) + count - 1, g.width)))

InsertCells(g, count) == Edited(g, InsertBlanks(g.rows[g.row + 1], Here(g), count))

RemoveCells(g, count) == Edited(g, DeleteCells(g.rows[g.row + 1], Here(g), count))

-----------------------------------------------------------------------------
(* Text *)

WriteCell(g, c) ==
  LET i == g.col + 1
      cells == Set(g.rows[g.row + 1].cells, i, c)
  IN IF g.col >= g.width THEN g
     ELSE [g EXCEPT !.rows[g.row + 1].cells =
             CASE c \notin Wide -> cells
               [] c \in Wide /\ i < g.width -> Set(cells, i + 1, Rest)
               [] c \in Wide /\ i = g.width -> Set(cells, i, Filler)]

\* The next cell goes on the next row.  Blank room that a wide glyph skips is
\* padding; the row is wrapped when the next one is right under it.
ColWrap(g) ==
  LET Pad(row) == [row EXCEPT !.cells = [i \in DOMAIN @ |->
                     IF i > g.col /\ ~HasContents(@[i]) /\ @[i] # Rest THEN Filler
                     ELSE @[i]]]
      padded == [g EXCEPT !.rows[g.row + 1] = Pad(@), !.col = 0]
      scrolled == IF InRegion(g) THEN Minus(g.row + 1, g.bottom) ELSE 0
      prev == Minus(g.row, scrolled)
  IN [DownScrolling(padded, 1)
        EXCEPT !.rows[prev + 1].wrapped = prev + 1 = Down(g, 1).row]

Written(g, c, insert) ==
  [WriteCell(IF insert THEN InsertCells(g, Span(c)) ELSE g, c) EXCEPT !.col = @ + Span(c)]

\* A glyph with no autowrap stays in the last column, where a wide one is skipped.
WriteNew(g, c, autowrap, insert) ==
  LET fits == g.col + Span(c) <= g.width
      stays == [g EXCEPT !.col = Least(@, g.width - 1)]
  IN CASE fits -> Written(g, c, insert)
       [] ~fits /\ autowrap -> Written(ColWrap(g), c, insert)
       [] ~fits /\ ~autowrap -> IF c \in Wide THEN stays ELSE Written(stays, c, insert)

\* Mutant: wide glyphs at the ends are cut.
WriteRunOver(g, text) ==
  LET first == g.col + 1
      last == g.col + Len(text)
  IN [g EXCEPT !.rows[g.row + 1].cells =
                 [i \in DOMAIN @ |-> IF i \in first..last THEN text[i - g.col] ELSE @[i]],
               !.col = last]

\* Narrow glyphs that fit in what is left of the row, all at once.
WriteRun(g, text) ==
  LET first == g.col + 1
      last == g.col + Len(text)
      cells == ClearWide(ClearWide(g.rows[g.row + 1].cells, first), last)
  IN [g EXCEPT !.rows[g.row + 1].cells =
                 [i \in DOMAIN cells |-> IF i \in first..last THEN text[i - g.col]
                                         ELSE cells[i]],
               !.col = last]

\* A glyph, and after a narrow one as many narrow ones as the row has room for.
TextRun(g, text, autowrap, insert) ==
  LET NarrowFrom(i) == Min({j \in i..Len(text) : text[j] \in Wide} \cup {Len(text) + 1}) - i
      Follow(g1, i) ==
        LET n == IF text[i] \in Wide \/ insert THEN 0
                 ELSE Least(NarrowFrom(i + 1), Minus(g1.width, g1.col))
        IN [grid |-> IF n = 0 THEN g1 ELSE WriteRun(g1, SubSeq(text, i + 1, i + n)),
            next |-> i + n + 1]
      Put(s, i) == IF i < s.next THEN s
                   ELSE Follow(WriteNew(s.grid, text[i], autowrap, insert), i)
  IN FoldLeft(Put, [grid |-> g, next |-> 1], [i \in DOMAIN text |-> i]).grid

-----------------------------------------------------------------------------
(* Resizing *)

\* Mutant: rows up to the cursor.
UsedRowsToCursor(g) == g.row + 1

\* Rows up to the last with content or the cursor.
UsedRows(g) ==
  Max({g.row + 1} \cup {i \in DOMAIN g.rows : UsedLen(g.rows[i].cells) > 0})

\* A wide cell's other half comes along.
ContentLen(cells) ==
  LET n == UsedLen(cells) IN IF n < Len(cells) /\ cells[n + 1] = Rest THEN n + 1 ELSE n

\* The logical lines of the live rows, the first going on from the history's open
\* line: the cells of each, and where the cells of each row start in them.
LiveLines(g) ==
  LET used == UsedRows(g)
      AddRow(s, i) ==
        LET row == g.rows[i]
            goesOn == row.wrapped /\ i < used
            cells == IF goesOn THEN row.cells
                     ELSE SubSeq(row.cells, 1, ContentLen(row.cells))
            line == s.current \o Unpadded(cells)
        IN [lines |-> IF goesOn THEN s.lines ELSE Append(s.lines, line),
            current |-> IF goesOn THEN line ELSE <<>>,
            starts |-> Append(s.starts, [line |-> Len(s.lines) + 1,
                                         offset |-> Len(s.current)])]
  IN FoldLeft(AddRow,
              [lines |-> <<>>, starts |-> <<>>,
               current |-> IF g.history.open THEN Last(g.history.lines) ELSE <<>>],
              [i \in 1..used |-> i])

\* Mutant: as if every row were full.
PlaceInFull(cells, offset, width) == [row |-> offset \div width, col |-> offset % width]

\* Where the cell at an offset of a line is once it is laid out.  Blanks lead to one
\* past the line's cells: at the end of a full row it is a pending wrap, further on
\* it is on rows of its own.
PlaceIn(cells, offset, width) ==
  LET upTo == Flow(SubSeq(cells, 1, offset + 1), width)
      laid == Flow(cells, width)
      room == Minus(width, Len(Last(laid)))
      past == offset - Len(cells)
  IN CASE offset < Len(cells) ->
            [row |-> Len(upTo) - 1, col |-> Len(Last(upTo)) - Span(cells[offset + 1])]
       [] offset >= Len(cells) /\ past < room ->
            [row |-> Len(laid) - 1, col |-> Len(Last(laid)) + past]
       [] offset >= Len(cells) /\ past = room ->
            [row |-> Len(laid) - 1, col |-> width]
       [] offset >= Len(cells) /\ past > room ->
            [row |-> Len(laid) + (past - room) \div width, col |-> (past - room) % width]

\* A live line laid out, with the rows the cursor at place needs.
Reflowed(cells, width, place) ==
  LET laid == Flow(cells, width)
      n == Most(Len(laid), place.row + 1)
  IN [i \in 1..n |-> [cells |-> FromCells(IF i <= Len(laid) THEN laid[i] ELSE <<>>, width),
                      wrapped |-> i < n]]

\* Lines come back from history while the screen has room, the last of them in
\* part: what does not fit of it stays.
PullBack(history, rows, size, oldWidth) ==
  LET Pull(s, i) ==
        LET line == LineRows(s.history.lines[i], size.width)
            keep == Minus(Len(line), size.height - Len(s.rows))
        IN IF s.done \/ Len(s.rows) >= size.height THEN s
           ELSE [history |-> CommitAll(PopLast(s.history, oldWidth),
                                       SubSeq(line, 1, keep), oldWidth),
                 rows |-> SubSeq(line, keep + 1, Len(line)) \o s.rows,
                 done |-> keep > 0]
  IN FoldLeft(Pull, [history |-> history, rows |-> rows, done |-> FALSE],
              Reverse([i \in DOMAIN history.lines |-> i]))

\* The live lines laid out at a new width, and where the cursor is in their rows.
Relaid(g, live, width) ==
  LET start == live.starts[g.row + 1]
      place == PlaceIn(live.lines[start.line], start.offset + Least(g.col, g.width), width)
      before == FlattenSeq([i \in 1..start.line - 1 |->
                              Reflowed(live.lines[i], width, [row |-> 0, col |-> 0])])
      from == FlattenSeq([i \in 1..Len(live.lines) - start.line |->
                            Reflowed(live.lines[start.line + i], width, [row |-> 0, col |-> 0])])
  IN [rows |-> before \o Reflowed(live.lines[start.line], width, place) \o from,
      row |-> Len(before) + place.row, col |-> place.col]

\* Rows that the screen has no room for go into history.
Overflowing(pulled, size, oldWidth) ==
  LET n == Minus(Len(pulled.rows), size.height)
      kept == CommitAll(pulled.history, SubSeq(pulled.rows, 1, n), oldWidth)
  IN [history |-> IF size.width = oldWidth THEN kept
                  ELSE [kept EXCEPT !.counted = CountRows(kept.lines, size.width)],
      rows |-> SubSeq(pulled.rows, n + 1, Len(pulled.rows))
                 \o Repeat(BlankRow(size.width), Minus(size.height, Len(pulled.rows))),
      lost |-> n]

\* The screen of a size: its last rows, and the cursor as far above their end as it
\* was in the rows laid out.
Placed(g, size, laid, pulled) ==
  LET Of(all) ==
        [g EXCEPT
           !.width = size.width, !.height = size.height,
           !.rows = all.rows, !.history = all.history,
           !.row = Least(Minus(laid.row + Len(pulled.rows) - Len(laid.rows), all.lost),
                         size.height - 1),
           !.col = Least(laid.col, size.width),
           !.saved.row = Least(@, size.height - 1),
           !.saved.col = Least(@, size.width - 1),
           !.top = 0, !.bottom = size.height - 1,
           !.offset = Least(@, all.history.counted)]
  IN Of(Overflowing(pulled, size, g.width))

Resized(g, size) ==
  LET history == IF g.history.open THEN PopLast(g.history, g.width) ELSE g.history
      Fill(laid) == Placed(g, size, laid, PullBack(history, laid.rows, size, g.width))
  IN Refreshed(Fill(Relaid(g, LiveLines(g), size.width)))

-----------------------------------------------------------------------------
(* Upgrades: the snapshot has the history as rows at the screen's width, the     *)
(* last of an open line marked wrapped, and the new image commits them again.    *)

HistoryRows(g) ==
  LET rows == FlattenSeq([i \in DOMAIN g.history.lines |->
                            LineRows(g.history.lines[i], g.width)])
  IN IF g.history.open
     THEN Front(rows) \o <<[Last(rows) EXCEPT !.wrapped = TRUE]>>
     ELSE rows

\* A snapshot has the text of a row's cells and which of the empty ones are padding;
\* an empty one after a wide one is its right half.
Decoded(row) ==
  [row EXCEPT !.cells = [i \in DOMAIN @ |->
     CASE HasContents(@[i]) -> @[i]
       [] ~HasContents(@[i]) /\ i > 1 /\ @[i - 1] \in Wide -> Rest
       [] OTHER -> IF @[i] = Filler THEN Filler ELSE Blank]]

Upgraded(g) ==
  LET DecodedAll(rows) == [i \in DOMAIN rows |-> Decoded(rows[i])]
  IN ScrolledBack(
       [NewGrid([width |-> g.width, height |-> g.height]) EXCEPT
          !.rows = DecodedAll(g.rows),
          !.history = CommitAll(NoHistory, DecodedAll(HistoryRows(g)), g.width),
          !.row = g.row, !.col = Least(g.col, g.width), !.origin = g.origin,
          !.saved = [g.saved EXCEPT !.col = Least(@, g.width)],
          !.top = g.top, !.bottom = g.bottom], g.offset)

-----------------------------------------------------------------------------
(* Steps: each operation is a sequence of the program's output, or is done     *)
(* between two chunks of it, when the view is settled.                         *)

May(operation) ==
  /\ steps < program.steps
  /\ operation \in program.may
  /\ steps' = steps + 1
  /\ UNCHANGED program

Becomes(g) == grid' = g

Text ==
  /\ May("text")
  /\ \E text \in program.texts : \E autowrap, insert \in BOOLEAN :
       Becomes(TextRun(grid, text, autowrap, insert))

LineFeed == May("newline") /\ Becomes(DownScrolling(grid, 1))

CarriageReturn == May("return") /\ Becomes([grid EXCEPT !.col = 0])

ReverseIndex == May("reverse") /\ Becomes(UpScrolling(grid, 1))

Move ==
  /\ May("move")
  /\ \E n \in program.counts :
       \/ Becomes(Up(grid, n)) \/ Becomes(Down(grid, n))
       \/ Becomes(Forward(grid, n)) \/ Becomes(Back(grid, n))

Position ==
  /\ May("place")
  /\ \E row \in 0..grid.height - 1, col \in 0..grid.width - 1 : Becomes(At(grid, row, col))

EraseDisplay ==
  /\ May("erase")
  /\ \E part \in {"forward", "backward", "all"} :
       Becomes(EraseAll(grid, part)) \/ Becomes(EraseRow(grid, part))

EditCharacters ==
  /\ May("characters")
  /\ \E n \in program.counts :
       \/ Becomes(EraseCells(grid, n)) \/ Becomes(InsertCells(grid, n))
       \/ Becomes(RemoveCells(grid, n))

EditLines ==
  /\ May("lines")
  /\ \E n \in program.counts :
       \/ Becomes(InsertLines(grid, n)) \/ Becomes(DeleteLines(grid, n))
       \/ Becomes(ScrollUp(grid, n)) \/ Becomes(ScrollDown(grid, n))

SetRegion ==
  /\ May("region")
  /\ \E top, bottom \in 0..grid.height - 1 : Becomes(Region(grid, top, bottom))

SetOrigin == May("origin") /\ \E on \in BOOLEAN : Becomes(Origin(grid, on))

SaveCursor == May("cursor") /\ (Becomes(Saved(grid)) \/ Becomes(Restored(grid)))

ClearHistory == May("clear") /\ Becomes(HistoryCleared(grid))

\* The end of a chunk of output.
Settle == grid.stale /\ Becomes(Refreshed(grid)) /\ UNCHANGED <<program, steps>>

Scroll ==
  /\ May("view")
  /\ ~grid.stale
  /\ \E n \in 0..grid.history.counted : Becomes(ScrolledBack(grid, n))

Resize ==
  /\ May("resize")
  /\ ~grid.stale
  /\ \E size \in program.sizes :
       /\ size # [width |-> grid.width, height |-> grid.height]
       /\ Becomes(Resized(grid, size))

Upgrade == May("upgrade") /\ ~grid.stale /\ Becomes(Upgraded(grid))

Output ==
  \/ Text \/ LineFeed \/ CarriageReturn \/ ReverseIndex \/ Move \/ Position
  \/ EraseDisplay \/ EditCharacters \/ EditLines \/ SetRegion \/ SetOrigin
  \/ SaveCursor \/ ClearHistory

Next == Output \/ Settle \/ Scroll \/ Resize \/ Upgrade

Spec == Init /\ [][Next]_vars
=============================================================================
