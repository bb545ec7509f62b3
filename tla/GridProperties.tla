---------------------------- MODULE GridProperties ----------------------------
(***************************************************************************)
(* What a screen keeps of the text a program wrote to it.                  *)
(***************************************************************************)
EXTENDS Grid

\* The cursor is on the screen, or one past its last column; the rows fill it; the
\* region is part of it.  (term/grid.rs: Grid; every row index the code takes unchecked
\* is one of these.)  A wide glyph written to a screen one column wide takes the cursor
\* two past its first.
TypeOK ==
  /\ grid.width \in Nat \ {0} /\ grid.height \in Nat \ {0}
  /\ Len(grid.rows) = grid.height
  /\ \A i \in DOMAIN grid.rows :
       /\ grid.rows[i].cells \in [1..grid.width -> Cell]
       /\ grid.rows[i].wrapped \in BOOLEAN
  /\ grid.row \in 0..grid.height - 1 /\ grid.col \in 0..Most(grid.width, 2)
  /\ grid.saved.row \in 0..grid.height - 1
  /\ 0 <= grid.top /\ grid.top <= grid.bottom /\ grid.bottom < grid.height
  /\ grid.history.lines \in Seq(Seq(Cell \ {Filler})) /\ Len(grid.history.lines) <= Capacity
  /\ grid.history.open => grid.history.lines # <<>>
  /\ steps \in 0..program.steps

\* A wide glyph has its right half, and a right half its glyph, whatever was written,
\* erased, inserted or moved over either.  (term/row.rs: set, "keeping wide cells
\* whole".)  On a screen one column wide there is no room for both.
WideWhole ==
  grid.width > 1 =>
    \A r \in DOMAIN grid.rows : LET cells == grid.rows[r].cells IN
      \A i \in DOMAIN cells :
        /\ cells[i] \in Wide => i < grid.width /\ cells[i + 1] = Rest
        /\ cells[i] = Rest => i > 1 /\ cells[i - 1] \in Wide

\* The history's row count, kept as lines come, grow, go and are reflowed, is the one
\* a count over its lines gives.  (term/history.rs: rows_added, rows_removed.)
RowsCounted == grid.history.counted = CountRows(grid.history.lines, grid.width)

\* The view never reaches above the history, and shows the rows that are there at the
\* end of every chunk of output.  (term/grid.rs: view_offset, settle_view.)
ViewTrue ==
  /\ grid.offset <= grid.history.counted
  /\ ~grid.stale => grid.above = Refreshed(grid).above

\* Every row that the history's lines are laid out in is counted.
AllCounted(g) ==
  g.history.counted =
    Len(FlattenSeq([i \in DOMAIN g.history.lines |->
                      LineRows(g.history.lines[i], g.width)]))

\* A line whose glyphs are no more than the columns, but which the wrap puts on two
\* rows: its last glyph is wide, and a line has no right half at its end.
CountedShort(line, width) == Len(line) <= width /\ Len(Flow(line, width)) > 1

\* The view can go back to every row of history, as long as no line of it is counted
\* short.  (term/grid.rs: max_scrollback, "every history row at this width";
\* term/history.rs: rows_at, "Rows this line takes when wrapped at `width`".)
HistoryInReach ==
  (\A i \in DOMAIN grid.history.lines : ~CountedShort(grid.history.lines[i], grid.width))
    => AllCounted(grid)

\* Whatever was written, edited, scrolled and resized, the grid is one: each glyph
\* whole, every row counted and in reach, the view over rows that are there.
Sound == TypeOK /\ WideWhole /\ RowsCounted /\ ViewTrue /\ HistoryInReach

\* Text written a row at a time leaves what it leaves one glyph at a time.
\* (term/screen/text.rs: text_run's blit.)
RunsAreGlyphs ==
  \A text \in program.texts : \A autowrap \in BOOLEAN :
    TextRun(grid, text, autowrap, FALSE) =
      FoldLeft(LAMBDA g, c : WriteNew(g, c, autowrap, FALSE), grid, text)

-----------------------------------------------------------------------------
(* The text of a grid: its logical lines, without padding and right halves and   *)
(* without the blanks at a line's end.                                           *)

Glyphs(cells) == SelectSeq(cells, LAMBDA c : c \notin {Filler, Rest})

Trimmed(text) == SubSeq(text, 1, UsedLen(text))

Pieces(g) ==
  LET used == Max({g.row + 1} \cup {i \in DOMAIN g.rows : UsedLen(g.rows[i].cells) > 0})
  IN [i \in DOMAIN g.history.lines |->
        [text |-> Glyphs(g.history.lines[i]),
         goesOn |-> g.history.open /\ i = Len(g.history.lines)]]
     \o [i \in 1..used |->
          [text |-> Glyphs(g.rows[i].cells), goesOn |-> g.rows[i].wrapped /\ i < used]]

Joined(pieces) ==
  LET Join(s, p) == IF p.goesOn
                    THEN [s EXCEPT !.current = @ \o p.text]
                    ELSE [lines |-> Append(s.lines, s.current \o p.text), current |-> <<>>]
  IN FoldLeft(Join, [lines |-> <<>>, current |-> <<>>], pieces)

TextOf(g) ==
  LET lines == Joined(Pieces(g)).lines IN [i \in DOMAIN lines |-> Trimmed(lines[i])]

\* The cursor's place in the text, counted from the last line up.
CursorPlace(g) ==
  LET above == Joined(SubSeq(Pieces(g), 1, Len(g.history.lines) + g.row))
      row == g.rows[g.row + 1].cells
  IN [above |-> Len(above.lines),
      before |-> Len(above.current)
                   + Len(Glyphs(SubSeq(row, 1, Least(g.col, g.width))))]

Keeps(g, h) ==
  IF Len(h.history.lines) = Capacity THEN IsSuffix(TextOf(h), TextOf(g))
  ELSE TextOf(h) = TextOf(g)

\* No line has reached the length at which the history ends it.
NoneCut(g) == \A i \in DOMAIN g.history.lines : Len(g.history.lines[i]) < MaxLine

\* A resize keeps every line of text, whatever wrapped it, but for those a full history
\* forgets.  (term/grid.rs: set_size.)
ReflowKeepsText ==
  <<grid.width, grid.height>>' # <<grid.width, grid.height>> /\ NoneCut(grid') =>
    Keeps(grid, grid')

Earlier(p, q) == p.above < q.above \/ (p.above = q.above /\ p.before < q.before)

PaddingBefore(g) ==
  \E i \in 1..Least(g.col, g.width) : g.rows[g.row + 1].cells[i] = Filler

\* And the cursor keeps its place in the text, or is in the screen's first row when
\* that place went into history.  Padding that an edit moved before the cursor counts
\* as a cell, though it is none after a resize.  (term/grid.rs: set_size, "the cursor
\* follows its text".)
CursorFollows ==
  [][ <<grid.width, grid.height>>' # <<grid.width, grid.height>>
        /\ TextOf(grid') = TextOf(grid) /\ ~PaddingBefore(grid) =>
        \/ CursorPlace(grid') = CursorPlace(grid)
        \/ /\ ~Earlier(CursorPlace([grid' EXCEPT !.row = 0, !.col = 0]), CursorPlace(grid))
           /\ grid'.row = 0 ]_vars

Ended(text) == LET full == {i \in DOMAIN text : text[i] # <<>>}
               IN SubSeq(text, 1, Max({0} \cup full))

Scrolls ==
  /\ grid.top = 0 /\ grid.bottom = grid.height - 1
  /\ \E n \in program.counts : grid' \in {ScrollUp(grid, n), DownScrolling(grid, n)}

\* Text that scrolls off is text kept: a line feed, and a scroll of the whole screen,
\* change no line of the history and the screen together but by blank ones at the end.
\* (term/history.rs: commit.)
ScrollKeepsText ==
  Scrolls /\ NoneCut(grid') =>
    IF Len(grid'.history.lines) = Capacity
    THEN IsSuffix(Ended(TextOf(grid')), Ended(TextOf(grid)))
    ELSE Ended(TextOf(grid')) = Ended(TextOf(grid))

\* Padding shows as a blank.
Shown(rows) ==
  [i \in DOMAIN rows |->
     [k \in DOMAIN rows[i].cells |->
        IF rows[i].cells[k] = Filler THEN Blank ELSE rows[i].cells[k]]]

\* No row that is marked as going on was parted from the one it goes on in.
Unparted(g) ==
  LET GoesOn(cells, i) == \/ g.rows[i].cells[1] \in Wide
                          \/ g.rows[i].cells[1] \in Narrow /\ Len(cells) >= g.width
  IN /\ \A i \in 2..g.height :
          g.rows[i - 1].wrapped => GoesOn(Unpadded(g.rows[i - 1].cells), i)
     /\ g.history.open => GoesOn(Last(Flow(Last(g.history.lines), g.width)), 1)

\* A view that is scrolled back stays where it is while the program writes on: the
\* rows of history in it are the same ones, and new ones come after them, until
\* the history forgets or the program clears it, as long as its rows are counted right
\* and no edit parted a wrapped row from the next.  (term/grid.rs: scroll_up.)
ViewHolds ==
  [][ Output /\ Unparted(grid) /\ AllCounted(grid') /\ grid.offset > 0 /\ grid'.offset > 0
        /\ Len(grid'.history.lines) < Capacity =>
        IsPrefix(Shown(Refreshed(grid).above), Shown(Refreshed(grid').above)) ]_vars

FullRow(g) ==
  Len(Last(Flow(Last(g.history.lines), g.width))) >= g.width

\* A screen comes through an upgrade with its text and its rows as they were.  Where
\* the history's open line ends in padding it does not: what the snapshot has of that
\* row is blank.  (term/screen/snapshot.rs: grid_snapshot, restore_grid.)
UpgradeKeepsText ==
  Upgrade /\ NoneCut(grid) /\ (grid.history.open => FullRow(grid)) =>
    /\ TextOf(grid') = TextOf(grid)
    /\ <<grid'.rows, grid'.row, grid'.col>>
         = <<grid.rows, grid.row, Least(grid.col, grid.width)>>

\* No step loses or changes a line of text that is to be kept.
TextKept == [][ReflowKeepsText /\ ScrollKeepsText /\ UpgradeKeepsText]_vars
=============================================================================
