-------------------------- MODULE TerminalDisplay ---------------------------
(***************************************************************************)
(* The rows a terminal remembers (terminal/buffer.c): a ring of rows of    *)
(* variable length, of which rows 0, 1, ... are on screen and rows -1,     *)
(* -2, ... are scrollback.  Each operation is an operator from a buffer    *)
(* to the buffer the C function leaves behind.                             *)
(*                                                                         *)
(* A character is [v, w, rev, cur]: its codepoint, its width in columns,   *)
(* and the two attributes that decide how a cell without a glyph looks.    *)
(* Columns count from 0 and sequences from 1: column c is chars[c + 1].    *)
(*                                                                         *)
(* And what it shows of them (terminal/display.c).  Drawing is deferred:   *)
(* each cell has at most one pending operation, NOP, COPY from another     *)
(* cell or SET to a character, and a flush carries them all out on the     *)
(* surface, copies first, in an order of its own.                          *)
(*                                                                         *)
(* A display also has two history fields the code does not have: "screen"  *)
(* is what the surface would show had every call drawn at once, and        *)
(* "kinds" the kinds of calls made so far: "set" and "wide" characters,    *)
(* copies "up", "down", "left" and "right", those that had to be "clipped" *)
(* to the display, and scrolling "behind" the rows the user looks at.      *)
(***************************************************************************)
EXTENDS Integers, Sequences, FiniteSets, FiniteSetsExt, SequencesExt

CONSTANTS Word,        \* 2^32: indices are computed in unsigned int
          MaxColumns   \* GUAC_TERMINAL_MAX_COLUMNS

\* The codepoints of a cell never written, of a cleared one, and of a cell
\* that belongs to the wide character to its left.
Blank == "blank"
Space == "space"
Continuation == "continuation"

DefaultChar == [v |-> Blank, w |-> 1, rev |-> FALSE, cur |-> FALSE]

EmptyRow == [chars |-> << >>, wrapped_row |-> FALSE]

guac_terminal_buffer_alloc(rows) ==
  [top |-> 0, length |-> 0, rows |-> [i \in 0 .. rows - 1 |-> EmptyRow]]

\* The rows keep what they hold: only the indices are reset.
guac_terminal_buffer_reset(b) == [b EXCEPT !.top = 0, !.length = 0]

Available(b) == Cardinality(DOMAIN b.rows)

NoRow == -1

\* Where the ring keeps a row, NoRow when it has none such.
RowIndex(b, row) ==
  IF row >= Available(b) \/ -row >= Available(b)
    THEN NoRow
    ELSE ((b.top + row) % Word) % Available(b)

\* The characters of a row, none if there is no such row.
CharsAt(b, i) == IF i = NoRow THEN << >> ELSE b.rows[i].chars
guac_terminal_buffer_get_columns(b, row) == CharsAt(b, RowIndex(b, row))

\* guac_terminal_buffer_row_expand(): a row is filled up with the default
\* character, as far as rows may grow.
Expand(chars, length) ==
  IF length <= Len(chars) THEN chars
  ELSE chars \o [i \in 1 .. Min({length, MaxColumns}) - Len(chars) |-> DefaultChar]

FitColumn(c) == IF c < 0 THEN 0 ELSE IF c >= MaxColumns THEN MaxColumns - 1 ELSE c

\* Clearing what a break leaves of a character: columns s to e.
ClearBroken(chars, s, e) ==
  [i \in 1 .. Len(chars) |->
     IF i - 1 \in s .. e THEN [chars[s + 1] EXCEPT !.v = Space, !.w = 1] ELSE chars[i]]

\* Columns s to e should be one character: what is left of another is cleared.
Mend(chars, s, e) ==
  IF chars[s + 1].v = Continuation \/ chars[s + 1].w # e - s + 1
    THEN ClearBroken(chars, s, e) ELSE chars

\* Likewise, but past the character that begins at "head" if it ends before e.
MendFrom(chars, head, e) ==
  Mend(chars, IF chars[head + 1].v # Continuation /\ chars[head + 1].w < e - head + 1
                THEN head + chars[head + 1].w ELSE head, e)

\* The column where the character that covers column c begins.
HeadOf(chars, c) == Max({k \in 0 .. c : k = 0 \/ chars[k + 1].v # Continuation})

\* The character left of an edge must end there.
BreakLeft(chars, edge) ==
  IF edge <= 0 THEN chars ELSE MendFrom(chars, HeadOf(chars, edge - 1), edge - 1)

\* The character right of it must begin there.
BreakRight(chars, edge) ==
  IF edge < 0 \/ edge >= Len(chars)
    THEN chars
    ELSE MendFrom(chars, edge, Max({c \in edge .. Len(chars) - 1 :
                                     \A i \in edge + 1 .. c : chars[i + 1].v = Continuation}))

guac_terminal_buffer_force_break(chars, edge) == BreakRight(BreakLeft(chars, edge), edge)

\* A character and the continuations of a wide one, over columns s to e.
Fill(chars, s, e, ch) ==
  [i \in 1 .. Len(chars) |->
     IF i - 1 \notin s .. e THEN chars[i]
     ELSE IF (i - 1 - s) % ch.w = 0 THEN ch
     ELSE [ch EXCEPT !.v = Continuation, !.w = 0]]

\* A row's new characters.  A row that now holds text is in use, and so are
\* those above it; the comparison is one of unsigned numbers.
WithChars(b, row, chars, text) ==
  [b EXCEPT !.rows[RowIndex(b, row)].chars = chars,
            !.length = IF text /\ (row % Word) >= @ THEN (row + 1) % Word ELSE @]

\* A row with new characters in columns s to e, whose neighbours are broken off.
WithBroken(b, row, chars, whole, text) == WithChars(b, row, whole, text \/ whole # chars)
WithNew(b, row, chars, s, e, text) ==
  WithBroken(b, row, chars,
    guac_terminal_buffer_force_break(guac_terminal_buffer_force_break(chars, s), e + 1), text)

SetColumns(b, row, s, e, ch) ==
  WithNew(b, row, Fill(Expand(guac_terminal_buffer_get_columns(b, row), e + 1), s, e, ch), s, e,
          ch.v # Blank)

guac_terminal_buffer_set_columns(b, row, start_column, end_column, ch) ==
  IF ch.w <= 0 \/ RowIndex(b, row) = NoRow
    THEN b
    ELSE SetColumns(b, row, FitColumn(start_column), FitColumn(end_column), ch)

guac_terminal_buffer_set_cursor(b, row, column, is_cursor) ==
  IF RowIndex(b, row) = NoRow
    THEN b
    ELSE [b EXCEPT !.rows[RowIndex(b, row)].chars =
            [Expand(@, FitColumn(column) + 1) EXCEPT ![FitColumn(column) + 1].cur = is_cursor]]

\* guac_terminal_fit_to_range() for both ends of a range to be moved by an
\* offset within 0 .. size - 1.  It asserts that the range is not empty.
Low(offset) == IF offset >= 0 THEN 0 ELSE -offset
High(offset, size) == IF offset >= 0 THEN size - offset - 1 ELSE size - 1
CanFit(offset, size) == Low(offset) <= High(offset, size)
FitStart(start, offset, size) == Max({Low(offset), Min({start, High(offset, size)})})
FitEnd(start, end, offset, size) ==
  Max({FitStart(start, offset, size), Min({end, High(offset, size)})})

\* Whether the row is long enough for the ranges of a copy to make sense
\* (the assertions of guac_terminal_fit_to_range()).
CanCopyColumns(b, row, start_column, end_column, offset) ==
  LET length == Len(Expand(guac_terminal_buffer_get_columns(b, row), end_column + offset + 1))
  IN  \/ RowIndex(b, row) = NoRow
      \/ length >= end_column + offset + 1 /\ CanFit(offset, length)

\* Columns s to e of a row moved by an offset.
MoveColumns(b, row, chars, s, e, offset) ==
  WithNew(b, row, [k \in 1 .. Len(chars) |->
                     IF k - 1 \in s + offset .. e + offset THEN chars[k - offset] ELSE chars[k]],
          s + offset, e + offset, FALSE)

CopyColumns(b, row, chars, start_column, end_column, offset) ==
  MoveColumns(b, row, chars, FitStart(start_column, offset, Len(chars)),
              FitEnd(start_column, end_column, offset, Len(chars)), offset)

guac_terminal_buffer_copy_columns(b, row, start_column, end_column, offset) ==
  IF RowIndex(b, row) = NoRow
    THEN b
    ELSE CopyColumns(b, row, Expand(guac_terminal_buffer_get_columns(b, row), end_column + offset + 1),
                     start_column, end_column, offset)

\* One row onto another, which takes over whether it wraps.
CopyRow(b, row, offset) ==
  LET src == RowIndex(b, row)
      dst == RowIndex(b, row + offset)
  IN  IF NoRow \in {src, dst}
        THEN b
        ELSE [b EXCEPT !.rows = [@ EXCEPT ![dst] = b.rows[src],
                                          ![src].wrapped_row = FALSE]]

\* The rows are copied in the order that overwrites none that is still needed;
\* the first one that does not exist ends the copy, for the loop never leaves it.
guac_terminal_buffer_copy_rows(b, start_row, end_row, offset) ==
  LET n     == IF end_row < start_row THEN 0 ELSE end_row - start_row + 1
      At(k) == IF offset > 0 THEN end_row - k + 1 ELSE start_row + k - 1
      steps[k \in 0 .. n] == IF k = 0 THEN b ELSE
        IF \E j \in 1 .. k : NoRow \in {RowIndex(b, At(j)), RowIndex(b, At(j) + offset)}
          THEN steps[k - 1] ELSE CopyRow(steps[k - 1], At(k), offset)
  IN  steps[n]

MutantScrollUpBack(b, amount) ==
  IF amount <= 0
    THEN b
    ELSE [b EXCEPT !.top = (@ - amount) % Available(b), !.length = Min({@ + amount, Available(b)})]

guac_terminal_buffer_scroll_up(b, amount) ==
  IF amount <= 0
    THEN b
    ELSE [b EXCEPT !.top = (@ + amount) % Available(b),
                   !.length = Min({@ + amount, Available(b)})]

guac_terminal_buffer_scroll_down(b, amount) ==
  IF amount <= 0 THEN b ELSE [b EXCEPT !.top = ((@ - amount) % Word) % Available(b)]

guac_terminal_buffer_effective_length(b, scrollback) == Min({b.length, scrollback})

guac_terminal_buffer_set_wrapped(b, row, wrapped) ==
  IF RowIndex(b, row) = NoRow THEN b
  ELSE [b EXCEPT !.rows[RowIndex(b, row)].wrapped_row = wrapped]

-----------------------------------------------------------------------------

CONSTANT WideGlyphs   \* the codepoints that take two columns

wcwidth(v) == IF v \in WideGlyphs THEN 2 ELSE 1

Nop == <<"NOP">>
Copy(row, column) == <<"COPY", row, column>>
Set(ch) == <<"SET", ch>>

HasGlyph(v) == v \notin {Blank, Space, Continuation}

\* What a cell looks like: the glyph, if any, which of a wide glyph's columns
\* it is, and whether foreground and background change places.
Cell(v, part, inverse) == [v |-> v, part |-> part, inverse |-> inverse]
LookOf(ch, part) ==
  Cell(IF HasGlyph(ch.v) THEN ch.v ELSE Blank, part, ch.rev # ch.cur)

EmptyCell == LookOf(DefaultChar, 0)

\* The columns a character covers when it is drawn at a column.
Covered(d, ch, column) ==
  {c \in column .. column + wcwidth(ch.v) - 1 : c < d.width}

\* A grid after drawing a character.
Paint(d, grid, row, column, ch) ==
  [grid EXCEPT ![row] = [c \in DOMAIN @ |->
     IF c \in Covered(d, ch, column) THEN LookOf(ch, c - column) ELSE @[c]]]

Grid(width, height, value) == [r \in 0 .. height - 1 |-> [c \in 0 .. width - 1 |-> value]]

guac_terminal_display_alloc ==
  [width |-> 0, height |-> 0, operations |-> Grid(0, 0, Nop), surface |-> Grid(0, 0, EmptyCell),
   unflushed_set |-> FALSE, selection |-> << >>, assert_failed |-> FALSE,
   screen |-> Grid(0, 0, EmptyCell), kinds |-> {}]

-----------------------------------------------------------------------------
(* Flushing *)

\* The cells in the order the loops over rows and columns visit them.
Cells(d) == [i \in 1 .. d.width * d.height |-> <<(i - 1) \div d.width, (i - 1) % d.width>>]

\* How many cells from <<row, column>> on are copies of consecutive cells,
\* beginning with the given source.
Run(d, row, column, src_row, src_column) ==
  Max({n \in 0 .. d.width - column :
         \A k \in 0 .. n - 1 : d.operations[row][column + k] = Copy(src_row, src_column + k)})

\* One COPY: the rectangle of copies that begins at the cell is done at once.
CopyRect(d, rect, rows, cols) ==
  [d EXCEPT
     !.operations = [r \in DOMAIN @ |-> [c \in DOMAIN @[r] |->
        IF r - rect.row \in rows /\ c - rect.col \in cols THEN Nop ELSE @[r][c]]],
     !.surface = [r \in DOMAIN @ |-> [c \in DOMAIN @[r] |->
        IF r - rect.row \in rows /\ c - rect.col \in cols
          THEN @[r - rect.row + rect.op[2]][c - rect.col + rect.op[3]] ELSE @[r][c]]]]

CopyWide(d, rect, width) ==
  CopyRect(d, rect, 0 .. Max({n \in 0 .. d.height - rect.row - 1 : \A k \in 0 .. n :
                       Run(d, rect.row + k, rect.col, rect.op[2] + k, rect.op[3]) >= width}),
           0 .. width - 1)

FlushCopyAt(d, at) ==
  LET op == d.operations[at[1]][at[2]]
  IN  IF op[1] # "COPY"
        THEN d
        ELSE CopyWide(d, [row |-> at[1], col |-> at[2], op |-> op], Run(d, at[1], at[2], op[2], op[3]))

__guac_terminal_display_flush_copy(d) == FoldLeft(FlushCopyAt, d, Cells(d))

\* Cells set to no glyph are cleared; rectangles of one colour are merged,
\* which changes nothing but the number of instructions.
__guac_terminal_display_flush_clear(d) ==
  LET clear(op) == op[1] = "SET" /\ ~HasGlyph(op[2].v)
  IN  [d EXCEPT
         !.operations = [r \in DOMAIN @ |-> [c \in DOMAIN @[r] |->
            IF clear(@[r][c]) THEN Nop ELSE @[r][c]]],
         !.surface = [r \in DOMAIN @ |-> [c \in DOMAIN @[r] |->
            IF clear(d.operations[r][c]) THEN LookOf(d.operations[r][c][2], 0) ELSE @[r][c]]]]

\* One glyph is drawn over the columns it takes.
FlushSetAt(d, at) ==
  LET op == d.operations[at[1]][at[2]]
  IN  IF op[1] # "SET"
        THEN d
        ELSE [d EXCEPT !.operations[at[1]][at[2]] = Nop,
                       !.surface = Paint(d, @, at[1], at[2], op[2])]

__guac_terminal_display_flush_set(d) ==
  [FoldLeft(FlushSetAt, d, Cells(d)) EXCEPT !.unflushed_set = FALSE]

\* Mutant: characters are drawn before copies are made.
MutantFlush(d) ==
  __guac_terminal_display_flush_copy(
    __guac_terminal_display_flush_set(
      __guac_terminal_display_flush_clear(d)))

guac_terminal_display_flush_operations(d) ==
  __guac_terminal_display_flush_set(
    __guac_terminal_display_flush_clear(
      __guac_terminal_display_flush_copy(d)))

-----------------------------------------------------------------------------
(* Drawing *)

Fails(d) == [d EXCEPT !.assert_failed = TRUE]

\* What a NOP becomes when it is moved: a copy of the cell it was moved from.
Moved(op, row, column) == IF op = Nop THEN Copy(row, column) ELSE op

\* The kind of a copy: up or down, left or right.
Kind(offset, back, forth) == IF offset < 0 THEN back ELSE forth

guac_terminal_display_copy_columns(d, row, start_column, end_column, offset) ==
  LET s == FitStart(start_column, offset, d.width)
      e == FitEnd(start_column, end_column, offset, d.width)
      To(c) == c \in s + offset .. e + offset
  IN  IF row \notin 0 .. d.height - 1 THEN d
      ELSE IF ~CanFit(offset, d.width) THEN Fails(d)
      ELSE [d EXCEPT
              !.operations[row] = [c \in DOMAIN @ |->
                 IF To(c) THEN Moved(@[c - offset], row, c - offset) ELSE @[c]],
              !.screen[row] = [c \in DOMAIN @ |-> IF To(c) THEN @[c - offset] ELSE @[c]],
              !.kinds = @ \cup {Kind(offset, "left", "right")}]

\* The rows in "to" become what was "offset" rows before them.
MoveRows(d, to, offset, kinds) ==
  [d EXCEPT
     !.operations = [r \in DOMAIN @ |->
        IF r \in to THEN [c \in DOMAIN @[r] |-> Moved(@[r - offset][c], r - offset, c)] ELSE @[r]],
     !.screen = [r \in DOMAIN @ |-> IF r \in to THEN @[r - offset] ELSE @[r]],
     !.kinds = @ \cup kinds]

guac_terminal_display_copy_rows(d, start_row, end_row, offset) ==
  LET s == FitStart(start_row, offset, d.height)
      e == FitEnd(start_row, end_row, offset, d.height)
      clipped == IF s = start_row /\ s <= end_row THEN {} ELSE {"clipped"}
  IN  IF ~CanFit(offset, d.height) THEN Fails(d)
      ELSE MoveRows(IF d.unflushed_set /\ offset > 0 THEN guac_terminal_display_flush_operations(d) ELSE d,
                    s + offset .. e + offset, offset, {Kind(offset, "up", "down")} \cup clipped)

\* One column of guac_terminal_display_set_columns(): a copy pending in the
\* cell is carried out before it is forgotten.
SetAt(row, ch, d, column) ==
  [(IF d.operations[row][column][1] = "COPY" THEN guac_terminal_display_flush_operations(d) ELSE d)
     EXCEPT !.operations[row][column] = Set(ch),
            !.screen = Paint(d, @, row, column, ch),
            !.kinds = @ \cup {IF ch.w > 1 THEN "wide" ELSE "set"}]

\* Columns s to e, which are on the display.
SetInside(d, row, s, e, ch) ==
  FoldLeft(LAMBDA g, column : SetAt(row, ch, g, column), d,
           [k \in 1 .. (IF e < s THEN 0 ELSE (e - s) \div ch.w + 1) |-> s + (k - 1) * ch.w])

guac_terminal_display_set_columns(d, row, start_column, end_column, ch) ==
  LET fit(c) == Max({0, Min({c, d.width - 1})})
  IN  IF ch.w = 0 \/ row \notin 0 .. d.height - 1 THEN d
      ELSE IF d.width = 0 THEN Fails(d)
      ELSE [SetInside(d, row, fit(start_column), fit(end_column), ch) EXCEPT
              !.unflushed_set = @ \/ row \in 1 .. d.height - 2,
              !.kinds = IF fit(start_column) = start_column THEN @ ELSE @ \cup {"clipped"}]

\* The new cells are filled; what was pending in the others is forgotten.
guac_terminal_display_resize(d, width, height) ==
  LET old(r, c) == r < d.height /\ c < d.width
  IN  IF width = d.width /\ height = d.height
        THEN d
        ELSE [d EXCEPT
                !.width = width, !.height = height,
                !.operations = [r \in 0 .. height - 1 |-> [c \in 0 .. width - 1 |->
                   IF old(r, c) THEN Nop ELSE Set(DefaultChar)]],
                !.surface = [r \in 0 .. height - 1 |-> [c \in 0 .. width - 1 |->
                   IF old(r, c) THEN @[r][c] ELSE EmptyCell]],
                !.screen = [r \in 0 .. height - 1 |-> [c \in 0 .. width - 1 |->
                   IF old(r, c) THEN @[r][c] ELSE EmptyCell]]]

\* The rectangles of the selection, on a layer of their own.
guac_terminal_display_select(d, selection) == [d EXCEPT !.selection = selection]
guac_terminal_display_clear_select(d) == [d EXCEPT !.selection = << >>]

=============================================================================
