------------------------------ MODULE Terminal ------------------------------
(***************************************************************************)
(* A terminal (terminal/terminal.c) with its selection (select.c) and its  *)
(* scrollbar (scrollbar.c): the operations the byte handlers and the       *)
(* users' input are made of.  A terminal is a record like struct           *)
(* guac_terminal, which owns its buffers, its display and its scrollbar;   *)
(* each operation is an operator from a terminal to the terminal the C     *)
(* function leaves behind.  Colours are left out but for "reverse", which  *)
(* stands for any attribute that makes a blank cell visible.               *)
(***************************************************************************)
EXTENDS TerminalDisplay

CONSTANTS MaxRows,         \* GUAC_TERMINAL_MAX_ROWS
          MaxScrollback,   \* options->max_scrollback
          TabInterval,     \* 8
          MaxTabs,         \* GUAC_TERMINAL_MAX_TABS
          PipeBuffer,      \* sizeof(term->pipe_buffer)
          DragSteps        \* how finely the scrollbar's handle moves

Notify(t) == [t EXCEPT !.modified = TRUE]

Buffer(t) == t.buffers[t.current_buffer]

-----------------------------------------------------------------------------
(* Selection *)

\* A position is [row, col, width] of the character it falls on.
Before(p, q) == p.row < q.row \/ (p.row = q.row /\ p.col < q.col)

guac_terminal_select_normalized_range(t) ==
  LET p == t.selection_start
      q == t.selection_end
      Ends(a, b) == <<a.row, a.col, b.row, b.col + b.width - 1>>
  IN  IF Before(p, q) THEN Ends(p, q) ELSE Ends(q, p)

\* The selection is redrawn in display coordinates, or cleared.
guac_terminal_select_redraw(t) ==
  LET r == guac_terminal_select_normalized_range(t)
  IN  [t EXCEPT !.display =
         IF t.text_selected
           THEN guac_terminal_display_select(@, <<r[1] + t.scroll_offset, r[2],
                                                  r[3] + t.scroll_offset, r[4]>>)
           ELSE guac_terminal_display_clear_select(@)]

FindIn(chars, row, column) ==
  IF column \in 0 .. Len(chars) - 1 /\ chars[HeadOf(chars, column) + 1].v # Continuation
    THEN [row |-> row, col |-> HeadOf(chars, column), width |-> chars[HeadOf(chars, column) + 1].w]
    ELSE [row |-> row, col |-> column, width |-> 1]

guac_terminal_find_char(t, row, column) ==
  FindIn(guac_terminal_buffer_get_columns(Buffer(t), row), row, column)

SelectAt(t, p) ==
  Notify([t EXCEPT !.selection_start = p, !.selection_end = p,
                   !.text_selected = FALSE, !.selection_committed = FALSE])

guac_terminal_select_start(t, row, column) == SelectAt(t, guac_terminal_find_char(t, row, column))

guac_terminal_select_update(t, row, column) ==
  LET e == t.selection_end
  IN  IF row = e.row /\ column > e.col /\ column < e.col + e.width
        THEN t
        ELSE Notify([t EXCEPT !.selection_end = guac_terminal_find_char(t, row, column),
                              !.text_selected = TRUE])

\* The width of the end the selection is resumed from stays as it was.
guac_terminal_select_resume(t, row, column) ==
  LET r == guac_terminal_select_normalized_range(t)
      first == row > r[1] \/ (row = r[1] /\ column > r[2])
  IN  IF ~t.text_selected
        THEN t
        ELSE guac_terminal_select_update(
               [t EXCEPT !.selection_start.row = IF first THEN r[1] ELSE r[3],
                         !.selection_start.col = IF first THEN r[2] ELSE r[4],
                         !.selection_committed = FALSE], row, column)

\* The characters of a row from s to e: blanks before the last character are
\* spaces, those after it and continuations are dropped.
guac_terminal_clipboard_append_characters(chars, s, e) ==
  LET last == Min({e, Len(chars) - 1})
      eol  == Max({s} \cup {c \in s .. last : chars[c + 1].v # Blank})
      text == [c \in s .. last |->
                 IF chars[c + 1].v = Blank /\ c < eol THEN Space ELSE chars[c + 1].v]
  IN  IF s < 0 \/ e < 0 \/ s >= Len(chars)
        THEN << >>
        ELSE SelectSeq([i \in 1 .. last - s + 1 |-> text[s + i - 1]],
                       LAMBDA v : v \notin {Blank, Continuation})

\* The selected text: rows are joined where they wrapped, and broken by a
\* newline where they did not.
SelectedText(t) ==
  LET r   == guac_terminal_select_normalized_range(t)
      b   == Buffer(t)
      Row(row) == LET chars == guac_terminal_buffer_get_columns(b, row) IN
        guac_terminal_clipboard_append_characters(chars,
          IF row = r[1] THEN r[2] ELSE 0, IF row = r[3] THEN r[4] ELSE Len(chars) - 1)
      \* a row that is not there leaves the flag as it was
      Wrapped[row \in r[1] - 1 .. r[3]] ==
        IF row < r[1] THEN TRUE
        ELSE IF RowIndex(b, row) = NoRow THEN Wrapped[row - 1]
        ELSE b.rows[RowIndex(b, row)].wrapped_row
      Text[row \in r[1] - 1 .. r[3]] ==
        IF row < r[1] THEN << >>
        ELSE Text[row - 1] \o (IF Wrapped[row - 1] THEN << >> ELSE <<"newline">>) \o Row(row)
  IN  Text[r[3]]

guac_terminal_select_end(t) ==
  IF ~t.text_selected
    THEN t
    ELSE Notify([t EXCEPT !.selection_committed = TRUE, !.clipboard = SelectedText(t)])

guac_terminal_select_contains(t, start_row, start_column, end_row, end_column) ==
  LET r == guac_terminal_select_normalized_range(t)
  IN  /\ t.text_selected
      /\ ~ (start_row > r[3] \/ (start_row = r[3] /\ start_column > r[4]))
      /\ ~ (end_row < r[1] \/ (end_row = r[1] /\ end_column < r[2]))

\* Mutant: text changed under the highlight leaves it there.
MutantTouch(t, start_row, start_column, end_row, end_column) == t

guac_terminal_select_touch(t, start_row, start_column, end_row, end_column) ==
  IF /\ t.selection_committed
     /\ guac_terminal_select_contains(t, start_row, start_column, end_row, end_column)
    THEN Notify([t EXCEPT !.text_selected = FALSE, !.selection_committed = FALSE])
    ELSE t

-----------------------------------------------------------------------------
(* The scrollbar *)

guac_terminal_scrollbar_set_bounds(t, min, max) ==
  [t EXCEPT !.scrollbar =
     [@ EXCEPT !.value = IF @ > max THEN max ELSE IF @ < min THEN min ELSE @,
               !.min = min, !.max = max]]

guac_terminal_scrollbar_set_value(t, value) ==
  [t EXCEPT !.scrollbar.value =
     IF value > t.scrollbar.max THEN t.scrollbar.max
     ELSE IF value < t.scrollbar.min THEN t.scrollbar.min ELSE value]

guac_terminal_effective_buffer_length(t) ==
  guac_terminal_buffer_effective_length(Buffer(t),
    IF t.requested_scrollback > MaxScrollback THEN MaxScrollback
    ELSE Max({t.requested_scrollback, t.term_height}))

guac_terminal_get_available_scroll(t) ==
  guac_terminal_effective_buffer_length(t) - t.term_height

UpdateBounds(t) ==
  guac_terminal_scrollbar_set_bounds(t, -guac_terminal_get_available_scroll(t), 0)

-----------------------------------------------------------------------------
(* Writing to buffer and display at once *)

SetBoth(t, row, start_column, end_column, ch) ==
  guac_terminal_select_touch(
    [t EXCEPT !.display = guac_terminal_display_set_columns(@, row + t.scroll_offset,
                            start_column, end_column, ch),
              !.buffers[t.current_buffer] =
                 guac_terminal_buffer_set_columns(@, row, start_column, end_column, ch)],
    row, start_column, row, end_column)

\* The cursor stays on its cell, whatever is written there.
SetCursorIn(t, row, start_column, end_column, ch) ==
  LET c == t.visible_cursor_col
  IN  IF row = t.visible_cursor_row /\ c >= start_column /\ c <= end_column
        THEN SetBoth(t, row, c, c, [ch EXCEPT !.cur = TRUE])
        ELSE t

guac_terminal_set_columns(t, row, start_column, end_column, ch) ==
  SetCursorIn(SetBoth(t, row, start_column, end_column, ch), row, start_column, end_column, ch)

guac_terminal_set(t, row, col, codepoint) ==
  guac_terminal_set_columns(t, row, col, col + wcwidth(codepoint) - 1,
    [v |-> codepoint, w |-> wcwidth(codepoint), rev |-> t.reverse, cur |-> FALSE])

guac_terminal_clear_columns(t, row, start_col, end_col) ==
  guac_terminal_set_columns(t, row, start_col, end_col, [DefaultChar EXCEPT !.rev = t.reverse])

\* Whole rows.
ClearRows(t, start_row, end_row) ==
  IF start_row > end_row THEN t
  ELSE FoldLeft(LAMBDA u, row : guac_terminal_clear_columns(u, row, 0, t.term_width - 1), t,
                [i \in 1 .. end_row - start_row + 1 |-> start_row + i - 1])

\* The end of the first row, then the beginning of the last, then the rows between.
ClearHead(t, row, col) == IF col > 0 THEN guac_terminal_clear_columns(t, row, col, t.term_width - 1) ELSE t
ClearTail(t, row, col) ==
  IF col < t.term_width - 1 THEN guac_terminal_clear_columns(t, row, 0, col) ELSE t

guac_terminal_clear_range(t, start_row, start_col, end_row, end_col) ==
  ClearRows(ClearTail(ClearHead(t, start_row, start_col), end_row, end_col),
            IF start_col > 0 THEN start_row + 1 ELSE start_row,
            IF end_col < t.term_width - 1 THEN end_row - 1 ELSE end_row)

guac_terminal_copy_columns(t, row, start_column, end_column, offset) ==
  LET Copied(d) ==
        IF d.assert_failed \/ ~CanCopyColumns(Buffer(t), row, start_column, end_column, offset)
          THEN [t EXCEPT !.display = Fails(@)]
          ELSE [guac_terminal_select_touch(
                  [t EXCEPT !.display = d,
                            !.buffers[t.current_buffer] =
                              guac_terminal_buffer_copy_columns(@, row, start_column, end_column, offset)],
                  row, start_column, row, end_column) EXCEPT
                !.visible_cursor_col =
                  IF row = t.visible_cursor_row /\ @ \in start_column .. end_column
                    THEN @ + offset ELSE @]
  IN  Copied(guac_terminal_display_copy_columns(t.display, row + t.scroll_offset,
                                                start_column, end_column, offset))

guac_terminal_copy_rows(t, start_row, end_row, offset) ==
  [guac_terminal_select_touch(
     [t EXCEPT !.display = guac_terminal_display_copy_rows(@, start_row + t.scroll_offset,
                             end_row + t.scroll_offset, offset),
               !.buffers[t.current_buffer] =
                 guac_terminal_buffer_copy_rows(@, start_row, end_row, offset)],
     start_row, 0, end_row, t.term_width)
     EXCEPT !.visible_cursor_row = IF @ \in start_row .. end_row THEN @ + offset ELSE @]

-----------------------------------------------------------------------------
(* Scrolling *)

\* Scrolling the whole screen moves the top of the ring: what leaves the
\* screen is the scrollback.  Any other region is copied.
ScrollWhole(t, start_row, end_row, amount) ==
  [UpdateBounds(
     [t EXCEPT !.display = guac_terminal_display_copy_rows(@, start_row + amount, end_row, -amount),
               !.buffers[t.current_buffer] = guac_terminal_buffer_scroll_up(@, amount)]) EXCEPT
     !.display.kinds = IF t.scroll_offset = 0 THEN @ ELSE @ \cup {"behind"},
     !.visible_cursor_row = IF @ \in start_row .. end_row THEN @ - amount ELSE @,
     !.selection_start.row = IF t.text_selected THEN @ - amount ELSE @,
     !.selection_end.row = IF t.text_selected THEN @ - amount ELSE @]

guac_terminal_scroll_up(t, start_row, end_row, requested) ==
  LET amount == Min({requested, end_row - start_row + 1})
      whole  == start_row = 0 /\ end_row = t.term_height - 1
  IN  IF requested <= 0 THEN t
      ELSE guac_terminal_clear_range(
             IF whole THEN ScrollWhole(t, start_row, end_row, amount)
             ELSE guac_terminal_copy_rows(t, start_row + amount, end_row, -amount),
             end_row - amount + 1, 0, end_row, t.term_width - 1)

guac_terminal_scroll_down(t, start_row, end_row, amount) ==
  guac_terminal_clear_range(guac_terminal_copy_rows(t, start_row, end_row - amount, amount),
    start_row, 0, start_row + amount - 1, t.term_width - 1)

guac_terminal_is_visible(ch) ==
  ch.v # Continuation /\ (HasGlyph(ch.v) \/ ch.rev # ch.cur)

\* One row of the buffer drawn on a row of the display, from column s to e:
\* blank first, then each character that can be seen.
DrawChars(d, dest_row, chars, s, e) ==
  FoldLeft(LAMBDA g, c : guac_terminal_display_set_columns(g, dest_row, c, c, chars[c + 1]),
           guac_terminal_display_set_columns(d, dest_row, s, e, DefaultChar),
           SelectSeq([c \in 1 .. Len(chars) |-> c - 1],
             LAMBDA c : c \in s .. e /\ guac_terminal_is_visible(chars[c + 1])))

DrawRow(t, d, dest_row, row, s, e) ==
  DrawChars(d, dest_row, guac_terminal_buffer_get_columns(Buffer(t), row), s, e)

\* n rows of the buffer from "row" on, drawn from dest_row on.
DrawRows(t, dest_row, row, n) ==
  [t EXCEPT !.display = FoldLeft(LAMBDA d, i : DrawRow(t, d, dest_row + i, row + i, 0, MaxColumns), @,
                                 [i \in 1 .. n |-> i - 1])]

\* The view moves to another offset, which the scrollbar shows.
ScrollView(t, copied, offset) ==
  guac_terminal_scrollbar_set_value([t EXCEPT !.display = copied, !.scroll_offset = offset], -offset)

\* Showing later rows, and earlier ones.
guac_terminal_scroll_display_down(t, requested) ==
  LET amount == Min({requested, t.scroll_offset})
      copied == IF t.term_height > amount
                  THEN guac_terminal_display_copy_rows(t.display, amount, t.term_height - 1, -amount)
                  ELSE t.display
  IN  IF amount <= 0 THEN t
      ELSE Notify(DrawRows(ScrollView(t, copied, t.scroll_offset - amount),
                           t.term_height - amount, t.term_height - t.scroll_offset, amount))

guac_terminal_scroll_display_up(t, requested) ==
  LET available == guac_terminal_get_available_scroll(t)
      amount == Min({requested, available - t.scroll_offset})
      copied == IF t.term_height > amount
                  THEN guac_terminal_display_copy_rows(t.display, 0, t.term_height - amount - 1, amount)
                  ELSE t.display
  IN  IF amount <= 0 THEN t
      ELSE Notify(DrawRows(ScrollView(t, copied, t.scroll_offset + amount), 0,
                           -(t.scroll_offset + amount), amount))

guac_terminal_scroll_handler(t, value) ==
  LET delta == -value - t.scroll_offset
  IN  guac_terminal_scrollbar_set_value(
        IF delta < 0 THEN guac_terminal_scroll_display_down(t, -delta)
        ELSE guac_terminal_scroll_display_up(t, delta), value)

__guac_terminal_redraw_rect(t, start_row, start_col, end_row, end_col) ==
  IF start_row > end_row THEN t
  ELSE [t EXCEPT !.display =
          FoldLeft(LAMBDA d, row : DrawRow(t, d, row, row - t.scroll_offset, start_col, end_col), @,
                   [i \in 1 .. end_row - start_row + 1 |-> start_row + i - 1])]

guac_terminal_redraw_default_layer(t) ==
  __guac_terminal_redraw_rect(t, 0, 0, t.term_height - 1, t.term_width - 1)

-----------------------------------------------------------------------------
(* The cursor, frames, resizing and resetting *)

\* Drawing one cell again, with or without the cursor.
DrawCell(t, chars, row, col) ==
  [t EXCEPT !.display = IF col < Len(chars)
     THEN guac_terminal_display_set_columns(@, row + t.scroll_offset, col, col,
            chars[(IF col < 0 THEN 0 ELSE col) + 1])
     ELSE @]

ShowCursor(t, row, col, is_cursor) ==
  LET Draw(b) == DrawCell([t EXCEPT !.buffers[t.current_buffer] = b],
                          guac_terminal_buffer_get_columns(b, row), row, col)
  IN  Draw(guac_terminal_buffer_set_cursor(Buffer(t), row, col, is_cursor))

\* The old cursor is taken away, then the new one drawn.
HideOld(t) ==
  IF t.visible_cursor_row # -1 /\ t.visible_cursor_col # -1
    THEN ShowCursor(t, t.visible_cursor_row, t.visible_cursor_col, FALSE) ELSE t

ShowNew(t) ==
  IF t.cursor_visible
    THEN [ShowCursor(t, t.cursor_row, t.cursor_col, TRUE) EXCEPT
            !.visible_cursor_row = t.cursor_row, !.visible_cursor_col = t.cursor_col]
    ELSE [t EXCEPT !.visible_cursor_row = -1, !.visible_cursor_col = -1]

guac_terminal_commit_cursor(t) ==
  IF /\ t.cursor_visible
     /\ <<t.visible_cursor_row, t.visible_cursor_col>> = <<t.cursor_row, t.cursor_col>>
    THEN t
    ELSE ShowNew(HideOld(t))

\* A pipe stream's bytes are sent when its buffer is full, when it ends, and
\* with each frame if it was asked for.
guac_terminal_pipe_stream_flush(t) ==
  IF t.pipe_stream = << >> \/ t.pipe_buffer = << >> THEN t
  ELSE [t EXCEPT !.sent = @ \o t.pipe_buffer, !.pipe_buffer = << >>]

\* Dragging the scrollbar's handle scrolls once per frame, after the drawing;
\* the position of the handle is a fraction of the way it may go.
guac_terminal_scrollbar_flush(t) ==
  LET bar   == t.scrollbar
      delta == Max({0, bar.max - bar.min})
      value == IF bar.dragging THEN bar.min + (bar.drag * delta) \div DragSteps ELSE bar.value
  IN  IF value # bar.value THEN guac_terminal_scroll_handler(t, value) ELSE t

guac_terminal_flush(t) ==
  guac_terminal_scrollbar_flush(
    [guac_terminal_commit_cursor(guac_terminal_select_redraw(
       IF t.pipe_autoflush THEN guac_terminal_pipe_stream_flush(t) ELSE t))
       EXCEPT !.display = guac_terminal_display_flush_operations(@)])

\* Shrinking the screen moves the text up if its last rows are used.
ShrinkRows(t, width, height) ==
  LET shift == Min({guac_terminal_effective_buffer_length(t), t.term_height}) - height
  IN  IF height >= t.term_height \/ shift <= 0
        THEN t
        ELSE __guac_terminal_redraw_rect(
               [t EXCEPT !.display = guac_terminal_display_copy_rows(@, shift, t.display.height - 1, -shift),
                         !.buffers[t.current_buffer] = guac_terminal_buffer_scroll_up(@, shift),
                         !.cursor_row = @ - shift,
                         !.visible_cursor_row = IF @ # -1 THEN @ - shift ELSE @],
               height - shift, 0, height - 1, width - 1)

\* Growing it brings rows back from the scrollback.
\* First the buffer and the cursor move; then the view follows, as far as it
\* was scrolled back (the rows below are drawn before the offset changes if it
\* is used up); last, the rest is copied down and rows above it are drawn.
BringBack(t, shift) ==
  [t EXCEPT !.buffers[t.current_buffer] = guac_terminal_buffer_scroll_down(@, shift),
            !.cursor_row = @ + shift,
            !.visible_cursor_row = IF @ # -1 THEN @ + shift ELSE @]

FollowView(t, width, shift) ==
  IF t.scroll_offset >= shift
    THEN __guac_terminal_redraw_rect(ScrollView(t, t.display, t.scroll_offset - shift),
           t.term_height, 0, t.term_height + shift - 1, width - 1)
    ELSE guac_terminal_scrollbar_set_value(
           [__guac_terminal_redraw_rect(t, t.term_height, 0, t.term_height + t.scroll_offset - 1, width - 1)
              EXCEPT !.scroll_offset = 0], 0)

DrawAbove(t, width, rest) ==
  IF rest <= 0 THEN t
  ELSE __guac_terminal_redraw_rect(
         [t EXCEPT !.display = guac_terminal_display_copy_rows(@, 0, @.height - rest - 1, rest)],
         0, 0, rest - 1, width - 1)

GrowRows(t, width, height) ==
  LET available == guac_terminal_get_available_scroll(t)
      shift == Min({height - t.term_height, available})
  IN  IF height <= t.term_height \/ available <= 0 THEN t
      ELSE DrawAbove(FollowView(BringBack(t, shift), width, shift), width, shift - t.scroll_offset)

ResizeDisplay(t, width, height) ==
  [t EXCEPT !.display = guac_terminal_display_resize(
                          guac_terminal_display_flush_operations(@), width, height)]

DrawNewColumns(t, width, height) ==
  IF width > t.term_width
    THEN __guac_terminal_redraw_rect(t, 0, t.term_width - 1, height - 1, width - 1) ELSE t

__guac_terminal_resize(t, width, height) ==
  LET clamp(v, n) == IF v >= n THEN n - 1 ELSE IF v < 0 THEN 0 ELSE v
  IN  [GrowRows(DrawNewColumns(ResizeDisplay(ShrinkRows(t, width, height), width, height), width, height),
                width, height) EXCEPT
         !.cursor_row = clamp(@, height), !.cursor_col = clamp(@, width),
         !.term_width = width, !.term_height = height]

guac_terminal_resize(t, width, height) ==
  Notify(UpdateBounds(
    IF width = t.term_width /\ height = t.term_height THEN t
    ELSE [__guac_terminal_resize(t, width, height) EXCEPT !.scroll_end = height - 1]))

NoTabs == [i \in 1 .. MaxTabs |-> 0]

guac_terminal_reset(t) ==
  FoldLeft(LAMBDA u, row : guac_terminal_set_columns(u, row, 0, t.term_width - 1, DefaultChar),
    guac_terminal_scrollbar_set_value(guac_terminal_scrollbar_set_bounds(
            [t EXCEPT
               !.char_handler = "echo", !.active_char_set = 0, !.char_mapping = <<FALSE, FALSE>>,
               !.cursor_row = 0, !.visible_cursor_row = 0, !.saved_cursor_row = 0,
               !.cursor_col = 0, !.visible_cursor_col = 0, !.saved_cursor_col = 0,
               !.cursor_visible = TRUE,
               !.buffers[t.current_buffer] = guac_terminal_buffer_reset(@),
               !.scroll_start = 0, !.scroll_end = t.term_height - 1, !.scroll_offset = 0,
               !.text_selected = FALSE, !.selection_committed = FALSE,
               !.application_cursor_keys = FALSE, !.automatic_carriage_return = FALSE,
               !.insert_mode = FALSE, !.tab_interval = TabInterval, !.custom_tabs = NoTabs,
               !.reverse = FALSE], 0, 0), 0),
    [i \in 1 .. t.term_height |-> i - 1])

\* A new terminal of the given size, before guac_terminal_start().
guac_terminal_create(width, height) ==
  guac_terminal_reset(
    [started |-> FALSE, modified |-> FALSE,
     term_width |-> width, term_height |-> height,
     char_handler |-> "echo", active_char_set |-> 0, char_mapping |-> <<FALSE, FALSE>>,
     cursor_row |-> 0, cursor_col |-> 0, visible_cursor_row |-> 0, visible_cursor_col |-> 0,
     saved_cursor_row |-> 0, saved_cursor_col |-> 0, cursor_visible |-> TRUE,
     scroll_start |-> 0, scroll_end |-> height - 1, scroll_offset |-> 0,
     requested_scrollback |-> MaxScrollback,
     text_selected |-> FALSE, selection_committed |-> FALSE,
     selection_start |-> [row |-> 0, col |-> 0, width |-> 1],
     selection_end |-> [row |-> 0, col |-> 0, width |-> 1],
     clipboard |-> << >>,
     application_cursor_keys |-> FALSE, automatic_carriage_return |-> FALSE, insert_mode |-> FALSE,
     tab_interval |-> TabInterval, custom_tabs |-> NoTabs, reverse |-> FALSE,
     current_buffer |-> "normal",
     buffers |-> [normal    |-> guac_terminal_buffer_alloc(Max({MaxScrollback, MaxRows})),
                  alternate |-> guac_terminal_buffer_alloc(MaxRows)],
     display |-> guac_terminal_display_resize(guac_terminal_display_alloc, width, height),
     scrollbar |-> [min |-> 0, max |-> 0, value |-> 0, dragging |-> FALSE, drag |-> 0],
     input_stream |-> "none", stdin |-> << >>,
     pipe_stream |-> << >>, pipe_buffer |-> << >>, pipe_autoflush |-> FALSE, sent |-> << >>])

-----------------------------------------------------------------------------
(* Tab stops and pipe streams *)

\* The first free entry, if there is one, holds the column plus one.
guac_terminal_set_tab(t, column) ==
  LET free == {i \in 1 .. MaxTabs : t.custom_tabs[i] = 0}
  IN  IF free = {} THEN t ELSE [t EXCEPT !.custom_tabs[Min(free)] = column + 1]

guac_terminal_unset_tab(t, column) ==
  LET at == {i \in 1 .. MaxTabs : t.custom_tabs[i] = column + 1}
  IN  IF at = {} THEN t ELSE [t EXCEPT !.custom_tabs[Min(at)] = 0]

guac_terminal_clear_tabs(t) == [t EXCEPT !.tab_interval = 0, !.custom_tabs = NoTabs]

guac_terminal_next_tab(t, column) ==
  LET regular == IF t.tab_interval # 0 THEN (column \div t.tab_interval + 1) * t.tab_interval
                                       ELSE t.term_width - 1
  IN  Min({regular} \cup {t.custom_tabs[i] - 1 : i \in {j \in 1 .. MaxTabs :
             t.custom_tabs[j] # 0 /\ t.custom_tabs[j] - 1 > column}})

guac_terminal_pipe_stream_close(t) ==
  IF t.pipe_stream = << >> THEN t
  ELSE [guac_terminal_pipe_stream_flush(t) EXCEPT !.pipe_stream = << >>]

\* flags is the set of options the stream was opened with.
guac_terminal_pipe_stream_open(t, flags) ==
  [guac_terminal_pipe_stream_close(t) EXCEPT
     !.pipe_stream = <<flags>>, !.pipe_buffer = << >>, !.pipe_autoflush = "autoflush" \in flags]

guac_terminal_pipe_stream_write(t, c) ==
  IF t.pipe_stream = << >> THEN t
  ELSE [(IF Len(t.pipe_buffer) = PipeBuffer THEN guac_terminal_pipe_stream_flush(t) ELSE t)
          EXCEPT !.pipe_buffer = Append(@, c)]
=============================================================================
