-------------------------- MODULE TerminalSession ---------------------------
(***************************************************************************)
(* A terminal in use: the thread that writes what the remote program       *)
(* prints, the users' keys, mouse and streams, the window being resized,   *)
(* and the thread that renders frames (terminal.c,                         *)
(* terminal-stdin-stream.c).  Each of them holds the terminal's lock for   *)
(* the whole of a step below, except for a user's thread that changes the  *)
(* colours or the font: it draws everything again before it takes the lock. *)
(*                                                                         *)
(* First comes what it does with each byte of output (terminal-handlers.c).*)
(* The terminal's char_handler says which handler takes the next byte; the *)
(* handlers keep the rest of their state in static variables, the record   *)
(* "s" here, which no reset of the terminal touches.                       *)
(*                                                                         *)
(* A byte is [c, n]: its class or itself.  A run of digits is one item of  *)
(* class "num" with its value in n, since the handlers only collect them,  *)
(* and any other text is one item of class "text".                         *)
(***************************************************************************)
EXTENDS Terminal

CONSTANTS MaxArgs,        \* 16: the parameters a CSI sequence keeps
          UninitWidths    \* what guac_char.width may be where it is not set

\* The static variables: guac_terminal_echo()'s decoder, guac_terminal_csi()'s
\* parameters, guac_terminal_osc()'s operation, and those of the handlers of
\* operating system commands and of guac_terminal_apc().
InitStatics ==
  [codepoint |-> "none", bytes_remaining |-> 0,
   argc |-> 0, argv |-> [i \in 0 .. MaxArgs - 1 |-> 0], private_mode |-> "none", param |-> 0,
   operation |-> 0, text |-> 0, flags |-> {}, read_color_spec |-> FALSE, index |-> 0,
   escaping |-> FALSE]

Both(t, s) == [term |-> t, statics |-> s]
Handle(t, handler) == [t EXCEPT !.char_handler = handler]

\* Bytes the terminal answers with, unless a stream feeds its STDIN.
guac_terminal_send_string(t, data) ==
  IF t.input_stream # "none" THEN t ELSE [t EXCEPT !.stdin = Append(@, data)]

AdvanceRow(t) ==
  IF t.cursor_row = t.scroll_end
    THEN guac_terminal_scroll_up(t, t.scroll_start, t.scroll_end, 1)
    ELSE [t EXCEPT !.cursor_row = IF @ < t.term_height - 1 THEN @ + 1 ELSE @]

guac_terminal_linefeed(t, force_wrap) ==
  AdvanceRow([t EXCEPT !.buffers[t.current_buffer] =
                guac_terminal_buffer_set_wrapped(@, t.cursor_row, force_wrap)])

guac_terminal_reverse_linefeed(t) ==
  IF t.cursor_row = t.scroll_start
    THEN guac_terminal_scroll_down(t, t.scroll_start, t.scroll_end, 1)
    ELSE [t EXCEPT !.cursor_row = IF @ > 0 THEN @ - 1 ELSE @]

guac_terminal_move_cursor(t, row, col) ==
  LET clamp(v, n) == IF v >= n THEN n - 1 ELSE IF v < 0 THEN 0 ELSE v
  IN  [t EXCEPT !.cursor_row = clamp(row, t.term_height), !.cursor_col = clamp(col, t.term_width)]

SaveCursor(t) == [t EXCEPT !.saved_cursor_row = t.cursor_row, !.saved_cursor_col = t.cursor_col]
RestoreCursor(t) == guac_terminal_move_cursor(t, t.saved_cursor_row, t.saved_cursor_col)

-----------------------------------------------------------------------------
(* guac_terminal_echo() *)

\* A printable character: wrap if the row is full, make room in insert mode,
\* write it, and advance.
Wrap(t) ==
  IF t.cursor_col >= t.term_width
    THEN guac_terminal_linefeed([t EXCEPT !.cursor_col = 0], TRUE) ELSE t

MakeRoom(t) ==
  IF t.insert_mode
    THEN guac_terminal_copy_columns(t, t.cursor_row, t.cursor_col, t.term_width - 2, 1) ELSE t

PrintChar(t, codepoint) ==
  LET Put(u) == [guac_terminal_set(u, u.cursor_row, u.cursor_col, codepoint) EXCEPT
                   !.cursor_col = @ + wcwidth(codepoint)]
  IN  Put(MakeRoom(Wrap(t)))

\* What a complete codepoint does.
Control(t, v) ==
  CASE v = "ENQ" -> guac_terminal_send_string(t, "answerback")
    [] v = "BS"  -> guac_terminal_move_cursor(t, t.cursor_row, t.cursor_col - 1)
    [] v = "HT"  -> guac_terminal_move_cursor(t, t.cursor_row, guac_terminal_next_tab(t, t.cursor_col))
    [] v = "LF"  -> LET Return(u) == IF u.automatic_carriage_return
                          THEN guac_terminal_move_cursor(u, u.cursor_row, 0) ELSE u
                    IN  Return(guac_terminal_linefeed(t, FALSE))
    [] v = "CR"  -> guac_terminal_move_cursor(t, t.cursor_row, 0)
    [] v = "SO"  -> [t EXCEPT !.active_char_set = 1]
    [] v = "SI"  -> [t EXCEPT !.active_char_set = 0]
    [] v = "ESC" -> Handle(t, "escape")
    [] v = "CSI" -> Handle(t, "csi")
    [] v \in {"BEL", "DEL", "NUL"} -> t
    [] OTHER -> PrintChar(t, IF t.char_mapping[t.active_char_set + 1] THEN "mapped" ELSE v)

\* The bytes of UTF-8: "lead" begins a sequence of two, and "cont" or, for
\* U+009B, "cont9B" end it.  With a mapping active every byte is a character.
guac_terminal_echo(t, s, b) ==
  LET mapped == t.char_mapping[t.active_char_set + 1]
      piped  == IF t.pipe_stream # << >> /\ b.c # "ESC"
                  THEN guac_terminal_pipe_stream_write(t, b.c) ELSE t
      hidden == t.pipe_stream # << >> /\ b.c # "ESC" /\ "interpret" \notin t.pipe_stream[1]
      cont   == b.c \in {"cont", "cont9B"}
      s1 == IF mapped \/ ~(cont \/ b.c = "lead")
              THEN [s EXCEPT !.codepoint = b.c, !.bytes_remaining = 0]
            ELSE IF b.c = "lead"
              THEN [s EXCEPT !.codepoint = "partial", !.bytes_remaining = 1]
            ELSE [s EXCEPT !.codepoint = IF b.c = "cont9B" /\ s.codepoint = "partial" THEN "CSI"
                                         ELSE "wide",
                           !.bytes_remaining = @ - 1]
  IN  IF hidden THEN Both(piped, s)
      ELSE IF s1.bytes_remaining # 0 THEN Both(piped, s1)
      ELSE Both(Control(piped, s1.codepoint), s1)

-----------------------------------------------------------------------------
(* Escape sequences *)

guac_terminal_escape(t, b) ==
  LET done == Handle(t, "echo") IN
  CASE b.c = "(" -> Handle(t, "g0_charset")
    [] b.c = ")" -> Handle(t, "g1_charset")
    [] b.c = "]" -> Handle(t, "osc")
    [] b.c = "[" -> Handle(t, "csi")
    [] b.c = "#" -> Handle(t, "ctrl_func")
    [] b.c = "_" -> Handle(t, "apc")
    [] b.c = "7" -> SaveCursor(done)
    [] b.c = "8" -> RestoreCursor(done)
    [] b.c = "D" -> guac_terminal_linefeed(done, FALSE)
    [] b.c = "E" -> guac_terminal_linefeed(guac_terminal_move_cursor(done, t.cursor_row, 0), FALSE)
    [] b.c = "H" -> guac_terminal_set_tab(done, t.cursor_col)
    [] b.c = "M" -> guac_terminal_reverse_linefeed(done)
    [] b.c = "Z" -> guac_terminal_send_string(done, "VT102 ID")
    [] b.c = "c" -> guac_terminal_reset(t)
    [] OTHER -> done

\* "B" selects no mapping, as any unknown name does.
Charset(t, n, b) ==
  Handle([t EXCEPT !.char_mapping[n + 1] = b.c \in {"0", "U", "K"}], "echo")

-----------------------------------------------------------------------------
(* guac_terminal_csi() *)

OrOne(n) == IF n = 0 THEN 1 ELSE n
FromOne(n) == IF n # 0 THEN n - 1 ELSE 0

InsertChars(t, amount) ==
  LET u == IF t.cursor_col + amount < t.term_width
             THEN guac_terminal_copy_columns(t, t.cursor_row, t.cursor_col,
                    t.term_width - amount - 1, amount) ELSE t
  IN  guac_terminal_clear_columns(u, t.cursor_row, t.cursor_col, t.cursor_col + amount - 1)

DeleteChars(t, amount) ==
  LET u == IF t.cursor_col + amount < t.term_width
             THEN guac_terminal_copy_columns(t, t.cursor_row, t.cursor_col + amount,
                    t.term_width - 1, -amount) ELSE t
  IN  guac_terminal_clear_columns(u, t.cursor_row, t.term_width - amount, t.term_width - 1)

Move(t, c, n) ==
  LET row == t.cursor_row
      col == t.cursor_col
  IN  CASE c = "A" -> guac_terminal_move_cursor(t, row - n, col)
        [] c \in {"B", "e"} -> guac_terminal_move_cursor(t, row + n, col)
        [] c \in {"C", "a"} -> guac_terminal_move_cursor(t, row, col + n)
        [] c = "D" -> guac_terminal_move_cursor(t, row, col - n)
        [] c = "E" -> guac_terminal_move_cursor(t, row + n, 0)
        [] c = "F" -> guac_terminal_move_cursor(t, row - n, 0)

EraseDisplay(t, mode) ==
  CASE mode = 0 -> guac_terminal_clear_range(t, t.cursor_row, t.cursor_col,
                     t.term_height - 1, t.term_width - 1)
    [] mode = 1 -> guac_terminal_clear_range(t, 0, 0, t.cursor_row, t.cursor_col)
    [] mode \in {2, 3} -> guac_terminal_clear_range(t, 0, 0, t.term_height - 1, t.term_width - 1)
    [] OTHER -> t

EraseLine(t, mode) ==
  CASE mode = 0 -> guac_terminal_clear_columns(t, t.cursor_row, t.cursor_col, t.term_width - 1)
    [] mode = 1 -> guac_terminal_clear_columns(t, t.cursor_row, 0, t.cursor_col)
    [] mode = 2 -> guac_terminal_clear_columns(t, t.cursor_row, 0, t.term_width - 1)
    [] OTHER -> t

\* The flag a mode number selects (__guac_terminal_get_flag()).
SetMode(t, num, private_mode, value) ==
  CASE private_mode = "?" /\ num = 1    -> [t EXCEPT !.application_cursor_keys = value]
    [] private_mode = "?" /\ num = 25   -> [t EXCEPT !.cursor_visible = value]
    [] private_mode = "none" /\ num = 4  -> [t EXCEPT !.insert_mode = value]
    [] private_mode = "none" /\ num = 20 -> [t EXCEPT !.automatic_carriage_return = value]
    [] OTHER -> t

ClearScreen(t) == guac_terminal_clear_range(t, 0, 0, t.term_height - 1, t.term_width - 1)

\* The alternate buffer replaces the normal one, and is cleared by modes 1047
\* and 1049 only; nothing is drawn again.
ClearIf(t, clear) == IF clear THEN ClearScreen(t) ELSE t

UseAlternate(t, num) ==
  LET Switch(u) == ClearIf(UpdateBounds([u EXCEPT !.current_buffer = "alternate"]), num # 47)
      Enter(u) == IF u.current_buffer = "alternate" \/ num \notin {47, 1047, 1049} THEN u ELSE Switch(u)
  IN  Enter(IF num \in {1048, 1049} THEN SaveCursor(t) ELSE t)

UseNormal(t, num) ==
  LET Switch(u) ==
        ClearIf([guac_terminal_redraw_default_layer(UpdateBounds([u EXCEPT !.current_buffer = "normal"]))
                   EXCEPT !.text_selected = FALSE, !.selection_committed = FALSE], num = 1047)
      Restore(u) == IF num \in {1048, 1049} THEN RestoreCursor(u) ELSE u
  IN  Restore(IF t.current_buffer = "normal" \/ num \notin {47, 1047, 1049} THEN t ELSE Switch(t))

\* Of the attributes only "reverse" is kept.
Attributes(t, s, argc) ==
  LET reverse[i \in 0 .. argc] ==
        IF i = 0 THEN t.reverse
        ELSE CASE s.argv[i - 1] = 7 -> TRUE
               [] s.argv[i - 1] \in {0, 27} -> FALSE
               [] OTHER -> reverse[i - 1]
  IN  [t EXCEPT !.reverse = reverse[argc]]

\* The region is taken as it comes, whatever the size of the screen.
ScrollRegion(t, s, argc) ==
  IF argc = 2 THEN [t EXCEPT !.scroll_start = s.argv[0] - 1, !.scroll_end = s.argv[1] - 1]
  ELSE [t EXCEPT !.scroll_start = 0, !.scroll_end = t.term_height - 1]

\* The final byte of a sequence with its parameters.
Dispatch(t, s, argc, c) ==
  LET n == OrOne(s.argv[0]) IN
  CASE c = "@" -> InsertChars(t, n)
    [] c \in {"A", "B", "e", "C", "a", "D", "E", "F"} -> Move(t, c, n)
    [] c \in {"G", "backquote"} -> guac_terminal_move_cursor(t, t.cursor_row, FromOne(s.argv[0]))
    [] c \in {"H", "f"} -> guac_terminal_move_cursor(t, FromOne(s.argv[0]), FromOne(s.argv[1]))
    [] c = "J" -> EraseDisplay(t, s.argv[0])
    [] c = "K" -> EraseLine(t, s.argv[0])
    [] c = "L" -> guac_terminal_scroll_down(t, t.cursor_row, t.scroll_end, n)
    [] c = "M" -> guac_terminal_scroll_up(t, t.cursor_row, t.scroll_end, n)
    [] c = "P" -> DeleteChars(t, n)
    [] c = "S" -> guac_terminal_scroll_up(t, t.scroll_start, t.scroll_end, n)
    [] c = "T" -> guac_terminal_scroll_down(t, t.scroll_start, t.scroll_end, n)
    [] c = "X" -> guac_terminal_clear_columns(t, t.cursor_row, t.cursor_col, t.cursor_col + n - 1)
    [] c = "c" -> IF s.argv[0] = 0 /\ s.private_mode = "none"
                    THEN guac_terminal_send_string(t, "VT102 ID") ELSE t
    [] c = "d" -> guac_terminal_move_cursor(t, FromOne(s.argv[0]), t.cursor_col)
    [] c = "g" -> IF s.argv[0] = 0 THEN guac_terminal_unset_tab(t, t.cursor_col)
                  ELSE IF s.argv[0] = 3 THEN guac_terminal_clear_tabs(t) ELSE t
    [] c = "h" -> SetMode(UseAlternate(t, s.argv[0]), s.argv[0], s.private_mode, TRUE)
    [] c = "l" -> SetMode(UseNormal(t, s.argv[0]), s.argv[0], s.private_mode, FALSE)
    [] c = "m" -> Attributes(t, s, argc)
    [] c = "n" -> IF s.private_mode # "none" THEN t
                  ELSE IF s.argv[0] = 5 THEN guac_terminal_send_string(t, "OK")
                  ELSE IF s.argv[0] = 6 THEN guac_terminal_send_string(t, "cursor position") ELSE t
    [] c = "r" -> ScrollRegion(t, s, argc)
    [] c = "s" -> SaveCursor(t)
    [] c = "u" -> RestoreCursor(t)
    [] OTHER -> t

\* Bytes that are neither parameters nor final bytes are skipped.
NotCsi == {"ESC", "ENQ", "BS", "HT", "LF", "CR", "BEL", "SO", "SI", "NUL", "DEL",
           "lead", "cont", "cont9B", "(", ")", "#"}

guac_terminal_csi(t, s, b) ==
  LET stored == IF s.argc < MaxArgs
                  THEN [s EXCEPT !.argv[s.argc] = s.param, !.argc = @ + 1, !.param = 0] ELSE s
  IN  CASE b.c = "num" -> Both(t, [s EXCEPT !.param = b.n])
        [] b.c = ";"   -> Both(t, stored)
        [] b.c = "?"   -> Both(t, [s EXCEPT !.private_mode = IF @ = "none" THEN "?" ELSE @])
        [] b.c \in NotCsi -> Both(t, s)
        [] OTHER -> Both(Handle(Dispatch(t, stored, stored.argc, b.c), "echo"),
                         [stored EXCEPT !.argv = [i \in DOMAIN @ |-> IF i < stored.argc THEN 0 ELSE @[i]],
                                        !.private_mode = "none", !.argc = 0, !.param = 0])

-----------------------------------------------------------------------------
(* Operating system commands, application commands, and the screen test *)

\* What ends a command: ST's second byte, or BEL.
Terminator == {"ST", "BEL"}

\* Digits that follow a number left over from before make some other number.
Joined(old, n) == IF old = 0 THEN n ELSE 999

\* The operation's number, up to the semicolon.  Anything unexpected ends the
\* command; only the semicolon resets the number.
guac_terminal_osc(t, s, b) ==
  LET op == s.operation IN
  CASE b.c = "num" -> Both(t, [s EXCEPT !.operation = Joined(@, b.n)])
    [] b.c = ";" -> Both(Handle(t,
                      CASE op = 482200 -> "download"
                        [] op = 482201 -> "set_directory"
                        [] op = 482202 -> "open_pipe_stream"
                        [] op = 482203 -> "close_pipe_stream"
                        [] op = 482204 -> "set_scrollback"
                        [] op \in {0, 2} -> "window_title"
                        [] op = 4 -> "xterm_palette"
                        [] OTHER -> "osc"), [s EXCEPT !.operation = 0])
    [] OTHER -> Both(Handle(t, "echo"), s)

\* Handlers that only collect a name until the command ends: a file to send,
\* a directory, a window title.
CollectName(t, s, b) ==
  IF b.c \in Terminator THEN Both(Handle(t, "echo"), s) ELSE Both(t, s)

\* flags, a semicolon, the stream's name.
guac_terminal_open_pipe_stream(t, s, b) ==
  CASE b.c \in Terminator -> Both(Handle(guac_terminal_pipe_stream_open(t, s.flags), "echo"),
                                  [s EXCEPT !.flags = {}, !.text = 0])
    [] b.c = ";" -> Both(t, [s EXCEPT !.text = 0, !.flags = @ \cup
                           (IF s.text \in {1, 3} THEN {"interpret"} ELSE {}) \cup
                           (IF s.text \in {2, 3} THEN {"autoflush"} ELSE {})])
    [] b.c = "num" -> Both(t, [s EXCEPT !.text = b.n])
    [] OTHER -> Both(t, s)

guac_terminal_close_pipe_stream(t, s, b) ==
  IF b.c \in Terminator THEN Both(Handle(guac_terminal_pipe_stream_close(t), "echo"), s)
  ELSE Both(t, s)

guac_terminal_set_scrollback(t, s, b) ==
  CASE b.c \in Terminator ->
         Both(Handle(UpdateBounds([t EXCEPT !.requested_scrollback = s.text]), "echo"),
              [s EXCEPT !.text = 0])
    [] b.c = "num" -> Both(t, [s EXCEPT !.text = b.n])
    [] OTHER -> Both(t, s)

\* index;colour pairs; the colours are left out.
guac_terminal_xterm_palette(t, s, b) ==
  LET next == IF s.read_color_spec
                THEN IF b.c \in Terminator \cup {";"}
                       THEN [s EXCEPT !.read_color_spec = FALSE, !.index = 0] ELSE s
                ELSE CASE b.c = "num" -> [s EXCEPT !.index = Joined(@, b.n)]
                       [] b.c = ";" -> [s EXCEPT !.read_color_spec = TRUE]
                       [] OTHER -> s
  IN  Both(IF b.c \in Terminator THEN Handle(t, "echo") ELSE t, next)

\* The screen test fills the screen with a character whose width was never set.
guac_terminal_ctrl_func(t, b, width) ==
  Handle(IF b.c = "8"
           THEN FoldLeft(LAMBDA u, row : guac_terminal_set_columns(u, row, 0, t.term_width - 1,
                           [v |-> "E", w |-> width, rev |-> t.reverse, cur |-> FALSE]),
                         t, [i \in 1 .. t.term_height |-> i - 1])
           ELSE t, "echo")

guac_terminal_apc(t, s, b) ==
  Both(IF s.escaping /\ b.c = "ST" THEN Handle(t, "echo") ELSE t, [s EXCEPT !.escaping = b.c = "ESC"])

\* One byte of output.
HandleByte(t, s, b, width) ==
  CASE t.char_handler = "echo" -> guac_terminal_echo(t, s, b)
    [] t.char_handler = "escape" -> Both(guac_terminal_escape(t, b), s)
    [] t.char_handler = "g0_charset" -> Both(Charset(t, 0, b), s)
    [] t.char_handler = "g1_charset" -> Both(Charset(t, 1, b), s)
    [] t.char_handler = "csi" -> guac_terminal_csi(t, s, b)
    [] t.char_handler = "osc" -> guac_terminal_osc(t, s, b)
    [] t.char_handler \in {"download", "set_directory", "window_title"} -> CollectName(t, s, b)
    [] t.char_handler = "open_pipe_stream" -> guac_terminal_open_pipe_stream(t, s, b)
    [] t.char_handler = "close_pipe_stream" -> guac_terminal_close_pipe_stream(t, s, b)
    [] t.char_handler = "set_scrollback" -> guac_terminal_set_scrollback(t, s, b)
    [] t.char_handler = "xterm_palette" -> guac_terminal_xterm_palette(t, s, b)
    [] t.char_handler = "ctrl_func" -> Both(guac_terminal_ctrl_func(t, b, width), s)
    [] t.char_handler = "apc" -> guac_terminal_apc(t, s, b)

-----------------------------------------------------------------------------

CONSTANTS Scenarios,   \* [printed, bytes, keys, mouse, sizes, streams, steps]: what was
                       \* printed and drawn before, the bytes that may come
                       \* next by handler, the users' events, and a bound on
                       \* the number of control sequences and events
          Size,        \* <<width, height>> of the new terminal
          MaxStdin     \* how much the pipe to STDIN holds

VARIABLES term,        \* the terminal
          statics,     \* the handlers' static variables
          render,      \* the render thread: "waiting", "woken"
          input,       \* the users' modifier keys, mouse buttons and clicks
          redraw,      \* what draws everything again without the lock
          scenario, steps

vars == <<term, statics, render, input, redraw, scenario, steps>>

Byte(c) == [c |-> c, n |-> 0]

\* What a sequence of bytes leaves behind.
WriteAll(t, bytes) ==
  FoldLeft(LAMBDA w, b : HandleByte(w.term, w.statics, b, 1), Both(t, InitStatics), bytes)

guac_terminal_start(t) == Notify([t EXCEPT !.started = TRUE])

Init ==
  /\ scenario \in Scenarios
  /\ \E w \in {WriteAll(guac_terminal_create(Size[1], Size[2]), scenario.printed)} :
         /\ term = guac_terminal_start(guac_terminal_flush(w.term))
         /\ statics = w.statics
  /\ render = "waiting"
  /\ input = [mods |-> {}, mouse |-> {}, click_counter |-> 0]
  /\ redraw = [phase |-> "none", row |-> 0, end_row |-> 0, end_col |-> 0, chars |-> << >>,
                raced |-> FALSE]
  /\ steps = 0

Running == ~term.display.assert_failed

\* Another thread uses the terminal while everything is drawn again: "raced"
\* is a history variable.
Raced ==
  redraw' = [redraw EXCEPT !.raced = @ \/ redraw.phase \in {"read", "draw"}]

\* An event of the scenario.
Event ==
  /\ Running
  /\ steps < scenario.steps
  /\ steps' = steps + 1
  /\ UNCHANGED <<statics, render, scenario>>

LockedEvent == Event /\ Raced

-----------------------------------------------------------------------------
(* Output *)

\* guac_terminal_write(), one byte.
Write(b) ==
  /\ Running
  /\ term.char_handler = "echo" => steps < scenario.steps
  /\ \E width \in IF term.char_handler = "ctrl_func" THEN UninitWidths ELSE {1} :
       \E w \in {HandleByte(term, statics, b, width)} :
           /\ term' = Notify(w.term)
           /\ statics' = w.statics
  /\ Len(term'.stdin) <= MaxStdin
  /\ steps' = IF term.char_handler = "echo" THEN steps + 1 ELSE steps
  /\ Raced
  /\ UNCHANGED <<render, input, scenario>>

\* guac_terminal_render_frame(): the flag is cleared, then a frame drawn.
RenderWake ==
  /\ Running
  /\ render = "waiting"
  /\ term.modified
  /\ term' = [term EXCEPT !.modified = FALSE]
  /\ render' = "woken"
  /\ UNCHANGED <<statics, input, redraw, scenario, steps>>

\* Mutant: the flag is cleared once the frame is drawn, too.
MutantRenderFlush ==
  /\ Running
  /\ render = "woken"
  /\ term' = [guac_terminal_flush(term) EXCEPT !.modified = FALSE]
  /\ render' = "waiting"
  /\ Raced
  /\ UNCHANGED <<statics, input, scenario, steps>>

RenderFlush ==
  /\ Running
  /\ render = "woken"
  /\ term' = guac_terminal_flush(term)
  /\ render' = "waiting"
  /\ Raced
  /\ UNCHANGED <<statics, input, scenario, steps>>

\* RenderFlush as far as the thread itself is concerned.
RenderDone == Running /\ render = "woken" /\ render' = "waiting"

\* The connection's thread takes what was typed.
ReadStdin ==
  /\ term.stdin # << >>
  /\ term' = [term EXCEPT !.stdin = Tail(@)]
  /\ UNCHANGED <<statics, render, input, redraw, scenario, steps>>

-----------------------------------------------------------------------------
(* Input *)

Resize(size) ==
  /\ LockedEvent
  /\ term' = guac_terminal_resize(term, size[1], size[2])
  /\ UNCHANGED input

Modifiers == {"shift", "ctrl", "alt", "meta"}

\* A key that is not a modifier is pressed.
Press(t, mods, key) ==
  LET paste == (key = "V" /\ "ctrl" \in mods) \/ (key = "v" /\ "meta" \in mods)
      copy  == (key = "C" /\ "ctrl" \in mods) \/ (key = "c" /\ "meta" \in mods)
      Escaped(u) == IF "alt" \in mods THEN guac_terminal_send_string(u, "ESC") ELSE u
      \* only letters have a control character
      Send(u) == IF "ctrl" \notin mods
                   THEN guac_terminal_send_string(u,
                          IF key = "Left" /\ t.application_cursor_keys THEN "application" ELSE "key")
                 ELSE IF key \in {"V", "v", "C", "c"} THEN guac_terminal_send_string(u, "control")
                 ELSE u
  IN  CASE paste -> guac_terminal_send_string(t, "clipboard")
        [] ~paste /\ copy -> t
        [] ~paste /\ ~copy /\ "shift" \in mods /\ key = "PageUp" ->
             guac_terminal_scroll_display_up(t, t.term_height)
        [] ~paste /\ ~copy /\ "shift" \in mods /\ key = "PageDown" ->
             guac_terminal_scroll_display_down(t, t.term_height)
        [] OTHER ->
             Send(Escaped(IF t.scroll_offset # 0
                            THEN guac_terminal_scroll_display_down(t, t.scroll_offset) ELSE t))

guac_terminal_send_key(key, pressed) ==
  /\ LockedEvent
  /\ IF key \in Modifiers
       THEN /\ input' = [input EXCEPT !.mods = IF pressed THEN @ \cup {key} ELSE @ \ {key}]
            /\ UNCHANGED term
       ELSE /\ pressed
            /\ term' = Press(term, input.mods, key)
            /\ UNCHANGED input
  /\ Len(term'.stdin) <= MaxStdin

\* The word, or the run of blanks, around a column; any other character is
\* a word of its own.
guac_terminal_double_click(t, row, col) ==
  LET chars == guac_terminal_buffer_get_columns(Buffer(t), row)
      Class(c) == IF chars[c + 1].v \in {Blank, Space} THEN "blank"
                  ELSE IF chars[c + 1].v \in {"wide", "mapped", Continuation} THEN "other"
                  ELSE "word"
      Same(a, b) == Class(col) # "other" /\ \A c \in a .. b : Class(c) = Class(col)
      head == Min({col} \cup {c \in 0 .. col : Same(c, col)})
      tail == Max({col} \cup {c \in col .. Min({t.display.width, Len(chars)}) - 1 : Same(col, c)})
  IN  IF col >= Len(chars) THEN t
      ELSE guac_terminal_select_update(guac_terminal_select_start(t, row, head), row, tail)

\* The left button goes down on a cell; a quick click counts on.
LeftPressed(t, in, row, col, quick) ==
  LET n == IF quick THEN in.click_counter ELSE 0
  IN  CASE "shift" \in in.mods -> guac_terminal_select_resume(t, row, col)
        [] "shift" \notin in.mods /\ n = 0 -> guac_terminal_select_start(t, row, col)
        [] "shift" \notin in.mods /\ n = 1 -> guac_terminal_double_click(t, row, col)
        [] OTHER -> guac_terminal_select_update(
                      guac_terminal_select_start(t, row, 0), row, t.display.width)

\* Releasing a wheel "button" scrolls by three rows.
WheelScrollAmount == 3

\* The mouse over a cell of the screen with the given buttons down.
MouseOnCell(mask, y, col, quick) ==
  LET released == input.mouse \ mask
      row == y - term.scroll_offset
      Selected == IF "left" \in released THEN guac_terminal_select_end(term)
                  ELSE IF "left" \notin mask THEN term
                  ELSE IF "left" \notin input.mouse THEN LeftPressed(term, input, row, col, quick)
                  ELSE guac_terminal_select_update(term, row, col)
      WheelUp(t) == IF "scroll_up" \in released
                      THEN guac_terminal_scroll_display_up(t, WheelScrollAmount) ELSE t
      WheelDown(t) == IF "scroll_down" \in released
                        THEN guac_terminal_scroll_display_down(t, WheelScrollAmount) ELSE t
  IN  /\ LockedEvent
      /\ ~term.scrollbar.dragging
      /\ term' = IF "right" \in released THEN guac_terminal_send_string(term, "clipboard")
                  ELSE WheelDown(WheelUp(Selected))
      /\ Len(term'.stdin) <= MaxStdin
      /\ input' = [input EXCEPT !.mouse = mask,
                     !.click_counter =
                        IF "left" \in mask \ input.mouse /\ "shift" \notin input.mods
                          THEN IF quick THEN Min({@ + 1, 2}) ELSE 1 ELSE @]

\* The mouse on the scrollbar: its handle is grabbed, dragged or let go.
\* Neither the buttons nor the selection are followed meanwhile.
MouseOnScrollbar(mask, drag) ==
  /\ LockedEvent
  /\ term.scrollbar.dragging \/ mask = {"left"}
  /\ term' = Notify([term EXCEPT !.scrollbar = IF term.scrollbar.dragging
       THEN IF "left" \in mask THEN [@ EXCEPT !.drag = drag] ELSE [@ EXCEPT !.dragging = FALSE]
       ELSE [@ EXCEPT !.dragging = TRUE, !.drag = drag]])
  /\ UNCHANGED input

\* Inbound streams that replace the keyboard: opened, fed and closed.
guac_terminal_send_stream ==
  /\ LockedEvent
  /\ term' = IF term.started /\ term.input_stream = "none"
               THEN [term EXCEPT !.input_stream = "open"] ELSE term
  /\ UNCHANGED input

guac_terminal_input_stream_blob_handler ==
  /\ LockedEvent
  /\ term.input_stream = "open"
  /\ Len(term.stdin) < MaxStdin
  /\ term' = [term EXCEPT !.stdin = Append(@, "blob")]
  /\ UNCHANGED input

guac_terminal_input_stream_end_handler ==
  /\ LockedEvent
  /\ term.input_stream = "open"
  /\ term' = [term EXCEPT !.input_stream = "none"]
  /\ UNCHANGED input

-----------------------------------------------------------------------------
(* Colours and fonts.  One user's thread at a time draws the screen again,   *)
(* row by row, over the rows and columns there were when it began: it reads  *)
(* a row's characters and then draws them.                                   *)

BeginRedraw(t) ==
  redraw' = [redraw EXCEPT !.phase = "read", !.row = 0, !.end_row = t.term_height - 1,
                           !.end_col = t.term_width - 1]

\* Up to guac_terminal_redraw_default_layer(): only colours have changed.
guac_terminal_apply_color_scheme ==
  /\ Event
  /\ scenario.sizes # {} /\ redraw.phase = "none"
  /\ BeginRedraw(term)
  /\ UNCHANGED <<term, input>>

\* Likewise, but another number of rows and columns fits now.
guac_terminal_apply_font(size) ==
  /\ Event
  /\ redraw.phase = "none"
  /\ term' = guac_terminal_resize(term, size[1], size[2])
  /\ BeginRedraw(term')
  /\ UNCHANGED input

\* What each step does as far as the thread itself is concerned.
ReadsRow ==
  /\ redraw.phase = "read"
  /\ redraw' = [redraw EXCEPT !.phase = "draw",
                  !.chars = guac_terminal_buffer_get_columns(Buffer(term), redraw.row - term.scroll_offset)]

DrawsRow ==
  /\ redraw.phase = "draw"
  /\ redraw' = [redraw EXCEPT !.phase = IF redraw.row = redraw.end_row THEN "drawn" ELSE "read",
                              !.row = @ + 1, !.chars = << >>]

EndsRedraw ==
  /\ redraw.phase = "drawn"
  /\ redraw' = [redraw EXCEPT !.phase = "none", !.row = 0, !.end_row = 0, !.end_col = 0]

RedrawRead ==
  /\ Running
  /\ ReadsRow
  /\ UNCHANGED <<term, statics, render, input, scenario, steps>>

RedrawDraw ==
  /\ Running
  /\ DrawsRow
  /\ term' = [term EXCEPT !.display = DrawChars(@, redraw.row, redraw.chars, 0, redraw.end_col)]
  /\ UNCHANGED <<statics, render, input, scenario, steps>>

\* The name is stored with the lock held, and the render thread is told.
RedrawEnd ==
  /\ Running
  /\ EndsRedraw
  /\ term' = Notify(term)
  /\ UNCHANGED <<statics, render, input, scenario, steps>>

Redraw == RedrawRead \/ RedrawDraw \/ RedrawEnd

RedrawDone == Running /\ (ReadsRow \/ DrawsRow \/ EndsRedraw)

-----------------------------------------------------------------------------
\* A run of digits is one item: no other run follows it.
WriteSome == \E b \in scenario.bytes[term.char_handler] :
               /\ b.c = "num" => statics.param = 0 /\ statics.text = 0
               /\ Write(b)
ResizeSome == \E size \in scenario.sizes : Resize(size)
FontSome == \E size \in scenario.sizes : guac_terminal_apply_font(size)
KeySome == \E key \in scenario.keys, pressed \in BOOLEAN : guac_terminal_send_key(key, pressed)
MouseSome == \E mask \in scenario.mouse, quick \in BOOLEAN, y \in 0 .. term.term_height - 1,
                col \in {0, term.term_width - 1} : MouseOnCell(mask, y, col, quick)
ScrollbarSome == \E mask \in scenario.mouse, drag \in 0 .. DragSteps : MouseOnScrollbar(mask, drag)
StreamSome == /\ scenario.streams
              /\ \/ guac_terminal_send_stream
                 \/ guac_terminal_input_stream_blob_handler
                 \/ guac_terminal_input_stream_end_handler

Next ==
  \/ WriteSome
  \/ RenderWake
  \/ RenderFlush
  \/ ReadStdin
  \/ ResizeSome
  \/ KeySome
  \/ MouseSome
  \/ ScrollbarSome
  \/ StreamSome
  \/ guac_terminal_apply_color_scheme
  \/ FontSome
  \/ Redraw

Spec == Init /\ [][Next]_vars

\* The render thread never stops, the connection's thread goes on taking what
\* was typed (a full pipe would stop whoever writes, and hold the lock), and a
\* user's thread that draws everything again comes to its end.
FairSpec == Spec /\ WF_vars(RenderWake) /\ WF_render(RenderDone) /\ WF_vars(ReadStdin)
            /\ WF_redraw(RedrawDone)

-----------------------------------------------------------------------------
(* Properties *)

Handlers == {"echo", "escape", "g0_charset", "g1_charset", "csi", "osc", "ctrl_func", "apc",
             "download", "set_directory", "window_title", "open_pipe_stream",
             "close_pipe_stream", "set_scrollback", "xterm_palette"}

IsGrid(g) == /\ DOMAIN g = 0 .. term.display.height - 1
             /\ \A r \in DOMAIN g : DOMAIN g[r] = 0 .. term.display.width - 1

\* The ring's indices stay within it, every grid of the display has the
\* display's size, and a handler is always installed (struct guac_terminal,
\* guac_terminal_buffer, guac_terminal_display).
TypeOK ==
  /\ \A b \in {term.buffers.normal, term.buffers.alternate} :
       b.top \in 0 .. Available(b) - 1 /\ b.length \in 0 .. Word - 1
  /\ IsGrid(term.display.operations) /\ IsGrid(term.display.surface) /\ IsGrid(term.display.screen)
  /\ term.char_handler \in Handlers
  /\ <<term.term_width, term.term_height>> = <<term.display.width, term.display.height>>
  /\ statics.argc \in 0 .. MaxArgs
  /\ render \in {"waiting", "woken"}
  /\ redraw.phase \in {"none", "read", "draw", "drawn"}
  /\ input.mods \subseteq Modifiers

Flushed == guac_terminal_display_flush_operations(term.display)

\* Whether the operations pending, carried out now, would show what drawing
\* at once would have shown, unless calls of some kinds were made.
DrawnUnless(kinds) ==
  Running /\ ~redraw.raced /\ term.display.kinds \cap kinds = {} => Flushed.surface = term.display.screen

\* Deferring what is drawn changes nothing while text scrolls up and is
\* deleted: whatever SETs and upward COPYs are pending, the flush shows what
\* drawing each at once would have (display.c, set_columns and copy_rows).
ScrollingUpDrawn == DrawnUnless({"down", "right", "wide"})

\* Likewise while text scrolls down, thanks to the flush that precedes a copy
\* downwards (display.c:434).
ScrollingDownDrawn == DrawnUnless({"up", "left", "right", "wide"})

\* What a row of the buffer looks like at a column.
LookAt(chars, c) ==
  IF c >= Len(chars) THEN EmptyCell
  ELSE LET head == Max({k \in 0 .. c : k = 0 \/ chars[k + 1].v # Continuation})
       IN  LookOf(chars[head + 1], c - head)

\* What the terminal should show: its buffer from the scroll offset on.
View == [r \in 0 .. term.display.height - 1 |-> [c \in 0 .. term.display.width - 1 |->
           LookAt(guac_terminal_buffer_get_columns(Buffer(term), r - term.scroll_offset), c)]]

\* Buffer and display are updated separately and never diverge: what has been
\* drawn is the buffer, cursor included, through scrolling, resizing, erasing
\* and leaving the alternate screen.  Excepted are wide characters under the
\* cursor, ranges that had to be fitted to the display, output that scrolls
\* while the user looks at the scrollback, and whatever else happened while
\* everything was drawn again without the lock (terminal.c:2120, 2155).
ViewCurrent ==
  Running /\ ~redraw.raced /\ term.display.kinds \cap {"wide", "clipped", "behind"} = {} =>
    View = term.display.screen

\* Whatever moves it, the cursor is on the screen or has just passed its last
\* column (guac_terminal_move_cursor(), __guac_terminal_resize()).
CursorInside ==
  /\ term.cursor_row \in 0 .. term.term_height - 1
  /\ term.cursor_col \in 0 .. term.term_width + 1

\* A wide character is never torn: no continuation without its character and
\* no character short of its columns (guac_terminal_buffer_force_break()).
CharsWhole ==
  \A b \in {term.buffers.normal, term.buffers.alternate} : \A i \in DOMAIN b.rows :
    LET chars == b.rows[i].chars
        Cont(c) == c < Len(chars) /\ chars[c + 1].v = Continuation
    IN  \A c \in 0 .. Len(chars) - 1 :
          IF Cont(c)
            THEN \E k \in 0 .. c - 1 : chars[k + 1].w > c - k /\ \A j \in k + 1 .. c : Cont(j)
            ELSE \A j \in c + 1 .. c + chars[c + 1].w - 1 : Cont(j)

\* No parameter of a control sequence is left for the next one, whichever
\* bytes the sequence was made of (guac_terminal_csi()'s static variables).
CsiClean ==
  term.char_handler # "csi" =>
    /\ <<statics.argc, statics.param, statics.private_mode>> = <<0, 0, "none">>
    /\ \A i \in DOMAIN statics.argv : statics.argv[i] = 0

\* Scrolled back or not, the rows shown are rows the buffer has, and the
\* scrollbar tells where they are (guac_terminal_scroll_display_up(), _down()).
ScrollInside ==
  Running /\ term.scroll_offset # 0 =>
    /\ term.scroll_offset \in 0 .. guac_terminal_get_available_scroll(term)
    /\ term.scrollbar.value = -term.scroll_offset

\* While text stays highlighted after it was copied, it is still the text
\* that was copied: what is written or erased over it clears the highlight,
\* and scrolling moves it along (guac_terminal_select_touch()).
HighlightIsClipboard ==
  Running /\ term.selection_committed => term.clipboard = SelectedText(term)

\* The codepoints of a row.
Text(b, row) ==
  LET chars == guac_terminal_buffer_get_columns(b, row)
  IN  [i \in 1 .. Len(chars) |-> chars[i].v]

\* What has scrolled off the screen is kept: output moves it further back and
\* changes nothing in it until the ring has no room for it.  A reset discards
\* it, and a taller screen takes some of it back (guac_terminal_scroll_up()).
ScrollbackKept ==
  [][ LET old == term.buffers.normal
          new == term'.buffers.normal
          n   == (new.top - old.top) % Available(old)
      IN  /\ term'.term_height <= term.term_height
          /\ new.length >= old.length
          /\ term.scroll_start >= 0
          /\ "clipped" \notin term'.display.kinds
          /\ ~term'.display.assert_failed
          => \A row \in n + term.term_height - Available(old) .. -1 :
               Text(new, row - n) = Text(old, row)
    ]_vars

\* Bytes written to a pipe stream all leave in order, however it is flushed,
\* closed or replaced (guac_terminal_pipe_stream_write(), _flush(), _close()).
PipeLosesNothing ==
  [][ IsPrefix(term.sent \o term.pipe_buffer, term'.sent \o term'.pipe_buffer) ]_vars

\* What is written is drawn, also when it comes while a frame is being drawn:
\* the flag is cleared before the terminal is locked for drawing
\* (guac_terminal_render_frame()).  So is what a change of colours draws.
OutputShown ==
  term.modified \/ redraw.phase # "none" ~>
                   \/ ~Running
                   \/ /\ ~term.modified
                      /\ redraw.phase = "none"
                      /\ term.display.operations = Grid(term.display.width, term.display.height, Nop)

\* When the operations that were put off are drawn, the screen shows the rows
\* of the buffer in view, the cursor is within the screen and the view within
\* the scrollback.
ScreenCurrent ==
  /\ ScrollingUpDrawn
  /\ ScrollingDownDrawn
  /\ ViewCurrent
  /\ CursorInside
  /\ ScrollInside

\* No step leaves half of a double-width character, changes rows that have
\* scrolled out of the screen other than by dropping the oldest, or carries
\* parameters over into the next control sequence.
TextKept ==
  /\ [](TypeOK /\ CharsWhole /\ CsiClean)
  /\ ScrollbackKept

\* What is written to the terminal is drawn, or reaches the pipe it is
\* redirected to, in whichever order threads write and render.
OutputDelivered ==
  /\ PipeLosesNothing
  /\ OutputShown

=============================================================================
