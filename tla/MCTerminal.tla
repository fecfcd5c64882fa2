----------------------------- MODULE MCTerminal -----------------------------
EXTENDS TerminalSession

Num(n) == [c |-> "num", n |-> n]
Plain(S) == {Byte(c) : c \in S}
Printed(s) == [i \in 1 .. Len(s) |-> Byte(s[i])]

Screenful == Printed(<<"a", "b", "c", "d", "e", "f", "ESC", "[", "H">>)

Drawing == [h \in Handlers |->
  CASE h = "echo" -> Plain({"x", "LF", "CR", "ESC"})
    [] h = "escape" -> Plain({"[", "M", "D"})
    [] h = "csi" -> Plain({"@", "P", "L", "M", "S", "T", "H", "B", "K"}) \cup {Num(2), Num(3)}
    [] OTHER -> {}]
All == [h \in Handlers |->
  CASE h = "echo" -> Plain({"x", "lead", "cont", "cont9B", "LF", "CR", "BS", "HT", "SO", "SI", "ENQ", "BEL", "ESC"})
    [] h = "escape" -> Plain({"(", ")", "]", "[", "#", "_", "7", "8", "D", "E", "H", "M", "Z", "c", "x"})
    [] h \in {"g0_charset", "g1_charset"} -> Plain({"B", "0"})
    [] h = "csi" -> Plain({"@", "A", "B", "C", "D", "E", "F", "G", "H", "J", "K", "L", "M", "P", "S", "T", "X",
                           "c", "d", "g", "h", "l", "m", "n", "r", "s", "u", "q", ";", "?"}) \cup {Num(2)}
    [] h = "osc" -> Plain({";", "ST", "x"}) \cup {Num(n) : n \in {4, 482202, 482203, 482204, 7}}
    [] h = "ctrl_func" -> Plain({"8", "x"})
    [] h \in {"window_title", "close_pipe_stream"} -> Plain({"x", "ST"})
    [] h \in {"open_pipe_stream", "set_scrollback", "xterm_palette"} -> Plain({";", "BEL"}) \cup {Num(3)}
    [] h = "apc" -> Plain({"x", "ESC", "ST"})
    [] OTHER -> {}]
Modes == [h \in Handlers |->
  CASE h = "echo" -> Plain({"x", "LF", "ESC"})
    [] h = "escape" -> Plain({"["})
    [] h = "csi" -> Plain({"h", "l", "?", "J"}) \cup {Num(n) : n \in {4, 25, 1047, 1049}}
    [] OTHER -> {}]
Editing == [h \in Handlers |->
  CASE h = "echo" -> Plain({"x", "LF", "ESC"})
    [] h = "escape" -> Plain({"["})
    [] h = "csi" -> Plain({"H", "K"})
    [] OTHER -> {}]
Typing == [h \in Handlers |-> IF h = "echo" THEN Plain({"x", "LF"}) ELSE {}]

\* Five rows and more, so that there is scrollback and the ring has wrapped.
History == Printed(<<"a", "LF", "b", "LF", "c", "LF", "CR", "d", "LF", "e", "LF", "f", "CR", "LF", "g",
                     "LF", "h", "LF", "i", "LF", "CR", "j">>)

Scenario(printed, bytes, keys, mouse, sizes, streams, bound) ==
  [printed |-> printed, bytes |-> bytes, keys |-> keys, mouse |-> mouse, sizes |-> sizes,
   streams |-> streams, steps |-> bound]

Piping == [h \in Handlers |->
  CASE h = "echo" -> Plain({"x", "ESC"})
    [] h = "escape" -> Plain({"]"})
    [] h = "osc" -> Plain({";"}) \cup {Num(482202), Num(482203)}
    [] h \in {"open_pipe_stream", "close_pipe_stream"} -> Plain({";", "BEL"}) \cup {Num(2), Num(3)}
    [] OTHER -> {}]

\* Wide characters, and a region of the first two rows.
Region == Printed(<<"lead", "cont", "lead", "cont", "e", "f">>) \o <<Byte("ESC"), Byte("["), Num(1), Byte(";"), Num(2), Byte("r"),
  Byte("ESC"), Byte("["), Byte(";"), Num(2), Byte("H")>>

MCScenarios == {
  Scenario(Region, Drawing, {}, {}, {}, FALSE, 2),
  Scenario(Screenful, Drawing, {}, {}, {}, FALSE, 3),
  Scenario(Screenful, All, {}, {}, {}, FALSE, 2),
  Scenario(Screenful, Modes, {}, {}, {}, FALSE, 3),
  Scenario(Screenful, Piping, {}, {}, {}, FALSE, 4),
  Scenario(History, Typing, {"shift", "ctrl", "PageUp", "PageDown", "V", "Left"}, {}, {}, FALSE, 4),
  Scenario(History, Editing, {}, {{}, {"left"}}, {}, FALSE, 4),
  Scenario(History, Typing, {}, {{}, {"scroll_up"}, {"scroll_down"}, {"right"}}, {}, TRUE, 3),
  Scenario(History, Typing, {}, {}, {<<3, 2>>, <<2, 4>>, <<2, 3>>}, FALSE, 3)}
MCSize == <<2, 3>>
=============================================================================
