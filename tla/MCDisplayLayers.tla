--------------------------- MODULE MCDisplayLayers ---------------------------
(***************************************************************************)
(* Pictures: what a display sends of its layers (DisplayLayers), and what  *)
(* guacenc and guaclog make of a recording (Guacenc, Guaclog), and the     *)
(* functions on rectangles, sizes and text (GuacCommon) on samples.  They  *)
(* share no state; each behaviour is one of one of them, the others        *)
(* staying as they begin.                                                  *)
(*                                                                         *)
(* Cells are 2 x 2 pixels, layers up to 6 x 4; every script first paints   *)
(* the whole layer, as a plugin does.                                      *)
(***************************************************************************)
EXTENDS DisplayLayers, Guacenc, Guaclog

CONSTANT ExtraLayer

VARIABLES
  part,
  sample   \* inputs of a function of GuacCommon

MCCanvas == (0 .. 5) \X (0 .. 3)
MCColours == 0 .. 4

\* A picture whose cells differ; some have the same hash.
Rows == << <<1, 2, 3, 1, 4, 2>>, <<3, 3, 1, 4, 2, 1>>,
           <<2, 4, 4, 1, 3, 3>>, <<1, 1, 2, 3, 4, 4>> >>
Pattern == [p \in MCCanvas |-> Rows[p[2] + 1][p[1] + 1]]
\* Its cells change places; in the other all have the same hash.
Swapped == [p \in MCCanvas |-> Pattern[<<(p[1] + 2) % 4, p[2]>>]]
Woven == [p \in MCCanvas |-> 1 + ((p[1] + 2 * p[2]) % 4)]
Plain(c) == [p \in MCCanvas |-> c]
Spotted == [p \in MCCanvas |-> IF p = <<1, 1>> THEN 0 ELSE 3]

R(x, y, w, h) == guac_rect_init(x, y, w, h)
Whole == R(0, 0, 4, 4)

PutOn(l, r, picture, hint) ==
  [call |-> "put", layer |-> l, rect |-> r, picture |-> picture, hint |-> hint]
Scroll(r, dx, dy) ==
  [call |-> "scroll", layer |-> DefaultLayer, rect |-> r, dx |-> dx, dy |-> dy]
ResizeTo(l, w, h) == [call |-> "resize", layer |-> l, width |-> w, height |-> h]
Replace(w, h, picture) ==
  [call |-> "replace", layer |-> DefaultLayer, width |-> w, height |-> h,
   picture |-> picture]
Set(l, a, v) == [call |-> "set", layer |-> l, attribute |-> a, value |-> v]
AllocLayer(l, opaque) == [call |-> "alloc", layer |-> l, opaque |-> opaque]
FreeLayer(l) == [call |-> "free", layer |-> l]
End == [call |-> "end"]
MouseTo(at) == [call |-> "mouse", at |-> at]
Cursor(c) == [call |-> "cursor", cursor |-> c]

None == [width |-> 1, height |-> 1, hotspot |-> 0, image |-> [p \in MCCanvas |-> 0]]
Dot == [width |-> 2, height |-> 2, hotspot |-> 1,
        image |-> [p \in MCCanvas |-> IF p = <<0, 0>> THEN 0 ELSE 2]]
Pointer == [width |-> 2, height |-> 2, hotspot |-> 0,
            image |-> [p \in MCCanvas |-> IF p = <<1, 0>> THEN 0 ELSE 1]]
BuiltinCursors == {None, Dot, Pointer}

Start(w, h) == << {ResizeTo(DefaultLayer, w, h)},
                  {PutOn(DefaultLayer, R(0, 0, w, h), Pattern, DefaultLayer)}, {End} >>

Paint(l, r) == {PutOn(l, r, pic, l) : pic \in {Swapped, Woven, Plain(3), Spotted}}
Fills == UNION {Paint(DefaultLayer, r) : r \in {R(1, 1, 2, 2), R(0, 2, 4, 2), Whole}}
Scrolls == {Scroll(Whole, d[1], d[2]) :
              d \in {<<0, 1>>, <<0, 2>>, <<1, 0>>, <<2, 0>>, <<0, -2>>, <<1, 1>>}}
Changes4x4 == Scrolls \cup Fills

\* A layer is scrolled and painted within two frames.
Scrolling == Start(4, 4) \o << Changes4x4, Changes4x4, {End}, Changes4x4, {End} >>

\* The layer shrinks, grows again and is painted.
Resizing(w, h) ==
  Start(4, 4) \o << {ResizeTo(DefaultLayer, 3, 3), ResizeTo(DefaultLayer, 4, 2)},
                    {End, MouseTo(1)} \cup Fills, {ResizeTo(DefaultLayer, w, h)},
                    Paint(DefaultLayer, R(0, 0, w, h)), {End},
                    {Scroll(R(0, 0, w, h), 1, 0), Scroll(R(0, 0, w, h), 2, 0)}, {End} >>

\* The plugin lends its own buffers.
Lending ==
  Start(4, 4) \o << {Replace(6, 4, Pattern), Replace(5, 3, Spotted), Replace(4, 4, Pattern)},
                    {End} \cup Scrolls, {Replace(6, 4, Spotted), Replace(4, 3, Pattern)},
                    {End}, Scrolls, {End} >>

\* Another layer comes and goes, and its contents are copied.
Extra(opaque) ==
  Start(4, 4) \o << {AllocLayer(ExtraLayer, opaque)}, {ResizeTo(ExtraLayer, 4, 2)},
                    Paint(ExtraLayer, R(0, 0, 4, 2)),
                    {End, Set(ExtraLayer, "place", 1), Set(ExtraLayer, "opacity", 100)},
                    {End, MouseTo(1)},
                    {PutOn(DefaultLayer, R(0, 0, 4, 2), pic, ExtraLayer) :
                       pic \in {Pattern, Spotted}} \cup Paint(ExtraLayer, R(1, 0, 2, 2)),
                    {MouseTo(2), Set(ExtraLayer, "touches", 2), Set(ExtraLayer, "lossless", 1)},
                    {End}, {FreeLayer(ExtraLayer)}, {MouseTo(0)} \cup Fills, {End} >>

\* The cursor changes between and within frames.
Pointing ==
  << {Cursor(c) : c \in BuiltinCursors} >> \o Start(4, 4) \o
  << {Cursor(c) : c \in BuiltinCursors} \cup Fills,
     {Cursor(c) : c \in BuiltinCursors} \cup {MouseTo(1)}, {End, MouseTo(2)},
     {Cursor(c) : c \in BuiltinCursors}, {End} >>

MCScripts == {Scrolling, Resizing(4, 4), Resizing(6, 4), Resizing(5, 3), Lending,
              Extra(TRUE), Extra(FALSE), Pointing}

-----------------------------------------------------------------------------
(* Recordings *)

Fill(l, x, y, w, h, shade) ==
  << {<<"rect", <<l, x, y, w, h>>>>}, {<<"cfill", <<12, l, shade, shade, shade, 255>>>>} >>
Sized(l, w, h, shade) == << {<<"size", <<l, w, h>>>>} >> \o Fill(l, 0, 0, w, h, shade)
SyncAt(ts) == {<<"sync", <<t>>>> : t \in ts}

\* Layers on layers, of either index, one of them hardly visible, hidden or gone.
Moves == {<< <<1, 0, 0, 0, 1>>, <<2, 1, 1, 0, 0>> >>, << <<1, 0, 0, 0, 1>>, <<2, 1, 0, 1, 5>> >>,
          << <<1, 2, 0, -1, 0>>, <<2, 0, 1, 1, 3>> >>, << <<1, 2, 1, 0, 0>>, <<2, 3, 0, 0, 3>> >>,
          << <<1, 0, 1, 0, 2>>, <<2, 0, 0, 0, 1>> >>, << <<1, 0, 1, 0, 1>>, <<2, 9, 0, 0, 1>> >>}
Tree(m) ==
  Sized(0, 3, 2, 1) \o Sized(1, 2, 2, 2) \o Sized(2, 2, 1, 3) \o
  << {<<"move", m[1]>>}, {<<"move", m[2]>>},
     {<<"sync", <<50>>>>, <<"size", <<3, 2, 2>>>>, <<"cfill", <<14, 1, 3>>>>,
      <<"cfill", <<14, 1, 3, 3, 3, 0>>>>},
     {<<"shade", <<i, o>>>> : i \in {1, 2}, o \in {0, 128, 255}} \cup
       {<<"dispose", <<1>>>>, <<"dispose", <<2>>>>, <<"dispose", <<7>>>>},
     {<<"mouse", <<1, 1>>>>, <<"cursor", <<0, 0, 2, 0, 0, 1, 1>>>>, <<"shade", <<1, 64>>>>},
     {<<"mouse", <<1, 0, 0, 60>>>>, <<"mouse", <<0>>>>, <<"transfer", <<0>>>>},
     SyncAt({40, 60}) >>

\* Pictures change at times that are no multiples of a frame, and a clock that stands
\* still or goes backwards.
Timeline ==
  << {<<"sync", <<0>>>>, <<"sync", <<>>>>, <<"sync", <<990>>>>} >> \o Sized(0, 2, 2, 1) \o
  << SyncAt({0, 1000, 1001}) >> \o Fill(0, 0, 0, 1, 1, 2) \o
  << SyncAt({1000, 1039, 1040, 1079}) >> \o Fill(0, 1, 0, 1, 1, 3) \o
  << SyncAt({1040, 1080, 1119, 1130}) >> \o Fill(0, 0, 1, 1, 1, 3) \o
  << SyncAt({1100, 1135, 1160, 1200}) >>

\* Every shape of picture.
Shapes == << {<<"size", <<0, w, h>>>> : w \in 0 .. 7, h \in 1 .. 7}, SyncAt({1000}),
             {<<"size", <<0, 3, 5>>>>}, SyncAt({1000, 1080}) >>

MCImages ==
  {[data |-> <<1, 2, 3>>, width |-> 2, height |-> 2,
    image |-> [p \in Area(0, 0, 2, 2) |-> IF p = <<0, 1>> THEN 0 ELSE 2]],
   [data |-> <<4>>, width |-> 1, height |-> 2, image |-> [p \in Area(0, 0, 1, 2) |-> 3]]}

Masks == {1, 2, 4, 6, 8, 9, 10, 11, 12, 14, 15, 3}

\* Two images are received at a time, on a layer and on a buffer, and are copied.
Streams ==
  Sized(0, 2, 3, 1) \o
  << {<<"img", <<0, 14, i, mime, x, y>>>> : i \in {0, -1}, x \in {0, 2}, y \in {0, 1},
        mime \in {"image/png", "image/gif"}},
     {<<"img", <<1, mask, -1, "image/jpeg", 1, 0>>>> : mask \in Masks} \cup
       {<<"img", <<9, 14, 0, "image/png", 0, 0>>>>, <<"img", <<1, 12, -9, "image/png", 0, 0>>>>,
        <<"img", <<1>>>>},
     {<<"blob", <<0, <<1>>>>>>}, {<<"blob", <<1, <<4, 5>>>>>>},
     {<<"blob", <<0, <<2, 3>>>>>>, <<"end", <<0>>>>, <<"blob", <<5, <<1>>>>>>}, {<<"end", <<1>>>>},
     {<<"end", <<0>>>>, <<"end", <<7>>>>},
     {<<"copy", <<-1, 0, 0, 2, 2, 12, 0, 0, 1>>>>, <<"copy", <<0, 0, 0, 1, 2, 14, 0, 1, 1>>>>,
      <<"copy", <<0, 0, 0, 2, 2, 14, -2, 1, 1>>>>, <<"copy", <<0, 0, 0, 2, 2, 14, -7, 1, 1>>>>,
      <<"copy", <<-2, 0, 0, 1, 1, 12, 0, 0, 0>>>>, <<"copy", <<99, 0, 0, 1, 1, 12, 0, 0, 0>>>>},
     {<<"cursor", <<1, 0, -1, 0, 0, 2, 2>>>>, <<"dispose", <<-1>>>>, <<"dispose", <<-9>>>>,
      <<"rect", <<-2, 0, 0, 1, 2>>>>, <<"rect", <<-9, 0, 0, 1, 1>>>>},
     {<<"mouse", <<1, 1, 0, 1000>>>>} >>

MCRecordings == {Tree(m) : m \in Moves} \cup {Timeline, Shapes, Streams}

-----------------------------------------------------------------------------
(* Samples *)

Rects == {guac_common_rect_init(x, y, w, h) : x, y \in {0, 2, 5}, w, h \in {1, 4}}
Pictures == {guac_common_rect_init(0, 0, 9, 9), guac_common_rect_init(0, 0, 6, 7)}
Numbers == UNION {[1 .. n -> {0, 1, 3, 6}] : n \in 1 .. 3}
Strings(k) == UNION {[1 .. n -> {1, 2}] : n \in 0 .. k}
Texts == UNION {[1 .. n -> {13, 10, 65, 233, 8364, 128512}] : n \in 0 .. 3}

SamplesOf(kind, as, bs, ns) == [kind : {kind}, a : as, b : bs, n : ns]

Samples ==
  UNION {SamplesOf("rects", Rects, Rects, {1}), SamplesOf("grid", Rects, Pictures, {2, 3, 4}),
         SamplesOf("sizes", {<<>>}, Numbers, {7, 18}),
         SamplesOf("join", [1 .. 2 -> Strings(2)] \cup {<<>>, << <<1>>, <<2, 2>>, <<1>> >>},
                   Strings(1), 0 .. 6),
         SamplesOf("find", [1 .. 5 -> {1, 2}], Strings(3), 0 .. 5),
         SamplesOf("text", Texts, {<<>>}, {1, 2, 3, 5, 7})}

\* Splitting, growing, measuring, joining, searching and converting do what their
\* headers say, for every sample.
HelpersSound ==
  CASE sample.kind = "rects" -> SplitExactly(sample.a, sample.b)
    [] sample.kind = "grid"  -> GridCovers(sample.n, sample.a, sample.b)
    [] sample.kind = "sizes" -> SizesRight(sample.n, sample.b)
    [] sample.kind = "join"  -> JoinsWhatFits(sample.a, sample.b, sample.n)
    [] sample.kind = "find"  -> FindsFirst(sample.a, sample.b, sample.n)
    [] sample.kind = "text"  -> TextSurvives(sample.a, sample.n, sample.n)
    [] sample.kind = "none"  -> TRUE

-----------------------------------------------------------------------------
NoSample == [kind |-> "none"]

Init ==
  /\ part \in {"layers", "encoder", "log", "helpers"}
  /\ LayersInit /\ (part # "layers" => script = Scrolling)
  /\ EncoderInit /\ (part # "encoder" => recording = Timeline)
  /\ LogInit
  /\ sample = NoSample

\* One function after another.
Sample ==
  /\ sample' \in IF sample = NoSample THEN Samples ELSE {NoSample}
  /\ UNCHANGED <<part, layerVars, encoderVars, logVars>>

Next ==
  \/ part = "layers" /\ LayersNext /\ UNCHANGED <<part, sample, encoderVars, logVars>>
  \/ part = "encoder" /\ EncoderNext /\ UNCHANGED <<part, sample, layerVars, logVars>>
  \/ part = "log" /\ LogNext /\ UNCHANGED <<part, sample, layerVars, encoderVars>>
  \/ part = "helpers" /\ Sample

\* After every frame users see what was drawn, the buffers later frames are
\* copied from agree with what users have, and so does the cursor; and the
\* functions this rests on do what they should.
PictureSound ==
  /\ LayersTypeOK
  /\ ShownIsDrawn
  /\ LastIsRemote
  /\ CursorPixels
  /\ HelpersSound

=============================================================================
