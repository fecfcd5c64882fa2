------------------------------ MODULE Guacenc ------------------------------
(***************************************************************************)
(* guacenc: the instructions of a recording are drawn on layers and        *)
(* buffers, at every "sync" (and every recorded position of the mouse) the *)
(* layers are flattened to one picture, and the video gets as many frames  *)
(* of the previous picture as the time that went by asks for.              *)
(*                                                                         *)
(* An instruction is an opcode and its arguments, numbers in place of the  *)
(* texts for numbers.  A pixel of a layer is a shade, 0 being transparent  *)
(* and the others opaque; one of a flattened picture is what is seen from  *)
(* the top: the shades down to one that hides the rest, those of a layer   *)
(* that is partly transparent between two negative marks.  A recording is  *)
(* a sequence of choices of instructions; its layers form a tree below the *)
(* default layer, which has a size before the cursor is shown.             *)
(***************************************************************************)
EXTENDS Integers, SequencesExt

CONSTANTS GUACENC_DISPLAY_MAX_LAYERS,
          GUACENC_DISPLAY_MAX_BUFFERS,
          GUACENC_DISPLAY_MAX_STREAMS,
          GUACENC_IMAGE_STREAM_INITIAL_LENGTH,
          GUACENC_VIDEO_FRAMERATE,
          VideoWidth, VideoHeight,
          MaxShade,        \* the brightest shade
          Images,          \* pictures and the data they are decoded from
          Recordings

VARIABLES display,    \* the guacenc_display: layers, buffers, streams, cursor
          video,      \* the guacenc_video
          recording,  \* what was not read yet
          handled,    \* the last instruction
          syncs       \* the frames that were flushed: when, and what was to be shown

encoderVars == <<display, video, recording, handled, syncs>>

NO_PARENT == -1      \* GUACENC_LAYER_NO_PARENT
LayerIds == 0 .. GUACENC_DISPLAY_MAX_LAYERS - 1
BufferIds == 0 .. GUACENC_DISPLAY_MAX_BUFFERS - 1
StreamIds == 0 .. GUACENC_DISPLAY_MAX_STREAMS - 1

Area(x, y, w, h) == (x .. x + w - 1) \X (y .. y + h - 1)
Moved(p, dx, dy) == <<p[1] + dx, p[2] + dy>>

-----------------------------------------------------------------------------
(* Buffers *)

guacenc_buffer_alloc ==
    [width |-> 0, height |-> 0, autosize |-> FALSE, image |-> <<>>, path |-> {}]

\* cairo and surface are not NULL.
HasImage(b) == b.width > 0 /\ b.height > 0
Pixel(b, p) == IF p \in DOMAIN b.image THEN b.image[p] ELSE 0

\* The drawing context is a new one and has no path.
guacenc_buffer_resize(b, width, height) ==
    IF b.width = width /\ b.height = height THEN b
    ELSE [b EXCEPT !.width = width, !.height = height, !.path = {},
                   !.image = [p \in Area(0, 0, width, height) |-> Pixel(b, p)]]

guacenc_buffer_fit(b, x, y) ==
    guacenc_buffer_resize(b, IF b.width < x + 1 THEN x + 1 ELSE b.width,
                          IF b.height < y + 1 THEN y + 1 ELSE b.height)

\* The autosize of a buffer that is about to be drawn on.
Fitted(b, x, y) == IF b.autosize THEN guacenc_buffer_fit(b, x, y) ELSE b

\* GUAC_COMP_... to CAIRO_OPERATOR_...
guacenc_display_cairo_operator(mask) ==
    CASE mask = 12 -> "SOURCE"    [] mask = 14 -> "OVER"
      [] mask = 4  -> "IN"        [] mask = 8  -> "OUT"
      [] mask = 6  -> "ATOP"      [] mask = 11 -> "DEST_OVER"
      [] mask = 1  -> "DEST_IN"   [] mask = 2  -> "DEST_OUT"
      [] mask = 9  -> "DEST_ATOP" [] mask = 10 -> "XOR"
      [] mask = 15 -> "ADD"       [] OTHER -> "OVER"

\* What Cairo makes of a pixel s that is drawn where d is.
Composed(operator, s, d) ==
    CASE operator = "SOURCE"    -> s
      [] operator = "OVER"      -> IF s /= 0 THEN s ELSE d
      [] operator = "IN"        -> IF d /= 0 THEN s ELSE 0
      [] operator = "OUT"       -> IF d = 0 THEN s ELSE 0
      [] operator = "ATOP"      -> IF d = 0 \/ s = 0 THEN d ELSE s
      [] operator = "DEST_OVER" -> IF d /= 0 THEN d ELSE s
      [] operator = "DEST_IN"   -> IF s /= 0 THEN d ELSE 0
      [] operator = "DEST_OUT"  -> IF s = 0 THEN d ELSE 0
      [] operator = "DEST_ATOP" -> IF s = 0 \/ d = 0 THEN s ELSE d
      [] operator = "XOR"       -> IF s = 0 THEN d ELSE IF d = 0 THEN s ELSE 0
      [] operator = "ADD"       -> IF s + d > MaxShade THEN MaxShade ELSE s + d

\* Those that also change what is outside of the path that is filled.
Unbounded == {"IN", "OUT", "DEST_IN", "DEST_ATOP"}

\* cairo_fill() of the path with the pixels source[p]; the path is used up.
Filled(b, operator, source) ==
    [b EXCEPT !.path = {},
        !.image = [p \in DOMAIN b.image |->
            IF p \in b.path THEN Composed(operator, source[p], b.image[p])
            ELSE IF operator \in Unbounded THEN Composed(operator, 0, b.image[p])
            ELSE b.image[p]]]

-----------------------------------------------------------------------------
(* Layers, buffers and streams of the display *)

guacenc_layer_alloc(index) ==
    [buffer |-> guacenc_buffer_alloc, x |-> 0, y |-> 0, z |-> 0, opacity |-> 255,
     parent_index |-> IF index = 0 THEN NO_PARENT ELSE 0]

\* The layers are given, and allocated when first asked for.
guacenc_display_get_layer(d, index) ==
    IF index \in DOMAIN d.layers THEN d
    ELSE [d EXCEPT !.layers = @ @@ (index :> guacenc_layer_alloc(index))]

guacenc_display_get_buffer(d, index) ==
    IF -index - 1 \in DOMAIN d.buffers THEN d
    ELSE [d EXCEPT !.buffers =
            @ @@ (-index - 1 :> [guacenc_buffer_alloc EXCEPT !.autosize = TRUE])]

\* An index for which there is, or can be, a buffer.
IsBuffer(index) == IF index >= 0 THEN index \in LayerIds ELSE -index - 1 \in BufferIds

guacenc_display_get_related_buffer(d, index) ==
    IF index >= 0 THEN guacenc_display_get_layer(d, index)
    ELSE guacenc_display_get_buffer(d, index)

BufferOf(d, index) ==
    IF index >= 0 THEN d.layers[index].buffer ELSE d.buffers[-index - 1]

WithBuffer(d, index, b) ==
    IF index >= 0 THEN [d EXCEPT !.layers[index].buffer = b]
    ELSE [d EXCEPT !.buffers[-index - 1] = b]

guacenc_display_free_layer(d, index) ==
    IF index \in LayerIds
    THEN [d EXCEPT !.layers = [i \in DOMAIN @ \ {index} |-> @[i]]] ELSE d

guacenc_display_free_buffer(d, index) ==
    IF -index - 1 \in BufferIds
    THEN [d EXCEPT !.buffers = [i \in DOMAIN @ \ {-index - 1} |-> @[i]]] ELSE d

guacenc_image_stream_alloc(mask, index, mimetype, x, y) ==
    [mask |-> mask, index |-> index, x |-> x, y |-> y,
     decoder |-> mimetype \in {"image/png", "image/jpeg", "image/webp"},
     buffer |-> <<>>, max_length |-> GUACENC_IMAGE_STREAM_INITIAL_LENGTH]

guacenc_display_create_image_stream(d, index, stream) ==
    IF index \notin StreamIds THEN d
    ELSE [d EXCEPT !.image_streams = (index :> stream) @@ @]

guacenc_image_stream_receive(s, data) ==
    [s EXCEPT !.buffer = @ \o data,
              !.max_length = IF @ - Len(s.buffer) < Len(data) THEN @ * 2 + Len(data)
                             ELSE @]

\* The image in the data, with whatever may follow it; {} if there is none.
Decoded(data) == {i \in Images : IsPrefix(i.data, data)}

guacenc_image_stream_end(d, s) ==
    LET given == guacenc_display_get_related_buffer(d, s.index)
    IN  IF ~IsBuffer(s.index) THEN d
        ELSE IF ~s.decoder \/ Decoded(s.buffer) = {} THEN given
        ELSE LET i == CHOOSE i \in Decoded(s.buffer) : TRUE
                 b == Fitted(BufferOf(given, s.index), s.x + i.width, s.y + i.height)
                 source == [p \in DOMAIN b.image |-> Pixel(i, Moved(p, -s.x, -s.y))]
                 shape == b.path \cup Area(s.x, s.y, i.width, i.height)
             IN  WithBuffer(given, s.index,
                    IF HasImage(b)
                    THEN Filled([b EXCEPT !.path = shape],
                                guacenc_display_cairo_operator(s.mask), source)
                    ELSE b)

-----------------------------------------------------------------------------
(* What an instruction changes of the display *)

guacenc_handle_img(d, argv) ==
    IF Len(argv) < 6 THEN d
    ELSE guacenc_display_create_image_stream(d, argv[1],
            guacenc_image_stream_alloc(argv[2], argv[3], argv[4], argv[5], argv[6]))

guacenc_handle_blob(d, argv) ==
    IF Len(argv) < 2 \/ argv[1] \notin DOMAIN d.image_streams THEN d
    ELSE [d EXCEPT !.image_streams[argv[1]] = guacenc_image_stream_receive(@, argv[2])]

\* The stream stays: its image is drawn again at another "end" of its index.
guacenc_handle_end(d, argv) ==
    IF Len(argv) < 1 \/ argv[1] \notin DOMAIN d.image_streams THEN d
    ELSE guacenc_image_stream_end(d, d.image_streams[argv[1]])

guacenc_handle_cfill(d, argv) ==
    IF Len(argv) < 6 \/ ~IsBuffer(argv[2]) THEN d
    ELSE LET given == guacenc_display_get_related_buffer(d, argv[2])
             b == BufferOf(given, argv[2])
             source == [p \in DOMAIN b.image |-> IF argv[6] = 0 THEN 0 ELSE argv[3]]
         IN  IF ~HasImage(b) THEN given
             ELSE WithBuffer(given, argv[2],
                    Filled(b, guacenc_display_cairo_operator(argv[1]), source))

guacenc_handle_rect(d, argv) ==
    IF Len(argv) < 5 \/ ~IsBuffer(argv[1]) THEN d
    ELSE LET given == guacenc_display_get_related_buffer(d, argv[1])
             b == Fitted(BufferOf(given, argv[1]), argv[2] + argv[4], argv[3] + argv[5])
             shape == b.path \cup Area(argv[2], argv[3], argv[4], argv[5])
         IN  WithBuffer(given, argv[1],
                IF HasImage(b) THEN [b EXCEPT !.path = shape] ELSE b)

\* Of a buffer that is copied onto itself, the area is put aside first.
guacenc_handle_copy(d, argv) ==
    IF Len(argv) < 9 \/ ~IsBuffer(argv[1]) THEN d
    ELSE LET found == guacenc_display_get_related_buffer(d, argv[1])
         IN  IF ~IsBuffer(argv[7]) THEN found
             ELSE LET given == guacenc_display_get_related_buffer(found, argv[7])
                      b == Fitted(BufferOf(given, argv[7]),
                                  argv[8] + argv[4], argv[9] + argv[5])
                      src == IF argv[1] = argv[7] THEN b ELSE BufferOf(given, argv[1])
                      area == Area(argv[8], argv[9], argv[4], argv[5])
                      source == [p \in DOMAIN b.image |->
                          IF argv[1] = argv[7] /\ p \notin area THEN 0
                          ELSE Pixel(src, Moved(p, argv[2] - argv[8], argv[3] - argv[9]))]
                  IN  WithBuffer(given, argv[7],
                        IF HasImage(src) /\ HasImage(b)
                        THEN Filled([b EXCEPT !.path = @ \cup area],
                                    guacenc_display_cairo_operator(argv[6]), source)
                        ELSE b)

guacenc_handle_size(d, argv) ==
    IF Len(argv) < 3 \/ ~IsBuffer(argv[1]) THEN d
    ELSE LET given == guacenc_display_get_related_buffer(d, argv[1])
         IN  WithBuffer(given, argv[1],
                guacenc_buffer_resize(BufferOf(given, argv[1]), argv[2], argv[3]))

\* The picture is taken from (-sx, -sy) of the source.
guacenc_handle_cursor(d, argv) ==
    IF Len(argv) < 7 \/ ~IsBuffer(argv[3]) THEN d
    ELSE LET given == guacenc_display_get_related_buffer(d, argv[3])
             src == BufferOf(given, argv[3])
             b == guacenc_buffer_resize(given.cursor.buffer, argv[6], argv[7])
             drawn == [p \in DOMAIN b.image |-> Pixel(src, Moved(p, -argv[4], -argv[5]))]
         IN  [given EXCEPT !.cursor.hotspot_x = argv[1], !.cursor.hotspot_y = argv[2],
                !.cursor.buffer = IF HasImage(src) /\ HasImage(b)
                                  THEN [b EXCEPT !.image = drawn] ELSE b]

guacenc_handle_move(d, argv) ==
    IF Len(argv) < 5 \/ argv[1] \notin LayerIds THEN d
    ELSE LET given == guacenc_display_get_layer(d, argv[1])
         IN  IF argv[2] \notin LayerIds THEN given
             ELSE [guacenc_display_get_layer(given, argv[2]) EXCEPT
                    !.layers[argv[1]].parent_index = argv[2],
                    !.layers[argv[1]].x = argv[3],
                    !.layers[argv[1]].y = argv[4],
                    !.layers[argv[1]].z = argv[5]]

guacenc_handle_shade(d, argv) ==
    IF Len(argv) < 2 \/ argv[1] \notin LayerIds THEN d
    ELSE [guacenc_display_get_layer(d, argv[1]) EXCEPT
            !.layers[argv[1]].opacity = argv[2]]

guacenc_handle_dispose(d, argv) ==
    IF Len(argv) < 1 THEN d
    ELSE IF argv[1] >= 0 THEN guacenc_display_free_layer(d, argv[1])
    ELSE guacenc_display_free_buffer(d, argv[1])

-----------------------------------------------------------------------------
(* One picture of all layers *)

\* A layer whose parent is gone, or never was, gets a new one, which is empty.
WithParents(d) ==
    FoldSet(LAMBDA i, e : guacenc_display_get_layer(e, i), d,
            {0} \cup {d.layers[i].parent_index : i \in DOMAIN d.layers \ {0}})

guacenc_display_get_depth(d, index) ==
    LET up[n \in 0 .. GUACENC_DISPLAY_MAX_LAYERS] ==
            IF n = 0 THEN index
            ELSE IF up[n - 1] = 0 THEN 0 ELSE d.layers[up[n - 1]].parent_index
    IN  CHOOSE n \in LayerIds : up[n] = 0 /\ (n > 0 => up[n - 1] /= 0)

\* Mutant: the layers are drawn from the default layer down.
MutantBefore(d, a, b) ==
    LET ka == <<guacenc_display_get_depth(d, a), d.layers[a].parent_index, d.layers[a].z, -a>>
        kb == <<guacenc_display_get_depth(d, b), d.layers[b].parent_index, d.layers[b].z, -b>>
    IN  \E i \in 1 .. 4 : /\ \A j \in 1 .. i - 1 : ka[j] = kb[j]
                          /\ IF i = 1 THEN ka[i] < kb[i] ELSE ka[i] > kb[i]

\* guacenc_display_layer_comparator(): the deepest first, siblings together, and of
\* them the one with the highest z first; the sort is stable.
Before(d, a, b) ==
    LET ka == <<guacenc_display_get_depth(d, a), d.layers[a].parent_index, d.layers[a].z, -a>>
        kb == <<guacenc_display_get_depth(d, b), d.layers[b].parent_index, d.layers[b].z, -b>>
    IN  \E i \in 1 .. 4 : /\ \A j \in 1 .. i - 1 : ka[j] = kb[j]
                          /\ ka[i] > kb[i]

RenderOrder(d) == SetToSortSeq(DOMAIN d.layers, LAMBDA a, b : Before(d, a, b))

\* What is seen of s in front of t, and of s through a layer of some opacity.
InFront(s, t) == IF s /= <<>> /\ Last(s) > 0 THEN s ELSE s \o t
Faded(s, opacity) ==
    IF s = <<>> \/ opacity = 255 THEN s ELSE <<-1 - opacity>> \o s \o <<-1>>
Seen(shade) == IF shade = 0 THEN <<>> ELSE <<shade>>

\* The layer is drawn on the frame of its parent, which then is clipped to it.
Rendered(d, frames, index) ==
    LET l == d.layers[index]
        src == frames[index].image
        inside == Area(l.x, l.y, l.buffer.width, l.buffer.height)
        through(p) == Faded(src[Moved(p, -l.x, -l.y)], l.opacity)
    IN  IF l.opacity = 0 \/ l.parent_index = NO_PARENT \/ ~HasImage(l.buffer)
           \/ ~HasImage(d.layers[l.parent_index].buffer)
        THEN frames
        ELSE [frames EXCEPT ![l.parent_index] =
                [image |-> [p \in DOMAIN @.image |->
                              IF p \in inside THEN InFront(through(p), @.image[p])
                              ELSE @.image[p]],
                 clip |-> inside]]

\* The cursor is drawn within whatever the frame is still clipped to.
guacenc_display_render_cursor(d, frame) ==
    LET c == d.cursor
        left == c.x - c.hotspot_x
        top == c.y - c.hotspot_y
    IN  IF c.x < 0 \/ c.y < 0 THEN frame
        ELSE [frame EXCEPT !.image = [p \in DOMAIN @ |->
                IF p \in frame.clip
                THEN InFront(Seen(Pixel(c.buffer, Moved(p, -left, -top))), @[p])
                ELSE @[p]]]

\* The frame of the default layer.  Every frame starts as a copy of its layer.
guacenc_display_flatten(d) ==
    LET copy(b) == [image |-> [p \in DOMAIN b.image |-> Seen(b.image[p])],
                    clip |-> DOMAIN b.image]
        frames == FoldLeft(LAMBDA f, i : Rendered(d, f, i),
                           [i \in DOMAIN d.layers |-> copy(d.layers[i].buffer)],
                           RenderOrder(d))
    IN  guacenc_display_render_cursor(d, frames[0])

-----------------------------------------------------------------------------
(* The video *)

Unset == [width |-> 0, height |-> 0, image |-> <<>>, lsize |-> 0, psize |-> 0]

guacenc_video_alloc ==
    [last_timestamp |-> 0, next_pts |-> 0, next_frame |-> Unset, written |-> <<>>,
     failed |-> FALSE]

Never == 1000   \* more frames than are ever written at once

\* guacenc_video_flush_frame(), n times
Flushed(v, n) ==
    [v EXCEPT !.written = @ \o [i \in 1 .. n |-> [pts |-> v.next_pts + i - 1,
                                                frame |-> v.next_frame]],
              !.next_pts = @ + n]

\* Mutant: what is left of the time when frames were written is forgotten.
MutantAdvance(v, timestamp, stop) ==
    LET elapsed == ((timestamp - v.last_timestamp) * GUACENC_VIDEO_FRAMERATE) \div 1000
    IN  IF v.last_timestamp = 0 THEN [v EXCEPT !.last_timestamp = timestamp]
        ELSE IF elapsed = 0 THEN v
        ELSE IF stop < elapsed THEN [Flushed(v, stop) EXCEPT !.failed = TRUE]
        ELSE [Flushed(v, elapsed) EXCEPT !.last_timestamp = timestamp]

\* "stop" is the number of frames after which the encoder fails, if it does.
guacenc_video_advance_timeline(v, timestamp, stop) ==
    LET elapsed == ((timestamp - v.last_timestamp) * GUACENC_VIDEO_FRAMERATE) \div 1000
    IN  IF v.last_timestamp = 0 THEN [v EXCEPT !.last_timestamp = timestamp]
        ELSE IF elapsed = 0 THEN v
        ELSE IF stop < elapsed THEN [Flushed(v, stop) EXCEPT !.failed = TRUE]
        ELSE [Flushed(v, elapsed) EXCEPT
                !.last_timestamp = @ + (elapsed * 1000) \div GUACENC_VIDEO_FRAMERATE]

\* The picture with the bars it needs to get the shape of the video.
Converted(w, h, image) ==
    LET scaled_width == (w * VideoHeight) \div h
        scaled_height == (h * VideoWidth) \div w
    IN  IF scaled_width <= VideoWidth
        THEN [width |-> w, height |-> h, image |-> image, lsize |-> 0,
              psize |-> (((VideoWidth - scaled_width) * h) \div VideoHeight) \div 2]
        ELSE [width |-> w, height |-> h, image |-> image, psize |-> 0,
              lsize |-> (((VideoHeight - scaled_height) * w) \div VideoWidth) \div 2]

\* The frame is dropped if it has no pixels or it cannot be scaled.
guacenc_video_prepare_frame(v, buffer, image, dropped) ==
    IF ~HasImage(buffer) THEN v
    ELSE IF dropped THEN [v EXCEPT !.failed = TRUE]
    ELSE [v EXCEPT !.next_frame = Converted(buffer.width, buffer.height, image)]

\* The last frame is written once more.
guacenc_video_free(v) == Flushed(v, 1)

\* guacenc_display_sync() for a display as the instruction has left it.  The encoder
\* fails at most once.
guacenc_display_sync(d, timestamp) ==
    IF timestamp < d.last_sync
    THEN display' = d /\ UNCHANGED <<video, syncs>>
    ELSE LET new == [WithParents(d) EXCEPT !.last_sync = timestamp]
             base == new.layers[0].buffer
             flat == guacenc_display_flatten(new)
         IN  /\ display' = new
             /\ \E stop \in {0, 1, Never}, dropped \in BOOLEAN :
                   LET advanced == guacenc_video_advance_timeline(video, timestamp, stop)
                       halted == advanced.failed /\ ~video.failed
                   IN  /\ video.failed => stop = Never /\ ~dropped
                       /\ dropped => stop = Never
                       /\ video' = IF halted THEN advanced
                                   ELSE guacenc_video_prepare_frame(advanced, base,
                                            flat.image, dropped)
             /\ syncs' = Append(syncs, [t |-> timestamp, frame |-> video'.next_frame])

-----------------------------------------------------------------------------
(* The instructions of a recording *)

guacenc_handle_sync(argv) ==
    IF Len(argv) < 1 THEN UNCHANGED <<display, video, syncs>>
    ELSE guacenc_display_sync(display, argv[1])

guacenc_handle_mouse(argv) ==
    LET placed == [display EXCEPT !.cursor.x = argv[1], !.cursor.y = argv[2]]
    IN  IF Len(argv) < 2 THEN UNCHANGED <<display, video, syncs>>
        ELSE IF Len(argv) < 4 THEN display' = placed /\ UNCHANGED <<video, syncs>>
        ELSE guacenc_display_sync(placed, argv[4])

\* What the other handlers make of the display; "transfer" is only logged, and an
\* instruction without handler ignored.
Drawn(opcode, argv) ==
    CASE opcode = "blob"     -> guacenc_handle_blob(display, argv)
      [] opcode = "img"      -> guacenc_handle_img(display, argv)
      [] opcode = "end"      -> guacenc_handle_end(display, argv)
      [] opcode = "cursor"   -> guacenc_handle_cursor(display, argv)
      [] opcode = "copy"     -> guacenc_handle_copy(display, argv)
      [] opcode = "size"     -> guacenc_handle_size(display, argv)
      [] opcode = "rect"     -> guacenc_handle_rect(display, argv)
      [] opcode = "cfill"    -> guacenc_handle_cfill(display, argv)
      [] opcode = "move"     -> guacenc_handle_move(display, argv)
      [] opcode = "shade"    -> guacenc_handle_shade(display, argv)
      [] opcode = "dispose"  -> guacenc_handle_dispose(display, argv)
      [] OTHER -> display

guacenc_handle_instruction(opcode, argv) ==
    \/ opcode = "sync" /\ guacenc_handle_sync(argv)
    \/ opcode = "mouse" /\ guacenc_handle_mouse(argv)
    \/ /\ opcode \notin {"sync", "mouse"}
       /\ display' = Drawn(opcode, argv)
       /\ UNCHANGED <<video, syncs>>

\* guacenc_display_alloc()
EncoderInit ==
    /\ display = [layers |-> <<>>, buffers |-> <<>>, image_streams |-> <<>>,
                  last_sync |-> 0,
                  cursor |-> [x |-> -1, y |-> -1, hotspot_x |-> 0, hotspot_y |-> 0,
                              buffer |-> guacenc_buffer_alloc]]
    /\ video = guacenc_video_alloc
    /\ recording \in Recordings
    /\ handled = <<"", <<>>>>
    /\ syncs = <<>>

\* guacenc_read_instructions()
ReadInstruction ==
    /\ recording /= <<>>
    /\ recording' = Tail(recording)
    /\ \E i \in Head(recording) :
          /\ guacenc_handle_instruction(i[1], i[2])
          /\ handled' = i

\* The recording has been read: guacenc_display_free().
EndOfRecording ==
    /\ recording = <<>> /\ handled[1] /= "eof"
    /\ video' = guacenc_video_free(video)
    /\ handled' = <<"eof", <<>>>>
    /\ UNCHANGED <<display, recording, syncs>>

Encoded == handled[1] = "eof" /\ UNCHANGED encoderVars

EncoderNext == ReadInstruction \/ EndOfRecording \/ Encoded

-----------------------------------------------------------------------------
EncoderTypeOK ==
    /\ DOMAIN display.layers \subseteq LayerIds
    /\ DOMAIN display.buffers \subseteq BufferIds
    /\ \A i \in DOMAIN display.image_streams :
          LET s == display.image_streams[i]
          IN  i \in StreamIds /\ Len(s.buffer) <= s.max_length
    /\ \A b \in {display.layers[i].buffer : i \in DOMAIN display.layers}
                \cup {display.buffers[i] : i \in DOMAIN display.buffers} :
          /\ DOMAIN b.image = Area(0, 0, b.width, b.height)
          /\ \A p \in DOMAIN b.image : b.image[p] \in 0 .. MaxShade
    /\ video.next_pts = Len(video.written)

\* What is seen at a place of a layer: its children, each with its own, in front of
\* its own pixel.  The child with the lowest z is the one in front.
Visible(d) ==
    LET children(l) == SetToSortSeq({i \in DOMAIN d.layers \ {0} :
                                        d.layers[i].parent_index = l},
                                    LAMBDA a, b : Before(d, b, a))
        at[q \in LayerIds \X (0 .. 9) \X (0 .. 9)] ==
            LET own == Seen(Pixel(d.layers[q[1]].buffer, <<q[2], q[3]>>))
                front(i) ==
                    LET c == d.layers[i]
                        x == q[2] - c.x
                        y == q[3] - c.y
                    IN  IF <<x, y>> \in DOMAIN c.buffer.image /\ c.opacity /= 0
                        THEN Faded(at[<<i, x, y>>], c.opacity) ELSE <<>>
            IN  FoldRight(LAMBDA i, seen : InFront(front(i), seen), children(q[1]), own)
    IN  [p \in DOMAIN d.layers[0].buffer.image |-> at[<<0, p[1], p[2]>>]]

\* A frame shows the tree of layers: whatever the order in which instructions made
\* and placed the layers, a layer appears with all that lies on it, within its parent
\* and behind its siblings of lower z.  The cursor is in front of all of it, at least
\* if the default layer is the only one that is visible.
FrameIsPicture ==
    LET frame == Last(syncs).frame
        seen == Visible(display)
        c == display.cursor
        above(p) == Seen(Pixel(c.buffer, Moved(p, c.hotspot_x - c.x, c.hotspot_y - c.y)))
        others == {i \in DOMAIN display.layers \ {0} :
                     display.layers[i].opacity /= 0 /\ HasImage(display.layers[i].buffer)}
    IN  handled[1] \in {"sync", "mouse"} /\ syncs /= <<>> /\ ~video.failed
        /\ (handled[1] = "sync" => handled[2][1] = display.last_sync)
        /\ (handled[1] = "mouse" => Len(handled[2]) = 4 /\ handled[2][4] = display.last_sync)
        /\ HasImage(display.layers[0].buffer)
        => /\ DOMAIN frame.image = DOMAIN seen
           /\ \A p \in DOMAIN seen :
                IF c.x < 0 \/ c.y < 0 \/ above(p) = <<>> THEN frame.image[p] = seen[p]
                ELSE \/ frame.image[p] = above(p)
                     \/ others /= {} /\ frame.image[p] = seen[p]

\* Frames are equally long, and the time that is left over when frames are written is
\* not lost: however the syncs fall, the frame of any moment shows what the last sync
\* before the end of that frame had drawn, and nothing is written twice or left out.
TimelineKept ==
    LET timed == SelectSeq(syncs, LAMBDA s : s.t /= 0)
        start == timed[1].t
        last == Last(timed).t
        due(t) == ((t - start) * GUACENC_VIDEO_FRAMERATE) \div 1000
        shown(n) == Last(SelectSeq(timed, LAMBDA s : due(s.t) < n)).frame
        ended == IF handled[1] = "eof" THEN 1 ELSE 0
    IN  timed /= <<>> /\ ~video.failed
        => /\ Len(video.written) = due(last) + ended
           /\ \A n \in 1 .. due(last) :
                video.written[n] = [pts |-> n - 1, frame |-> shown(n)]

\* The bars give the picture the shape of the video, as nearly as pixels allow: at most
\* two pixels are missing, and less than one pixel of the video is too much.
BarsFit ==
    LET f == video.next_frame
        w == f.width + 2 * f.psize
        h == f.height + 2 * f.lsize
    IN  f /= Unset =>
          /\ f.psize >= 0 /\ f.lsize >= 0
          /\ \/ /\ f.lsize = 0
                /\ w * VideoHeight < h * VideoWidth + h
                /\ (w + 2) * VideoHeight > h * VideoWidth
             \/ /\ f.psize = 0
                /\ h * VideoWidth < w * VideoHeight + w
                /\ (h + 2) * VideoWidth > w * VideoHeight

\* When an image has been received, all of it is there: on a buffer wherever it is
\* drawn, since that grows, and on a layer as far as that reaches, whatever streams
\* were received at the same time.
ImagesWhole ==
    handled[1] = "end" /\ handled[2][1] \in DOMAIN display.image_streams =>
        LET s == display.image_streams[handled[2][1]]
            b == BufferOf(display, s.index)
        IN  s.decoder /\ s.mask \in {12, 14} /\ IsBuffer(s.index) =>
              \A i \in Decoded(s.buffer) : \A p \in DOMAIN i.image :
                LET q == Moved(p, s.x, s.y)
                IN  i.image[p] /= 0 /\ (s.index >= 0 => q \in DOMAIN b.image)
                    => q \in DOMAIN b.image /\ b.image[q] = i.image[p]

\* Every frame written to the video is the picture of the tree of layers,
\* scaled to fit with bars, and every image that ended was drawn whole.
VideoSound ==
  /\ EncoderTypeOK
  /\ FrameIsPicture
  /\ ImagesWhole
  /\ BarsFit

=============================================================================
