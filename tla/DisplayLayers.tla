---------------------------- MODULE DisplayLayers ----------------------------
(***************************************************************************)
(* What is drawn on the layers of a guac_display, and what users see of it *)
(* (display-layer.c, display-layer-list.c, display-cursor.c,               *)
(* display-flush.c, display-worker.c, display.c).                          *)
(*                                                                         *)
(* A layer has a pending frame, drawn by the plugin, and the last frame.   *)
(* Ending a frame plans the operations that turn the last into the pending *)
(* frame (DisplayPlan), commits the pending frame as the last and sends    *)
(* the operations.  Users' clients draw them: remote is their picture, and *)
(* remote_last what they keep of every layer in the buffer from which      *)
(* later frames copy (last_frame_buffer).                                  *)
(*                                                                         *)
(* Ending a frame is one step: DisplayFrames models the threads, the locks *)
(* and frames that are deferred.  A pixel is a number, 0 being transparent *)
(* on a layer that is not opaque; in clients a pixel may be Unpainted.     *)
(* The plugin's calls are those of a script: a sequence of choices.        *)
(***************************************************************************)
EXTENDS DisplayPlan

CONSTANTS Layers,          \* all layers that may be allocated
          DefaultLayer, CursorLayer,
          ResizeFactor,    \* GUAC_DISPLAY_RESIZE_FACTOR
          Canvas,          \* bound: pixels of the largest layer
          Colours,         \* pixels
          Unpainted,
          Scripts          \* sequences of sets of calls

ASSUME LayersAssumption ==
  /\ {DefaultLayer, CursorLayer} \subseteq Layers /\ DefaultLayer # CursorLayer
  /\ ResizeFactor \in Nat \ {0}
  /\ 0 \in Colours /\ Unpainted \notin Colours

VARIABLES
  layers,        \* the allocated layers
  pending_order, \* pending_frame.layers
  last_order,    \* last_frame.layers
  touched,       \* pending_frame_dirty_excluding_mouse
  mouse,         \* cursor_x/y and the cursor's hotspot, in both frames
  remote, remote_last,
  remote_mouse,  \* what users see of the mouse: position, and the cursor's image
  aborted,       \* an assertion of the code has failed
  script

layerVars == <<layers, pending_order, last_order, touched, mouse, remote, remote_last,
          remote_mouse, aborted, script>>

-----------------------------------------------------------------------------
Within(width, height) == {p \in Canvas : p[1] < width /\ p[2] < height}

RoundUp(pixels) == ((pixels + ResizeFactor - 1) \div ResizeFactor) * ResizeFactor

Blank == [place |-> 0, opacity |-> 255, touches |-> 0, lossless |-> 0]

NewFrame ==
  [width |-> ResizeFactor, height |-> ResizeFactor,
   buffer_width |-> ResizeFactor, buffer_height |-> ResizeFactor,
   buffer |-> [p \in Within(ResizeFactor, ResizeFactor) |-> 0],
   dirty |-> NoRect, search_for_copies |-> FALSE, attributes |-> Blank]

NewLayer(opaque) ==
  [opaque |-> opaque, external |-> FALSE, pending |-> NewFrame, last |-> NewFrame]

NewRemote == [width |-> ResizeFactor, height |-> ResizeFactor,
              pixels |-> [p \in Canvas |-> Unpainted], attributes |-> Blank]

\* guac_display_add_layer()
Allocated(l, opaque) ==
  /\ layers' = [k \in DOMAIN layers \cup {l} |->
                  IF k = l THEN NewLayer(opaque) ELSE layers[k]]
  /\ pending_order' = <<l>> \o pending_order
  /\ remote' = [k \in DOMAIN remote \cup {l} |-> IF k = l THEN NewRemote ELSE remote[k]]
  /\ remote_last' = [k \in DOMAIN remote \cup {l} |->
                       IF k = l THEN NewRemote.pixels ELSE remote_last[k]]

\* guac_display_alloc()
LayersInit ==
  /\ layers = [l \in {DefaultLayer, CursorLayer} |-> NewLayer(l = DefaultLayer)]
  /\ pending_order = <<CursorLayer, DefaultLayer>>
  /\ last_order = << >>
  /\ touched = FALSE
  /\ mouse = [pending |-> [at |-> 0, hotspot |-> 0], last |-> [at |-> 0, hotspot |-> 0]]
  /\ remote = [l \in DOMAIN layers |-> NewRemote]
  /\ remote_last = [l \in DOMAIN layers |-> NewRemote.pixels]
  /\ remote_mouse = [at |-> 0, hotspot |-> 0, width |-> 0, height |-> 0,
                     image |-> << >>]
  /\ aborted = FALSE
  /\ script \in Scripts

-----------------------------------------------------------------------------
(* Drawing on the pending frame *)

\* PFW_guac_display_layer_touch()
MutantTouch(l) == touched \/ l = DefaultLayer

Touch(l) == touched \/ l # CursorLayer

\* A layer's buffer keeps what it holds as far as it fits
\* (XFW_guac_display_layer_buffer_resize()); an external buffer is the plugin's.
Resized(layer, width, height) ==
  LET w == RoundUp(width)
      h == RoundUp(height)
      old == layer.pending
      buffer == [p \in Within(w, h) |->
                   IF p \in DOMAIN old.buffer THEN old.buffer[p] ELSE 0]
      sized == [old EXCEPT !.width = width, !.height = height]
  IN  [layer EXCEPT !.pending =
         IF layer.external THEN sized
         ELSE [sized EXCEPT !.buffer = buffer, !.buffer_width = w, !.buffer_height = h]]

\* guac_display_layer_close_raw() and _close_cairo(), after what was drawn
Closed(layer, dirty) ==
  [layer EXCEPT !.pending.dirty = guac_rect_extend(@, dirty)]

Hinted(ls, hint) ==
  IF hint \in DOMAIN ls THEN [ls EXCEPT ![hint].pending.search_for_copies = TRUE] ELSE ls

Painted(layer, rect, picture) ==
  [layer EXCEPT !.pending.buffer =
     [p \in DOMAIN @ |-> IF p \in PixelsOf(rect) THEN picture[p] ELSE @[p]]]

\* A raw context is opened, drawn with guac_display_layer_raw_context_set() or _put()
\* and closed.  "picture" gives the new pixels, "hint" the layer to be searched for
\* copies, if any.
Put(l, rect, picture, hint) ==
  /\ layers' = Hinted([layers EXCEPT ![l] = Closed(Painted(@, rect, picture), rect)], hint)
  /\ touched' = Touch(l)
  /\ UNCHANGED <<pending_order, last_order, mouse, remote, remote_last, remote_mouse,
                 aborted>>

\* What was at (dx, dy) from here, as after scrolling; the rest stays.
Shifted(l, dx, dy) ==
  LET buffer == layers[l].pending.buffer
  IN  [p \in DOMAIN buffer |->
         LET q == <<p[1] + dx, p[2] + dy>>
         IN  IF q \in DOMAIN buffer THEN buffer[q] ELSE buffer[p]]

\* guac_display_layer_resize()
Resize(l, width, height) ==
  /\ layers' = [layers EXCEPT ![l] = Resized(@, width, height)]
  /\ touched' = Touch(l)
  /\ UNCHANGED <<pending_order, last_order, mouse, remote, remote_last, remote_mouse,
                 aborted>>

\* The plugin lends its own buffer to the display, or one of another size, as
\* guac_rdp_gdi_desktop_resize() does, and all of it is painted.
ReplaceBuffer(l, width, height, picture) ==
  LET whole == guac_rect_init(0, 0, width, height)
      lent == [Resized(layers[l], width, height) EXCEPT
                 !.external = TRUE,
                 !.pending.buffer = [p \in Within(width, height) |-> picture[p]],
                 !.pending.buffer_width = width,
                 !.pending.buffer_height = height]
  IN  /\ layers' = Hinted([layers EXCEPT ![l] = Closed(lent, whole)], l)
      /\ touched' = Touch(l)
      /\ UNCHANGED <<pending_order, last_order, mouse, remote, remote_last,
                     remote_mouse, aborted>>

\* guac_display_layer_move(), _stack() and _set_parent() change the place;
\* _set_opacity(), _set_lossless(), _set_multitouch()
SetAttribute(l, attribute, value) ==
  /\ layers' = [layers EXCEPT ![l].pending.attributes[attribute] = value]
  /\ touched' = Touch(l)
  /\ UNCHANGED <<pending_order, last_order, mouse, remote, remote_last, remote_mouse,
                 aborted>>

\* guac_display_alloc_layer() and guac_display_alloc_buffer()
Alloc(l, opaque) ==
  /\ Allocated(l, opaque)
  /\ UNCHANGED <<last_order, touched, mouse, remote_mouse, aborted>>

\* guac_display_free_layer().  A layer that never was in a last frame is taken for the
\* head of that frame's list.
Free(l) ==
  LET rest == DOMAIN layers \ {l}
  IN  /\ aborted' = (last_order # << >> /\ l \notin ToSet(last_order))
      /\ layers' = [k \in rest |-> layers[k]]
      /\ pending_order' = SelectSeq(pending_order, LAMBDA k : k # l)
      /\ last_order' = SelectSeq(last_order, LAMBDA k : k # l)
      /\ remote' = [k \in rest |-> remote[k]]
      /\ remote_last' = [k \in rest |-> remote_last[k]]
      /\ UNCHANGED <<touched, mouse, remote_mouse>>

-----------------------------------------------------------------------------
(* Ending a frame *)

Committed(layer, dirty) ==
  LET new == layer.pending
      old == layer.last
      resized == \/ old.buffer_width # new.buffer_width
                 \/ old.buffer_height # new.buffer_height
      copied == [p \in DOMAIN old.buffer |->
                   IF p \in Within(new.width, new.height)
                   THEN new.buffer[p] ELSE old.buffer[p]]
  IN  [layer EXCEPT
         !.pending.dirty = NoRect,
         !.pending.search_for_copies = FALSE,
         !.last = [new EXCEPT
                     !.buffer = CASE resized -> new.buffer
                                  [] ~resized /\ ~guac_rect_is_empty(dirty) -> copied
                                  [] OTHER -> old.buffer,
                     !.dirty = IF resized \/ ~guac_rect_is_empty(dirty)
                               THEN dirty ELSE NoRect]]

\* frame_nonempty: what PFW_LFW_guac_display_frame_complete() returns.  A changed
\* number of touches is sent without ending a frame.
Changes(layer, dirty) ==
  LET new == layer.pending
      old == layer.last
  IN  \/ old.buffer_width # new.buffer_width
      \/ old.buffer_height # new.buffer_height
      \/ ~guac_rect_is_empty(dirty)
      \/ old.width # new.width \/ old.height # new.height
      \/ old.attributes.opacity # new.attributes.opacity
      \/ old.attributes.place # new.attributes.place

\* A client is told what differs from the last frame: "size", "shade", "move", "set".
\* Of a resized layer it keeps what fits.
Told(picture, new, old) ==
  LET sized == new.width # old.width \/ new.height # old.height
      kept == Within(picture.width, picture.height) \cap Within(new.width, new.height)
  IN  [width  |-> IF sized THEN new.width ELSE picture.width,
       height |-> IF sized THEN new.height ELSE picture.height,
       pixels |-> IF sized
                  THEN [p \in Canvas |->
                          IF p \in kept THEN picture.pixels[p] ELSE Unpainted]
                  ELSE picture.pixels,
       attributes |-> [a \in DOMAIN Blank |->
                         IF new.attributes[a] # old.attributes[a]
                         THEN new.attributes[a] ELSE picture.attributes[a]]]

\* Composition: GUAC_COMP_OVER lets what is below show where there is nothing.
Over(above, below) == IF above = Unpainted THEN below ELSE above

\* What a client shows of a pixel that is sent in an image or as a colour.
Sent(opaque, pixel) == IF ~opaque /\ pixel = 0 THEN Unpainted ELSE pixel

Draw(picture, rect, pixels) ==
  [picture EXCEPT !.pixels =
     [p \in Canvas |-> IF p \in PixelsOf(rect) /\ p \in Within(picture.width, picture.height)
                       THEN pixels[p] ELSE @[p]]]

\* guac_display_plan_apply(), and the images by the worker threads.  Layers that are
\* not opaque are cleared before an image or a rectangle, but not before a copy.
Applied(ls, pictures, op) ==
  LET l == op.layer
      opaque == ls[l].opaque
      area == PixelsOf(op.dest)
      color == [p \in area |-> Sent(opaque, op.color)]
      image == [p \in area |-> Sent(opaque, ls[l].last.buffer[p])]
      copy == [p \in area |->
                 Over(remote_last[op.from][<<p[1] - op.dest.left + op.src.left,
                                             p[2] - op.dest.top + op.src.top>>],
                      pictures[l].pixels[p])]
  IN  CASE op.type = RECT -> [pictures EXCEPT ![l] = Draw(@, op.dest, color)]
        [] op.type = COPY -> [pictures EXCEPT ![l] = Draw(@, op.dest, copy)]
        [] op.type = IMG  -> [pictures EXCEPT ![l] = Draw(@, op.dest, image)]
        [] OTHER -> pictures

\* At the end of a frame what has changed is copied into last_frame_buffer, cleared
\* before unless the layer is opaque.
Remembered(ls, pictures, l) ==
  LET kept == remote_last[l]
      layer == ls[l]
  IN  [p \in Canvas |->
         IF p \in PixelsOf(layer.last.dirty)
         THEN Over(pictures[l].pixels[p], IF layer.opaque THEN kept[p] ELSE Unpainted)
         ELSE kept[p]]

\* The cursor is sent if its picture has changed.
CursorSent(ls, pictures, m) ==
  IF guac_rect_is_empty(ls[CursorLayer].last.dirty) THEN remote_mouse
  ELSE [remote_mouse EXCEPT !.hotspot = m.hotspot,
                            !.width = ls[CursorLayer].last.width,
                            !.height = ls[CursorLayer].last.height,
                            !.image = pictures[CursorLayer].pixels]

\* The operations of some types, in order; images come after all others.
AppliedAll(ls, pictures, ops, types) ==
  FoldLeft(LAMBDA acc, op : IF op.type \in types THEN Applied(ls, acc, op) ELSE acc, pictures, ops)

DrawnBy(ls, ops, pictures) == AppliedAll(ls, AppliedAll(ls, pictures, ops, {RECT, COPY}), ops, {IMG})

\* guac_display_end_multiple_frames() up to and including the end of the frame by the
\* last worker.  "ls" are the layers as drawn so far, m the pending mouse.
Flush(ls, m) ==
  \E plan \in {PlanOf(ls, pending_order, last_order)} :
  \E committed \in {[l \in DOMAIN ls |-> Committed(ls[l], plan.dirty[l])]} :
  \E drawn \in {DrawnBy(committed, plan.ops, [l \in DOMAIN ls |-> Told(remote[l], ls[l].pending, ls[l].last)])} :
  LET nonempty == \E l \in DOMAIN ls : Changes(ls[l], plan.dirty[l])
  IN  /\ layers' = committed
      /\ last_order' = pending_order
      /\ remote' = drawn
      /\ remote_last' = IF nonempty
                        THEN [l \in DOMAIN ls |-> Remembered(committed, drawn, l)]
                        ELSE remote_last
      /\ mouse' = [pending |-> m, last |-> m]
      /\ remote_mouse' = [(IF nonempty THEN CursorSent(committed, drawn, m)
                           ELSE remote_mouse) EXCEPT !.at = m.at]
      /\ touched' = FALSE

\* guac_display_end_frame()
EndFrame ==
  /\ Flush(layers, mouse.pending)
  /\ UNCHANGED <<pending_order, aborted>>

\* guac_display_end_mouse_frame(), after a change of the cursor or of its position: the
\* frame ends only if nothing but the cursor has been changed.
EndMouseFrame(ls, m) ==
  /\ IF touched
     THEN /\ layers' = ls
          /\ mouse' = [mouse EXCEPT !.pending = m]
          /\ UNCHANGED <<last_order, remote, remote_last, remote_mouse, touched>>
     ELSE Flush(ls, m)
  /\ UNCHANGED <<pending_order, aborted>>

\* guac_display_notify_user_moved_mouse()
MoveMouse(at) == EndMouseFrame(layers, [mouse.pending EXCEPT !.at = at])

\* guac_display_set_cursor()
SetCursor(cursor) ==
  LET whole == guac_rect_init(0, 0, cursor.width, cursor.height)
      drawn == Closed(Painted(Resized(layers[CursorLayer], cursor.width, cursor.height),
                              whole, cursor.image), whole)
  IN  EndMouseFrame(Hinted([layers EXCEPT ![CursorLayer] = drawn], CursorLayer),
                    [mouse.pending EXCEPT !.hotspot = cursor.hotspot])

-----------------------------------------------------------------------------
Call(c) ==
  \/ c.call = "put" /\ Put(c.layer, c.rect, c.picture, c.hint)
  \/ c.call = "scroll" /\ Put(c.layer, c.rect, Shifted(c.layer, c.dx, c.dy), c.layer)
  \/ c.call = "resize" /\ Resize(c.layer, c.width, c.height)
  \/ c.call = "replace" /\ ReplaceBuffer(c.layer, c.width, c.height, c.picture)
  \/ c.call = "set" /\ SetAttribute(c.layer, c.attribute, c.value)
  \/ c.call = "alloc" /\ Alloc(c.layer, c.opaque)
  \/ c.call = "free" /\ Free(c.layer)
  \/ c.call = "end" /\ EndFrame
  \/ c.call = "mouse" /\ MoveMouse(c.at)
  \/ c.call = "cursor" /\ SetCursor(c.cursor)

\* The plugin has ended.
Finished == script = << >> /\ UNCHANGED layerVars

LayersNext ==
  \/ /\ script # << >>
     /\ ~aborted
     /\ script' = Tail(script)
     /\ \E c \in Head(script) : Call(c)
  \/ Finished

LayersSpec == LayersInit /\ [][LayersNext]_layerVars

-----------------------------------------------------------------------------
Pixels == Colours \cup {Unpainted}

LayersTypeOK ==
  /\ DOMAIN layers \subseteq Layers /\ DOMAIN remote = DOMAIN layers
  /\ ToSet(pending_order) = DOMAIN layers /\ ToSet(last_order) \subseteq DOMAIN layers
  /\ \A l \in DOMAIN layers : \A f \in {layers[l].pending, layers[l].last} :
       /\ f.width <= f.buffer_width /\ f.height <= f.buffer_height
       /\ f.buffer \in [Within(f.buffer_width, f.buffer_height) -> Colours]
  /\ \A l \in DOMAIN remote : remote[l].pixels \in [Canvas -> Pixels]
  /\ remote_last \in [DOMAIN layers -> [Canvas -> Pixels]]
  /\ touched \in BOOLEAN /\ aborted \in BOOLEAN

Shown(pixel) == IF pixel = Unpainted THEN 0 ELSE pixel

\* When nothing but the mouse has changed since the last frame, users see what the
\* plugin has drawn: whatever mixture of images, rectangles and copies the plan made
\* of the changes and however it combined them, every opaque layer has its size, its
\* attributes and all its pixels, and none of a half drawn frame has been sent.
ShownIsDrawn ==
  ~touched =>
    \A l \in ToSet(last_order) \ {CursorLayer} :
      LET drawn == layers[l].pending
      IN  /\ remote[l].width = drawn.width /\ remote[l].height = drawn.height
          /\ remote[l].attributes = drawn.attributes
          /\ layers[l].opaque =>
               \A p \in Within(drawn.width, drawn.height) :
                 Shown(remote[l].pixels[p]) = drawn.buffer[p]

\* Images are encoded from, and changes are found by comparing with, the last frame,
\* while users only have what was sent: the two agree, also in the buffers from which
\* later copies are made.
LastIsRemote ==
  \A l \in ToSet(last_order) :
    LET last == layers[l].last
    IN  layers[l].opaque =>
          \A p \in Within(last.width, last.height) :
            /\ Shown(remote[l].pixels[p]) = last.buffer[p]
            /\ Shown(remote_last[l][p]) = last.buffer[p]

\* The cursor users see has the pixels of the cursor that was set last, where the two
\* overlap.  (A new size or hotspot alone is not sent: only changed pixels are.)
CursorPixels ==
  LET last == layers[CursorLayer].last
  IN  remote_mouse.width # 0 =>
        \A p \in Within(Min({last.width, remote_mouse.width}),
                        Min({last.height, remote_mouse.height})) :
          Shown(remote_mouse.image[p]) = last.buffer[p]

=============================================================================
